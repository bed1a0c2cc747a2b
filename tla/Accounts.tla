------------------------------ MODULE Accounts ------------------------------
(***************************************************************************)
(* Users and their projects as the web interface changes them: signing up, *)
(* adding, editing, crawling and deleting a project, deleting an account   *)
(* (services/project.go, services/user.go, repository/project.go,          *)
(* repository/user.go and the handlers that call them).                    *)
(*                                                                         *)
(* A request is one process: its handler, and then the goroutine it leaves *)
(* behind, which crawls or deletes.  One statement, or one operation on a  *)
(* file, is one step.  What a crawl does between its start and its end is  *)
(* in Crawler; here it inserts rows for a while.                           *)
(***************************************************************************)
EXTENDS Naturals, SequencesExt

CONSTANTS
  User, Project, Req,  \* accounts, projects, requests
  EmailOf,             \* the address of an account
  Ported,              \* projects whose URL names a port
  Archiving,           \* projects that are added with the archive option
  KindOf,              \* what a request asks for
  TargetOf,            \* the project it is about, or the account it signs up
  From,                \* the address in the session of a request
  Turns,               \* edits that turn the archive option on
  Owned,               \* who owns the projects that exist at the beginning
  MaxBroken, MaxCrashes, \* bounds: failing statements, crashes
  None

Kinds == {"signup", "add", "edit", "start", "delete", "account"}

\* Who signs up, and a project that is added, gets a row of its own.
ASSUME AccountsAssumption ==
  /\ Ported \subseteq Project /\ Archiving \subseteq Project /\ Turns \subseteq Req
  /\ KindOf \in [Req -> Kinds] /\ TargetOf \in [Req -> User \cup Project]
  /\ Owned \in [Project -> User \cup {None}] /\ None \notin User
  /\ \A r \in Req : TargetOf[r] \in IF KindOf[r] = "signup" THEN User ELSE Project
  /\ \A r \in Req : KindOf[r] \in {"add", "signup"} =>
       /\ \A q \in Req : KindOf[q] = KindOf[r] /\ TargetOf[q] = TargetOf[r] => q = r
       /\ \A p \in Project : Owned[p] # None => TargetOf[r] \notin {p, Owned[p]}
  /\ MaxBroken \in Nat /\ MaxCrashes \in Nat

VARIABLES
  user, project, owner, archive, \* rows of users and projects
  crawl, rows, started,  \* rows of crawls, whether they have data, their order
  files,                 \* the archives on disk
  crawlers,              \* CrawlerService.crawlers
  pc, as, wants, todo, batch, previous, \* the requests and their goroutines
  late, broken, crashes  \* history: see NothingLeftBehind; statements that failed

dbVars  == <<user, project, owner, archive, crawl, rows, started>>
reqVars == <<as, wants, todo, batch, previous>>
histVars == <<late, broken, crashes>>
accountsVars == <<dbVars, files, crawlers, pc, reqVars, histVars>>

Starts == {r \in Req : KindOf[r] = "start"}
Exists(p) == project[p] \in {"live", "deleting"}
Of(u) == {p \in Project : owner[p] = u /\ Exists(p)}
CrawlsOf(p) == {c \in Starts : crawl[c] \in {"open", "ended"} /\ TargetOf[c] = p}

AccountsTypeOK ==
  /\ user \in [User -> {"none", "live", "deleting", "gone"}]
  /\ project \in [Project -> {"none", "live", "deleting", "gone"}]
  /\ owner \in [Project -> User \cup {None}] /\ archive \in [Project -> BOOLEAN]
  /\ crawl \in [Starts -> {"none", "open", "ended", "gone"}] /\ rows \subseteq Starts
  /\ started \in Seq(Starts) /\ crawlers \subseteq Project /\ late \subseteq Project
  /\ as \in [Req -> User \cup {None}] /\ wants \in [Req -> BOOLEAN]
  /\ broken \in 0..MaxBroken /\ crashes \in 0..MaxCrashes

\* Accounts that own something exist; the others may sign up.
AccountsInit ==
  /\ user = [u \in User |-> IF \E p \in Project : Owned[p] = u THEN "live" ELSE "none"]
  /\ project = [p \in Project |-> IF Owned[p] = None THEN "none" ELSE "live"]
  /\ owner = Owned /\ archive = [p \in Project |-> p \in Archiving]
  /\ crawl = [c \in Starts |-> "none"] /\ rows = {} /\ started = << >>
  /\ files = {} /\ crawlers = {}
  /\ pc = [r \in Req |-> IF KindOf[r] = "signup" THEN "known" ELSE "auth"]
  /\ as = [r \in Req |-> None] /\ wants = [r \in Req |-> FALSE]
  /\ todo = [r \in Req |-> {}] /\ batch = [r \in Req |-> {}]
  /\ previous = [r \in Req |-> None]
  /\ late = {} /\ broken = 0 /\ crashes = 0

Go(r, step) == pc' = [pc EXCEPT ![r] = step]

\* The path of a project's archive.  A project that was read without its Host
\* is stored under the name without the port.
ArchiveFile(p, hostSet) == <<p, IF hostSet /\ p \in Ported THEN "port" ELSE "name">>

\* The last crawl of a project, None if it has none.
GetLastCrawl(p) == LET s == SelectSeq(started, LAMBDA c : c \in CrawlsOf(p))
                   IN  IF s = << >> THEN None ELSE Last(s)

\* FindUserByEmail: an account with this address that is not being deleted.
\* Addresses are not unique in the table.
FindUserByEmail(e) == {u \in User : EmailOf[u] = e /\ user[u] = "live"}

-----------------------------------------------------------------------------
\* The session's address is looked up at every request.
Auth(r) ==
  /\ pc[r] = "auth"
  /\ \/ \E u \in FindUserByEmail(From[r]) :
          /\ as' = [as EXCEPT ![r] = u]
          /\ Go(r, CASE KindOf[r] = "add" -> "insert"
                     [] KindOf[r] = "account" -> "crawling"
                     [] OTHER -> "find")
     \/ FindUserByEmail(From[r]) = {} /\ Go(r, "done") /\ UNCHANGED as
  /\ UNCHANGED <<dbVars, files, crawlers, wants, todo, batch, previous, histVars>>

\* SignUp looks for the address and, some steps later, inserts the account.
Known(r) ==
  /\ pc[r] = "known"
  /\ Go(r, IF FindUserByEmail(From[r]) = {} THEN "signup" ELSE "done")
  /\ UNCHANGED <<dbVars, files, crawlers, reqVars, histVars>>

UserSignup(r) ==
  /\ pc[r] = "signup" /\ Go(r, "done")
  /\ user' = [user EXCEPT ![TargetOf[r]] = "live"]
  /\ UNCHANGED <<project, owner, archive, crawl, rows, started, files, crawlers,
                 reqVars, histVars>>

\* The foreign key refuses a project of an account that is gone.
SaveProject(r) ==
  LET p == TargetOf[r] IN
  /\ pc[r] = "insert" /\ Go(r, "done")
  /\ IF user[as[r]] = "gone" THEN UNCHANGED <<project, owner>>
     ELSE project' = [project EXCEPT ![p] = "live"] /\ owner' = [owner EXCEPT ![p] = as[r]]
  /\ UNCHANGED <<user, archive, crawl, rows, started, files, crawlers, reqVars, histVars>>

\* A project that is being deleted is found like any other.
FindProject(r) ==
  LET p == TargetOf[r] IN
  /\ pc[r] = "find"
  /\ IF p \in Of(as[r])
     THEN Go(r, CASE KindOf[r] = "start" -> "add"
                  [] KindOf[r] = "delete" -> "disable"
                  [] OTHER -> IF r \in Turns THEN "update" ELSE "discard")
     ELSE Go(r, "done")
  /\ wants' = [wants EXCEPT ![r] = archive[p]]
  /\ UNCHANGED <<dbVars, files, crawlers, as, todo, batch, previous, histVars>>

\* UpdateProject without the archive option removes the file, then updates.
Discard(r) ==
  /\ pc[r] = "discard" /\ Go(r, "update")
  /\ files' = files \ {ArchiveFile(TargetOf[r], TRUE)}
  /\ UNCHANGED <<dbVars, crawlers, reqVars, histVars>>

UpdateProject(r) ==
  /\ pc[r] = "update" /\ Go(r, "done")
  /\ archive' = [archive EXCEPT ![TargetOf[r]] = IF Exists(TargetOf[r]) THEN r \in Turns ELSE @]
  /\ UNCHANGED <<user, project, owner, crawl, rows, started, files, crawlers,
                 reqVars, histVars>>

-----------------------------------------------------------------------------
\* StartCrawler: one crawler per project; then GetLastCrawl and SaveCrawl.
AddCrawler(r) ==
  LET p == TargetOf[r] IN
  /\ pc[r] = "add"
  /\ IF p \in crawlers THEN Go(r, "done") /\ UNCHANGED <<crawlers, previous>>
     ELSE /\ Go(r, "save")
          /\ crawlers' = crawlers \cup {p}
          /\ previous' = [previous EXCEPT ![r] = GetLastCrawl(p)]
  /\ UNCHANGED <<dbVars, files, as, wants, todo, batch, histVars>>

SaveCrawl(r) ==
  LET p == TargetOf[r] IN
  /\ pc[r] = "save"
  /\ IF Exists(p)
     THEN /\ crawl' = [crawl EXCEPT ![r] = "open"] /\ started' = Append(started, r)
          /\ Go(r, IF wants[r] THEN "open" ELSE "fetch") /\ UNCHANGED crawlers
     ELSE /\ crawlers' = crawlers \ {p} /\ Go(r, "done") /\ UNCHANGED <<crawl, started>>
  /\ UNCHANGED <<user, project, owner, archive, rows, files, reqVars, histVars>>

OpenArchive(r) ==
  LET p == TargetOf[r] IN
  /\ pc[r] = "open" /\ Go(r, "fetch")
  /\ files' = files \cup {ArchiveFile(p, TRUE)}
  /\ late' = IF project[p] = "live" /\ user[owner[p]] = "live" THEN late ELSE late \cup {p}
  /\ UNCHANGED <<dbVars, crawlers, reqVars, broken, crashes>>

\* A page report of a crawl that is gone is refused by the foreign key.
StoreRows(r) ==
  /\ pc[r] = "fetch" /\ crawl[r] = "open" /\ r \notin rows
  /\ rows' = rows \cup {r}
  /\ UNCHANGED <<user, project, owner, archive, crawl, started, files, crawlers, pc,
                 reqVars, histVars>>

UpdateCrawl(r) ==
  /\ pc[r] = "fetch" /\ Go(r, "cleanup")
  /\ crawl' = [crawl EXCEPT ![r] = IF @ = "open" THEN "ended" ELSE @]
  /\ UNCHANGED <<user, project, owner, archive, rows, started, files, crawlers,
                 reqVars, histVars>>

DeleteCrawlDataIfUnreferenced(r) ==
  /\ pc[r] = "cleanup" /\ Go(r, "remove")
  /\ rows' = rows \ {previous[r]}
  /\ UNCHANGED <<user, project, owner, archive, crawl, started, files, crawlers,
                 reqVars, histVars>>

RemoveCrawler(r) ==
  /\ pc[r] = "remove" /\ Go(r, "done")
  /\ crawlers' = crawlers \ {TargetOf[r]}
  /\ UNCHANGED <<dbVars, files, reqVars, histVars>>

-----------------------------------------------------------------------------
\* UserIsCrawling: no project may be in deletion, or have a last crawl that is
\* not over; a project that was never crawled counts as crawling.
UserIsCrawling(r) ==
  /\ pc[r] = "crawling"
  /\ IF \E p \in Of(as[r]) : project[p] = "deleting"
     THEN Go(r, "done") /\ UNCHANGED todo
     ELSE Go(r, "views") /\ todo' = [todo EXCEPT ![r] = Of(as[r])]
  /\ UNCHANGED <<dbVars, files, crawlers, as, wants, batch, previous, histVars>>

IsCrawling(p) == GetLastCrawl(p) = None \/ crawl[GetLastCrawl(p)] = "open"

GetProjectViews(r) ==
  /\ pc[r] = "views"
  /\ IF todo[r] = {} THEN Go(r, "disable") /\ UNCHANGED todo
     ELSE LET p == CHOOSE q \in todo[r] : TRUE IN
          /\ todo' = [todo EXCEPT ![r] = @ \ {p}]
          /\ IF IsCrawling(p) THEN Go(r, "done") ELSE UNCHANGED pc
  /\ UNCHANGED <<dbVars, files, crawlers, as, wants, batch, previous, histVars>>

\* The goroutine of a deletion: the projects in todo, one after the other.
Current(r) == CHOOSE p \in todo[r] : TRUE

\* DisableProject, DisableUser: what is marked is deleted in a goroutine.
Disable(r) ==
  /\ pc[r] = "disable"
  /\ IF KindOf[r] = "delete"
     THEN /\ project' = [project EXCEPT ![TargetOf[r]] = IF @ = "live" THEN "deleting" ELSE @]
          /\ todo' = [todo EXCEPT ![r] = {TargetOf[r]}] /\ Go(r, "crawls") /\ UNCHANGED user
     ELSE /\ user' = [user EXCEPT ![as[r]] = IF @ = "live" THEN "deleting" ELSE @]
          /\ Go(r, "projects") /\ UNCHANGED <<project, todo>>
  /\ UNCHANGED <<owner, archive, crawl, rows, started, files, crawlers, as, wants,
                 batch, previous, histVars>>

FindProjectsByUser(r) ==
  /\ pc[r] = "projects"
  /\ todo' = [todo EXCEPT ![r] = Of(as[r])]
  /\ Go(r, IF Of(as[r]) = {} THEN "user" ELSE "crawls")
  /\ UNCHANGED <<dbVars, files, crawlers, as, wants, batch, previous, histVars>>

\* DeleteProjectCrawls: the crawls there are; of each, batch after batch until
\* nothing is counted, while it may go on inserting; then their rows.
FindCrawls(r) ==
  /\ pc[r] = "crawls" /\ Go(r, "data")
  /\ batch' = [batch EXCEPT ![r] = CrawlsOf(Current(r))]
  /\ UNCHANGED <<dbVars, files, crawlers, as, wants, todo, previous, histVars>>

DeleteCrawlData(r) ==
  LET c == CHOOSE d \in batch[r] : TRUE IN
  /\ pc[r] = "data"
  /\ \/ batch[r] = {} /\ Go(r, "rows") /\ UNCHANGED <<batch, rows>>
     \/ batch[r] # {} /\ c \in rows /\ rows' = rows \ {c} /\ UNCHANGED <<batch, pc>>
     \/ batch[r] # {} /\ c \notin rows /\ batch' = [batch EXCEPT ![r] = @ \ {c}]
        /\ UNCHANGED <<rows, pc>>
  /\ UNCHANGED <<user, project, owner, archive, crawl, started, files, crawlers,
                 as, wants, todo, previous, histVars>>

\* Rows of crawls that go take their data along (ON DELETE CASCADE).
Cascade(gone) ==
  /\ crawl' = [c \in Starts |-> IF c \in gone THEN "gone" ELSE crawl[c]]
  /\ rows' = rows \ gone

DeleteProjectCrawls(r) ==
  /\ pc[r] = "rows" /\ Go(r, "project")
  /\ Cascade(CrawlsOf(Current(r)))
  /\ UNCHANGED <<user, project, owner, archive, started, files, crawlers, reqVars, histVars>>

\* Mutant: the statement does not see projects that are marked.
DeleteProject_unmarked(r) ==
  LET p == Current(r)
      hit == IF project[p] = "deleting" THEN {} ELSE {p} IN
  /\ pc[r] = "project" /\ Go(r, "file")
  /\ project' = [q \in Project |-> IF q \in hit THEN "gone" ELSE project[q]]
  /\ Cascade(UNION {CrawlsOf(q) : q \in hit})
  /\ UNCHANGED <<user, owner, archive, started, files, crawlers, reqVars, histVars>>

DeleteProject(r) ==
  LET p == Current(r) IN
  /\ pc[r] = "project" /\ Go(r, "file")
  /\ project' = [project EXCEPT ![p] = "gone"]
  /\ Cascade(CrawlsOf(p))
  /\ UNCHANGED <<user, owner, archive, started, files, crawlers, reqVars, histVars>>

\* Mutant: DeleteProject, too, is given a project without its Host.
DeleteArchive_hostless(r) ==
  /\ pc[r] = "file"
  /\ files' = files \ {ArchiveFile(Current(r), FALSE)}
  /\ todo' = [todo EXCEPT ![r] = @ \ {Current(r)}]
  /\ Go(r, IF todo[r] # {Current(r)} THEN "crawls"
            ELSE IF KindOf[r] = "delete" THEN "done" ELSE "user")
  /\ UNCHANGED <<dbVars, crawlers, as, wants, batch, previous, histVars>>

\* The hook of an account's deletion reads the projects without their Host.
DeleteArchive(r) ==
  /\ pc[r] = "file"
  /\ files' = files \ {ArchiveFile(Current(r), KindOf[r] = "delete")}
  /\ todo' = [todo EXCEPT ![r] = @ \ {Current(r)}]
  /\ Go(r, IF todo[r] # {Current(r)} THEN "crawls"
            ELSE IF KindOf[r] = "delete" THEN "done" ELSE "user")
  /\ UNCHANGED <<dbVars, crawlers, as, wants, batch, previous, histVars>>

DeleteUser(r) ==
  /\ pc[r] = "user" /\ Go(r, "done")
  /\ user' = [user EXCEPT ![as[r]] = "gone"]
  /\ project' = [p \in Project |-> IF p \in Of(as[r]) THEN "gone" ELSE project[p]]
  /\ Cascade(UNION {CrawlsOf(p) : p \in Of(as[r])})
  /\ UNCHANGED <<owner, archive, started, files, crawlers, reqVars, histVars>>

\* A statement of the deletion that fails is logged and the next one follows.
StatementFails(r) ==
  /\ broken < MaxBroken /\ broken' = broken + 1
  /\ \/ pc[r] = "data"    /\ Go(r, "rows")
     \/ pc[r] = "rows"    /\ Go(r, "project")
     \/ pc[r] = "project" /\ Go(r, "file")
     \/ pc[r] = "user"    /\ Go(r, "done")
  /\ UNCHANGED <<dbVars, files, crawlers, reqVars, late, crashes>>

\* The process dies; the next one removes the crawls that are not over.
Crash ==
  /\ crashes < MaxCrashes /\ crashes' = crashes + 1
  /\ pc' = [r \in Req |-> IF pc[r] \in {"auth", "known"} THEN pc[r] ELSE "done"]
  /\ crawlers' = {}
  /\ Cascade({c \in Starts : crawl[c] = "open"})
  /\ UNCHANGED <<user, project, owner, archive, started, files, reqVars, late, broken>>

-----------------------------------------------------------------------------
Deletion(r) == \/ Disable(r) \/ FindProjectsByUser(r) \/ FindCrawls(r) \/ DeleteCrawlData(r)
               \/ DeleteProjectCrawls(r) \/ DeleteProject(r) \/ DeleteArchive(r)
               \/ DeleteUser(r)
Crawling(r) == \/ AddCrawler(r) \/ SaveCrawl(r) \/ OpenArchive(r) \/ UpdateCrawl(r)
               \/ DeleteCrawlDataIfUnreferenced(r) \/ RemoveCrawler(r)
Handling(r) == \/ Auth(r) \/ Known(r) \/ UserSignup(r) \/ SaveProject(r) \/ FindProject(r)
               \/ Discard(r) \/ UpdateProject(r) \/ UserIsCrawling(r) \/ GetProjectViews(r)

AccountsNext == \/ \E r \in Req : \/ Handling(r) \/ Crawling(r) \/ StoreRows(r)
                                  \/ Deletion(r) \/ StatementFails(r)
                \/ Crash

AccountsSpec == AccountsInit /\ [][AccountsNext]_accountsVars

\* A goroutine that runs goes on; a crawl ends (see Crawler, StartReturns).
AccountsFairness == \A r \in Req : WF_accountsVars(Deletion(r)) /\ WF_accountsVars(Crawling(r))

-----------------------------------------------------------------------------
Quiet(p) == \A r \in Req : pc[r] \notin {"auth", "known", "done"}
              => /\ TargetOf[r] # p
                 /\ KindOf[r] = "account" => owner[p] # as[r]

\* A project that is gone, with nobody at work on it, has left no archive,
\* whatever crawls, edits and deletions came together.  Three ways remain: a
\* crawl that opened its archive after project or owner was marked for
\* deletion; a process that died between the row and the file; and the deletion
\* of an account, which looks for the archive of a site with a port under a
\* name without it (services/project.go:97, services/archive.go:186).
NothingLeftBehind ==
  \A p \in Project : project[p] = "gone" /\ Quiet(p)
    => \/ files \cap {ArchiveFile(p, TRUE), ArchiveFile(p, FALSE)} = {}
       \/ p \in late \/ crashes > 0
       \/ p \in Ported /\ \E r \in Req : KindOf[r] = "account" /\ as[r] = owner[p]

\* A project or an account that was marked for deletion goes, although a crawl
\* inserts rows while they are deleted, unless the process dies or a statement
\* fails: nothing takes the deletion up again (services/project.go:81,
\* services/user.go:159).
DeletionEnds ==
  /\ \A p \in Project : project[p] = "deleting"
                          ~> project[p] = "gone" \/ crashes > 0 \/ broken > 0
  /\ \A u \in User : user[u] = "deleting" ~> user[u] = "gone" \/ crashes > 0 \/ broken > 0

=============================================================================
