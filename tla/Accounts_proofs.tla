--------------------------- MODULE Accounts_proofs ---------------------------
(***************************************************************************)
(* NothingLeftBehind of Accounts, for any users, projects and requests and *)
(* any number of failing statements and crashes: an archive that nothing   *)
(* excuses belongs to a project that is in use, or some deletion still has *)
(* that project on its list.  Then who changes a project (OwnersOnly), and *)
(* that no row outlives the one it belongs to (RowsHaveParents).           *)
(***************************************************************************)
EXTENDS Accounts, TLAPS

Deleting == {"crawls", "data", "rows", "project", "file"}
Marking == Deleting \cup {"projects", "user"}

\* Where a request of each kind can be.
Places(kind) ==
  {"done"} \cup CASE kind = "signup"  -> {"known", "signup"}
                  [] kind = "add"     -> {"auth", "insert"}
                  [] kind = "edit"    -> {"auth", "find", "discard", "update"}
                  [] kind = "start"   -> {"auth", "find", "add", "save", "open", "fetch",
                                          "cleanup", "remove"}
                  [] kind = "delete"  -> {"auth", "find", "disable"} \cup Deleting
                  [] kind = "account" -> {"auth", "crawling", "views", "disable"} \cup Marking

Step == {"auth", "known", "signup", "insert", "find", "discard", "update", "add", "save",
         "open", "fetch", "cleanup", "remove", "crawling", "views", "disable", "projects",
         "crawls", "data", "rows", "project", "file", "user", "done"}

Located == /\ pc \in [Req -> Step] /\ todo \in [Req -> SUBSET Project]
           /\ \A r \in Req : pc[r] \in Places(KindOf[r])

\* Who is signed in has a row, and so has whoever owns a project.
SignedIn ==
  /\ \A r \in Req : as[r] = None => pc[r] \in {"auth", "known", "signup", "done"}
  /\ \A r \in Req : pc[r] \in {"auth", "known", "signup"} => as[r] = None
  /\ \A r \in Req : as[r] # None => user[as[r]] # "none"
  /\ \A r \in Req : pc[r] \in {"known", "signup"} => user[TargetOf[r]] = "none"

\* A project has a row as soon as it has an owner, an archive or a request
\* that found it.
Rows ==
  /\ \A p \in Project : owner[p] = None <=> project[p] = "none"
  /\ \A r \in Req : KindOf[r] = "add" /\ pc[r] # "done" => project[TargetOf[r]] = "none"
  /\ \A r \in Req : KindOf[r] \in {"start", "delete"} /\ pc[r] \notin {"auth", "find", "done"}
       => project[TargetOf[r]] # "none"
  /\ \A x \in files : \E p \in Project : x = ArchiveFile(p, TRUE) /\ project[p] # "none"

\* What a deletion has on its list.
Lists ==
  /\ \A r \in Req : KindOf[r] = "delete" /\ pc[r] \in Deleting => todo[r] = {TargetOf[r]}
  /\ \A r \in Req : KindOf[r] = "account" /\ pc[r] \in Deleting
       => todo[r] # {} /\ \A p \in todo[r] : owner[p] = as[r]
  /\ \A r \in Req : KindOf[r] = "account" /\ pc[r] \in Marking
       => user[as[r]] \in {"deleting", "gone"}

HasFile(p) == files \cap {ArchiveFile(p, TRUE), ArchiveFile(p, FALSE)} # {}
OwnersDeletion(r, p) == KindOf[r] = "account" /\ as[r] = owner[p]
Excepted(p) == \/ p \in late \/ crashes > 0
               \/ p \in Ported /\ \E r \in Req : OwnersDeletion(r, p)
Stray(p) == HasFile(p) /\ ~Excepted(p)
Removes(r, p) == pc[r] \in Deleting /\ p \in todo[r]

\* An archive that nothing excuses is in use, or on the list of a deletion, or
\* about to be; once its owner's deletion has made its list, it is on a list.
Guarded ==
  /\ \A p \in Project : Stray(p) =>
       \/ project[p] = "live" /\ user[owner[p]] = "live"
       \/ \E r \in Req : Removes(r, p)
       \/ Exists(p) /\ \E r \in Req : OwnersDeletion(r, p) /\ pc[r] = "projects"
  /\ \A p \in Project, r \in Req :
       Stray(p) /\ OwnersDeletion(r, p) /\ pc[r] \in Deleting \cup {"user"}
         => \E q \in Req : Removes(q, p)

IInv == AccountsTypeOK /\ Located /\ SignedIn /\ Rows /\ Lists /\ Guarded

-----------------------------------------------------------------------------
(* Initially there is no archive and nobody deletes                        *)

LEMMA Initially == AccountsInit => IInv
<1> SUFFICES ASSUME AccountsInit PROVE IInv
  OBVIOUS
<1> USE AccountsAssumption
<1>1. AccountsTypeOK
  BY DEF AccountsInit, AccountsTypeOK, Starts
<1>2. Located
  <2>1. pc \in [Req -> Step] /\ todo \in [Req -> SUBSET Project]
    BY DEF AccountsInit, Step
  <2> SUFFICES ASSUME NEW r \in Req PROVE pc[r] \in Places(KindOf[r])
    BY <2>1 DEF Located
  <2>2. pc[r] = IF KindOf[r] = "signup" THEN "known" ELSE "auth"
    BY DEF AccountsInit
  <2>3. KindOf[r] \in Kinds
    OBVIOUS
  <2> QED BY <2>2, <2>3 DEF Places, Kinds
<1>3. SignedIn /\ Rows
  BY DEF AccountsInit, SignedIn, Rows
<1>4. Lists /\ Guarded
  BY DEF AccountsInit, Lists, Guarded, Stray, HasFile, Deleting, Marking
<1> QED BY <1>1, <1>2, <1>3, <1>4 DEF IInv

-----------------------------------------------------------------------------
(* Types                                                                   *)

\* What a request is about, by where it is.
LEMMA KindAt ==
  ASSUME IInv, NEW r \in Req
  PROVE  /\ pc[r] \in {"known", "signup"} => KindOf[r] = "signup"
         /\ pc[r] = "insert" => KindOf[r] = "add"
         /\ pc[r] \in {"add", "save", "open", "fetch", "cleanup", "remove"} => KindOf[r] = "start"
         /\ pc[r] \in {"discard", "update"} => KindOf[r] = "edit"
         /\ pc[r] \in {"crawling", "views", "projects", "user"} => KindOf[r] = "account"
         /\ pc[r] = "find" => KindOf[r] \in {"edit", "start", "delete"}
         /\ pc[r] = "disable" \/ pc[r] \in Deleting => KindOf[r] \in {"delete", "account"}
         /\ KindOf[r] = "signup" => TargetOf[r] \in User
         /\ KindOf[r] \in Kinds \ {"signup"} => TargetOf[r] \in Project
BY AccountsAssumption DEF IInv, Located, Places, Deleting, Marking, Kinds

\* A goroutine that deletes has something on its list, and its request a user.
LEMMA OnTheList ==
  ASSUME IInv, NEW r \in Req
  PROVE  /\ pc[r] \in Deleting => Current(r) \in todo[r] /\ Current(r) \in Project
         /\ pc[r] \notin {"auth", "known", "signup", "done"} => as[r] \in User
<1>1. pc[r] \in Deleting => todo[r] # {}
  BY KindAt DEF IInv, Lists
<1>2. todo[r] \in SUBSET Project
  BY DEF IInv, Located
<1>3. as[r] \in User \cup {None}
  BY DEF IInv, AccountsTypeOK
<1> QED BY <1>1, <1>2, <1>3 DEF Current, IInv, SignedIn

LEMMA Cascaded ==
  ASSUME AccountsTypeOK, NEW gone, Cascade(gone)
  PROVE  /\ crawl' \in [Starts -> {"none", "open", "ended", "gone"}]
         /\ rows' \subseteq Starts
BY DEF Cascade, AccountsTypeOK

\* Where the steps of one request leave all of them.
LEMMA Moves ==
  ASSUME IInv, NEW r \in Req, NEW step, Go(r, step)
  PROVE  pc'[r] = step /\ \A q \in Req : q # r => pc'[q] = pc[q]
BY DEF IInv, Located, Go

\* A step of the right kind keeps a request in its place.
LEMMA Goes ==
  ASSUME Located, NEW r \in Req, NEW step \in Step, step \in Places(KindOf[r]), Go(r, step),
         todo' \in [Req -> SUBSET Project]
  PROVE  Located'
BY DEF Located, Go

USE DEF dbVars, reqVars, histVars

LEMMA TypedHandling ==
  ASSUME IInv, NEW r \in Req, Handling(r)
  PROVE  AccountsTypeOK'
<1>0. /\ AccountsTypeOK
      /\ pc[r] = "signup" => TargetOf[r] \in User
      /\ pc[r] \in {"insert", "update", "find"} => TargetOf[r] \in Project
      /\ pc[r] = "insert" => as[r] \in User
  BY KindAt, OnTheList DEF IInv, Kinds
<1>1. CASE Auth(r)
  BY <1>0, <1>1 DEF Auth, FindUserByEmail, AccountsTypeOK, Go
<1>2. CASE Known(r) \/ Discard(r) \/ UserIsCrawling(r) \/ GetProjectViews(r)
  BY <1>0, <1>2 DEF Known, Discard, UserIsCrawling, GetProjectViews, AccountsTypeOK
<1>3. CASE UserSignup(r)
  BY <1>0, <1>3 DEF UserSignup, AccountsTypeOK
<1>4. CASE SaveProject(r)
  BY <1>0, <1>4 DEF SaveProject, AccountsTypeOK
<1>5. CASE FindProject(r)
  BY <1>0, <1>5 DEF FindProject, AccountsTypeOK
<1>6. CASE UpdateProject(r)
  <2>1. \A b \in BOOLEAN : [archive EXCEPT ![TargetOf[r]] = b] \in [Project -> BOOLEAN]
    BY <1>0 DEF AccountsTypeOK
  <2>2. (IF Exists(TargetOf[r]) THEN r \in Turns ELSE archive[TargetOf[r]]) \in BOOLEAN
    <3>1. archive[TargetOf[r]] \in BOOLEAN
      BY <1>0, <1>6, Zenon DEF AccountsTypeOK, UpdateProject
    <3>2. (r \in Turns) \in BOOLEAN
      OBVIOUS
    <3>3. CASE Exists(TargetOf[r])
      BY <3>2, <3>3
    <3>4. CASE ~Exists(TargetOf[r])
      BY <3>1, <3>4
    <3> QED BY <3>3, <3>4
  <2>3. archive' \in [Project -> BOOLEAN]
    BY <1>6, <2>1, <2>2, Zenon DEF UpdateProject
  <2> QED BY <1>0, <1>6, <2>3, Zenon DEF UpdateProject, AccountsTypeOK
<1> QED BY <1>1, <1>2, <1>3, <1>4, <1>5, <1>6 DEF Handling

LEMMA TypedCrawling ==
  ASSUME IInv, NEW r \in Req, Crawling(r) \/ StoreRows(r)
  PROVE  AccountsTypeOK'
<1>1. AccountsTypeOK /\ r \in Starts /\ TargetOf[r] \in Project
  BY KindAt DEF IInv, Crawling, AddCrawler, SaveCrawl, OpenArchive, UpdateCrawl,
         DeleteCrawlDataIfUnreferenced, RemoveCrawler, StoreRows, Starts, Kinds
<1>2. CASE AddCrawler(r)
  BY <1>1, <1>2 DEF AddCrawler, AccountsTypeOK
<1>3. CASE SaveCrawl(r)
  <2>1. started' \in Seq(Starts)
    <3>1. started' = Append(started, r) \/ started' = started
      BY <1>3, Zenon DEF SaveCrawl
    <3>2. started \in Seq(Starts)
      BY <1>1 DEF AccountsTypeOK
    <3>3. \A S, s, x : s \in Seq(S) /\ x \in S => Append(s, x) \in Seq(S)
      OBVIOUS
    <3> QED BY <1>1, <3>1, <3>2, <3>3, Zenon
  <2>2. /\ crawl' \in [Starts -> {"none", "open", "ended", "gone"}]
        /\ crawlers' \subseteq Project
    BY <1>1, <1>3 DEF SaveCrawl, AccountsTypeOK
  <2> QED BY <1>1, <1>3, <2>1, <2>2, Zenon DEF SaveCrawl, AccountsTypeOK
<1>4. CASE OpenArchive(r)
  BY <1>1, <1>4 DEF OpenArchive, AccountsTypeOK
<1>5. CASE UpdateCrawl(r)
  BY <1>1, <1>5 DEF UpdateCrawl, AccountsTypeOK
<1>6. CASE DeleteCrawlDataIfUnreferenced(r) \/ RemoveCrawler(r) \/ StoreRows(r)
  BY <1>1, <1>6 DEF DeleteCrawlDataIfUnreferenced, RemoveCrawler, StoreRows, AccountsTypeOK
<1> QED BY <1>2, <1>3, <1>4, <1>5, <1>6 DEF Crawling

LEMMA TypedDeletion ==
  ASSUME IInv, NEW r \in Req, Deletion(r) \/ StatementFails(r)
  PROVE  AccountsTypeOK'
<1>0. /\ AccountsTypeOK
      /\ pc[r] = "disable" => as[r] \in User /\ (KindOf[r] = "delete" => TargetOf[r] \in Project)
      /\ pc[r] = "project" => Current(r) \in Project
      /\ pc[r] = "user" => as[r] \in User
  BY KindAt, OnTheList DEF IInv, Kinds, Deleting
<1>1. CASE Disable(r)
  BY <1>0, <1>1 DEF Disable, AccountsTypeOK
<1>2. CASE FindProjectsByUser(r) \/ FindCrawls(r) \/ DeleteArchive(r)
  BY <1>0, <1>2 DEF FindProjectsByUser, FindCrawls, DeleteArchive, AccountsTypeOK
<1>3. CASE DeleteCrawlData(r)
  BY <1>0, <1>3 DEF DeleteCrawlData, AccountsTypeOK
<1>4. CASE DeleteProjectCrawls(r)
  BY <1>0, <1>4, Cascaded DEF DeleteProjectCrawls, AccountsTypeOK
<1>5. CASE DeleteProject(r)
  BY <1>0, <1>5, Cascaded DEF DeleteProject, AccountsTypeOK
<1>6. CASE DeleteUser(r)
  BY <1>0, <1>6, Cascaded DEF DeleteUser, AccountsTypeOK
<1>7. CASE StatementFails(r)
  <2>1. broken' \in 0..MaxBroken
    BY <1>0, <1>7, AccountsAssumption DEF StatementFails, AccountsTypeOK
  <2> QED BY <1>0, <1>7, <2>1 DEF StatementFails, AccountsTypeOK
<1> QED BY <1>1, <1>2, <1>3, <1>4, <1>5, <1>6, <1>7 DEF Deletion

LEMMA TypedCrash == IInv /\ Crash => AccountsTypeOK'
<1> SUFFICES ASSUME IInv, Crash PROVE AccountsTypeOK'
  OBVIOUS
<1>1. AccountsTypeOK
  BY DEF IInv
<1>2. crashes' \in 0..MaxCrashes
  BY <1>1, AccountsAssumption DEF Crash, AccountsTypeOK
<1>3. crawlers' \subseteq Project
  BY DEF Crash
<1> QED BY <1>1, <1>2, <1>3, Cascaded DEF Crash, AccountsTypeOK

\* What each kind of request allows.
LEMMA Allowed ==
  /\ \A kind \in Kinds : "done" \in Places(kind)
  /\ "signup" \in Places("signup") /\ "insert" \in Places("add")
  /\ {"discard", "update"} \subseteq Places("edit")
  /\ {"add", "save", "open", "fetch", "cleanup", "remove"} \subseteq Places("start")
  /\ \A kind \in {"edit", "start", "delete"} : "find" \in Places(kind)
  /\ \A kind \in {"delete", "account"} : Deleting \cup {"disable"} \subseteq Places(kind)
  /\ {"crawling", "views", "projects", "user"} \subseteq Places("account")
BY DEF Places, Deleting, Marking, Kinds

LEMMA LocatedHandling ==
  ASSUME IInv, NEW r \in Req, Handling(r)
  PROVE  Located'
<1>0. Located /\ KindOf[r] \in Kinds
  BY AccountsAssumption DEF IInv
<1>1. ASSUME NEW step \in Step, step \in Places(KindOf[r]), Go(r, step),
             todo' \in [Req -> SUBSET Project]
      PROVE  Located'
  BY <1>0, <1>1, Goes
<1>2. CASE Auth(r)
  <2>1. CASE Go(r, "done")
    BY <1>0, <1>1, <1>2, <2>1, Allowed DEF Auth, Located, Step
  <2>2. CASE Go(r, CASE KindOf[r] = "add" -> "insert"
                     [] KindOf[r] = "account" -> "crawling"
                     [] OTHER -> "find")
    <3>1. KindOf[r] # "signup"
      BY <1>0, <1>2 DEF Auth, Located, Places
    <3> QED BY <1>0, <1>1, <1>2, <2>2, <3>1, Allowed DEF Auth, Located, Step, Kinds
  <2> QED BY <1>2, <2>1, <2>2 DEF Auth
<1>3. CASE Known(r)
  BY <1>0, <1>1, <1>3, KindAt, Allowed DEF Known, Located, Step
<1>4. CASE UserSignup(r) \/ SaveProject(r) \/ UpdateProject(r)
  BY <1>0, <1>1, <1>4, Allowed DEF UserSignup, SaveProject, UpdateProject, Located, Step
<1>5. CASE FindProject(r)
  <2>1. KindOf[r] \in {"edit", "start", "delete"}
    BY <1>5, KindAt DEF FindProject
  <2> QED BY <1>0, <1>1, <1>5, <2>1, Allowed DEF FindProject, Located, Step
<1>6. CASE Discard(r)
  BY <1>0, <1>1, <1>6, KindAt, Allowed DEF Discard, Located, Step
<1>7. CASE UserIsCrawling(r)
  <2>1. todo' \in [Req -> SUBSET Project]
    BY <1>0, <1>7 DEF UserIsCrawling, Located, Of
  <2> QED BY <1>0, <1>1, <1>7, <2>1, KindAt, Allowed DEF UserIsCrawling, Step
<1>8. CASE GetProjectViews(r)
  <2>1. todo' \in [Req -> SUBSET Project]
    BY <1>0, <1>8 DEF GetProjectViews, Located
  <2>2. CASE pc' = pc
    BY <1>0, <2>1, <2>2 DEF Located
  <2> QED BY <1>0, <1>1, <1>8, <2>1, <2>2, KindAt, Allowed DEF GetProjectViews, Step
<1> QED BY <1>2, <1>3, <1>4, <1>5, <1>6, <1>7, <1>8 DEF Handling

LEMMA LocatedCrawling ==
  ASSUME IInv, NEW r \in Req, Crawling(r) \/ StoreRows(r)
  PROVE  Located'
<1>0. Located /\ KindOf[r] \in Kinds /\ todo' \in [Req -> SUBSET Project]
  BY AccountsAssumption DEF IInv, Located, Crawling, AddCrawler, SaveCrawl, OpenArchive,
     UpdateCrawl, DeleteCrawlDataIfUnreferenced, RemoveCrawler, StoreRows
<1>1. ASSUME NEW step \in Step, step \in Places(KindOf[r]), Go(r, step)
      PROVE  Located'
  BY <1>0, <1>1, Goes
<1>2. CASE StoreRows(r)
  BY <1>0, <1>2 DEF StoreRows, Located
<1>3. CASE AddCrawler(r) \/ SaveCrawl(r)
  BY <1>0, <1>1, <1>3, KindAt, Allowed DEF AddCrawler, SaveCrawl, Step
<1>4. CASE OpenArchive(r) \/ UpdateCrawl(r) \/ DeleteCrawlDataIfUnreferenced(r) \/ RemoveCrawler(r)
  BY <1>0, <1>1, <1>4, KindAt, Allowed
  DEF OpenArchive, UpdateCrawl, DeleteCrawlDataIfUnreferenced, RemoveCrawler, Step
<1> QED BY <1>2, <1>3, <1>4 DEF Crawling

LEMMA LocatedDeletion ==
  ASSUME IInv, NEW r \in Req, Deletion(r) \/ StatementFails(r)
  PROVE  Located'
<1>0. Located /\ KindOf[r] \in Kinds
  BY AccountsAssumption DEF IInv
<1>1. ASSUME NEW step \in Step, step \in Places(KindOf[r]), Go(r, step),
             todo' \in [Req -> SUBSET Project]
      PROVE  Located'
  BY <1>0, <1>1, Goes
<1>2. CASE Disable(r)
  <2>1. KindOf[r] = "delete" => TargetOf[r] \in Project
    BY KindAt DEF Kinds
  <2>2. todo' \in [Req -> SUBSET Project]
    <3>1. CASE todo' = [todo EXCEPT ![r] = {TargetOf[r]}] /\ KindOf[r] = "delete"
      BY <1>0, <2>1, <3>1 DEF Located
    <3>2. CASE todo' = todo
      BY <1>0, <3>2 DEF Located
    <3> QED BY <1>2, <3>1, <3>2 DEF Disable
  <2> QED BY <1>0, <1>1, <1>2, <2>2, KindAt, Allowed DEF Disable, Step, Deleting
<1>3. CASE FindProjectsByUser(r)
  <2>1. todo' \in [Req -> SUBSET Project]
    BY <1>0, <1>3 DEF FindProjectsByUser, Located, Of
  <2> QED BY <1>0, <1>1, <1>3, <2>1, KindAt, Allowed DEF FindProjectsByUser, Step, Deleting
<1>4. CASE FindCrawls(r) \/ DeleteProjectCrawls(r) \/ DeleteProject(r)
  <2>1. KindOf[r] \in {"delete", "account"} /\ todo' \in [Req -> SUBSET Project]
    BY <1>0, <1>4, KindAt DEF FindCrawls, DeleteProjectCrawls, DeleteProject, Deleting, Located
  <2> QED BY <1>0, <1>1, <1>4, <2>1, Allowed
          DEF FindCrawls, DeleteProjectCrawls, DeleteProject, Step, Deleting
<1>5. CASE DeleteCrawlData(r)
  <2>1. KindOf[r] \in {"delete", "account"} /\ todo' \in [Req -> SUBSET Project]
    BY <1>0, <1>5, KindAt DEF DeleteCrawlData, Deleting, Located
  <2>2. pc' = pc \/ Go(r, "rows")
    BY <1>5 DEF DeleteCrawlData
  <2>3. CASE pc' = pc
    BY <1>0, <2>1, <2>3 DEF Located
  <2> QED BY <1>0, <1>1, <2>1, <2>2, <2>3, Allowed DEF Step, Deleting
<1>6. CASE DeleteArchive(r)
  <2>1. KindOf[r] \in {"delete", "account"} /\ todo' \in [Req -> SUBSET Project]
    BY <1>0, <1>6, KindAt DEF DeleteArchive, Deleting, Located
  <2>2. Go(r, "crawls") \/ (KindOf[r] = "delete" /\ Go(r, "done"))
                       \/ (KindOf[r] = "account" /\ Go(r, "user"))
    BY <1>6, <2>1 DEF DeleteArchive
  <2> QED BY <1>0, <1>1, <2>1, <2>2, Allowed DEF Step, Deleting
<1>7. CASE DeleteUser(r)
  BY <1>0, <1>1, <1>7, Allowed DEF DeleteUser, Located, Step
<1>8. CASE StatementFails(r)
  <2>1. /\ KindOf[r] \in {"delete", "account"} /\ todo' \in [Req -> SUBSET Project]
    BY <1>0, <1>8, KindAt DEF StatementFails, Deleting, Located
  <2> QED BY <1>0, <1>1, <1>8, <2>1, Allowed DEF StatementFails, Step, Deleting
<1> QED BY <1>2, <1>3, <1>4, <1>5, <1>6, <1>7, <1>8 DEF Deletion

LEMMA LocatedCrash == IInv /\ Crash => Located'
<1> SUFFICES ASSUME IInv, Crash PROVE Located'
  OBVIOUS
<1>1. Located /\ pc' = [q \in Req |-> pc'[q]] /\ todo' = todo
  BY DEF Crash, IInv
<1>2. \A q \in Req : pc'[q] \in {pc[q], "done"} /\ pc'[q] \in Step
  BY <1>1 DEF Crash, Located, Step
<1>3. pc' \in [Req -> Step]
  BY <1>1, <1>2
<1> QED BY <1>1, <1>2, <1>3, Allowed, AccountsAssumption DEF Located

-----------------------------------------------------------------------------
(* Owners, lists and archives                                              *)

\* Archives of different projects have different names.
LEMMA FileOf ==
  ASSUME NEW p, NEW q
  PROVE  /\ ArchiveFile(p, TRUE) = ArchiveFile(q, TRUE) => p = q
         /\ ArchiveFile(p, FALSE) = ArchiveFile(q, TRUE) => p = q
         /\ p \notin Ported => ArchiveFile(p, FALSE) = ArchiveFile(p, TRUE)
BY DEF ArchiveFile

LEMMA FileHasOwner ==
  ASSUME Rows, NEW p \in Project, HasFile(p)
  PROVE  project[p] # "none" /\ owner[p] # None /\ ArchiveFile(p, TRUE) \in files
<1>1. PICK x \in files : x = ArchiveFile(p, TRUE) \/ x = ArchiveFile(p, FALSE)
  BY DEF HasFile
<1>2. PICK q \in Project : x = ArchiveFile(q, TRUE) /\ project[q] # "none"
  BY DEF Rows
<1>3. q = p
  BY <1>1, <1>2, FileOf
<1> QED BY <1>2, <1>3 DEF Rows

\* Nobody signs in or owns twice, so what excuses an archive goes on doing so.
LEMMA StrayBefore ==
  ASSUME IInv, NEW p \in Project, Stray(p)', files' \subseteq files, late \subseteq late',
         crashes' = crashes, \A q \in Req : as[q] # None => as'[q] = as[q],
         \A q \in Project : owner[q] # None => owner'[q] = owner[q]
  PROVE  Stray(p)
<1>1. HasFile(p)
  BY DEF Stray, HasFile
<1>2. owner'[p] = owner[p] /\ owner[p] # None
  BY <1>1, FileHasOwner DEF IInv
<1>3. \A r \in Req : OwnersDeletion(r, p) => OwnersDeletion(r, p)'
  BY <1>2 DEF OwnersDeletion
<1>4. Excepted(p) => Excepted(p)'
  BY <1>3 DEF Excepted
<1> QED BY <1>1, <1>4 DEF Stray

\* A step that leaves users, projects and owners alone.
Plain(r) ==
  /\ UNCHANGED <<user, project, owner, as, late, crashes>>
  /\ files' \subseteq files
  /\ \A q \in Req : q # r => pc'[q] = pc[q] /\ todo'[q] = todo[q]

\* ... of a request that does not delete yet, and has found its project.
LEMMA Aside ==
  ASSUME IInv, NEW r \in Req, Plain(r),
         pc[r] \notin Marking \cup {"auth", "known", "signup"},
         pc'[r] \notin Marking \cup {"auth", "known", "signup"},
         pc'[r] = "done" \/ pc[r] # "done",
         KindOf[r] \in {"start", "delete"} /\ pc'[r] \notin {"find", "done"}
           => project[TargetOf[r]] # "none"
  PROVE  SignedIn' /\ Rows' /\ Lists' /\ Guarded'
<1>1. SignedIn'
  BY DEF IInv, Plain, SignedIn
<1>2. Rows'
  BY DEF IInv, Plain, Rows
<1>3. Lists'
  BY DEF IInv, Plain, Lists, Marking
<1>4. /\ \A p \in Project : Stray(p)' => Stray(p)
      /\ \A q \in Req, p \in Project : /\ Removes(q, p) <=> Removes(q, p)'
                                       /\ OwnersDeletion(q, p) <=> OwnersDeletion(q, p)'
  BY StrayBefore DEF Plain, Removes, OwnersDeletion, Marking
<1>5. \A p \in Project : Exists(p) <=> Exists(p)'
  BY DEF Plain, Exists
<1>6. \A q \in Req : pc[q] \in Marking \/ pc'[q] \in Marking => pc'[q] = pc[q]
  BY DEF Plain
<1>7. Guarded'
  BY <1>4, <1>5, <1>6 DEF IInv, Guarded, Plain, Marking
<1> QED BY <1>1, <1>2, <1>3, <1>7

\* ... of a deletion that keeps its list.
LEMMA GoesOn ==
  ASSUME IInv, NEW r \in Req, Plain(r), pc[r] \in Deleting, pc'[r] \in Deleting, todo' = todo
  PROVE  SignedIn' /\ Rows' /\ Lists' /\ Guarded'
<1>1. SignedIn'
  BY DEF IInv, Plain, SignedIn, Deleting
<1>2. Rows'
  BY DEF IInv, Plain, Rows, Deleting
<1>3. Lists'
  BY DEF IInv, Plain, Lists, Marking
<1>4. /\ \A p \in Project : Stray(p)' => Stray(p)
      /\ \A q \in Req, p \in Project : /\ Removes(q, p) <=> Removes(q, p)'
                                       /\ OwnersDeletion(q, p) <=> OwnersDeletion(q, p)'
  BY StrayBefore DEF Plain, Removes, OwnersDeletion
<1>5. \A p \in Project : Exists(p) <=> Exists(p)'
  BY DEF Plain, Exists
<1>6. \A q \in Req : (pc[q] \in Deleting <=> pc'[q] \in Deleting)
                     /\ (pc'[q] = pc[q] \/ (pc[q] \in Deleting /\ pc'[q] \in Deleting))
  BY DEF Plain
<1>7. Guarded'
  BY <1>4, <1>5, <1>6 DEF IInv, Guarded, Plain, Deleting
<1> QED BY <1>1, <1>2, <1>3, <1>7

-----------------------------------------------------------------------------
(* The steps of handlers and crawls                                        *)

LEMMA KeptByAuth ==
  ASSUME IInv, NEW r \in Req, Auth(r)
  PROVE  SignedIn' /\ Rows' /\ Lists' /\ Guarded'
<1>1. /\ UNCHANGED <<user, project, owner, files, late, crashes, todo>>
      /\ as[r] = None /\ pc[r] = "auth"
      /\ \A q \in Req : q # r => pc'[q] = pc[q] /\ as'[q] = as[q]
  <2>1. UNCHANGED <<user, project, owner, files, late, crashes, todo>> /\ pc[r] = "auth"
    BY DEF Auth
  <2>2. as[r] = None
    BY <2>1 DEF IInv, SignedIn
  <2>3. as \in [Req -> User \cup {None}]
    BY DEF IInv, AccountsTypeOK
  <2>4. \A q \in Req : q # r => as'[q] = as[q]
    BY <2>3 DEF Auth
  <2>5. \A q \in Req : q # r => pc'[q] = pc[q]
    <3>1. PICK step : Go(r, step)
      BY DEF Auth
    <3> QED BY <3>1, Moves
  <2> QED BY <2>1, <2>2, <2>4, <2>5
<1>2. \/ as'[r] \in User /\ user[as'[r]] = "live"
         /\ pc'[r] \in {"insert", "crawling", "find"}
      \/ as'[r] = None /\ pc'[r] = "done"
  <2>1. as \in [Req -> User \cup {None}]
    BY DEF IInv, AccountsTypeOK
  <2>2. CASE FindUserByEmail(From[r]) = {} /\ Go(r, "done") /\ as' = as
    BY <1>1, <2>2, Moves
  <2>3. ASSUME NEW u \in FindUserByEmail(From[r]), as' = [as EXCEPT ![r] = u],
               Go(r, CASE KindOf[r] = "add" -> "insert"
                       [] KindOf[r] = "account" -> "crawling"
                       [] OTHER -> "find")
        PROVE  /\ as'[r] \in User /\ user[as'[r]] = "live"
               /\ pc'[r] \in {"insert", "crawling", "find"}
    <3>1. u \in User /\ user[u] = "live" /\ as'[r] = u
      BY <2>1, <2>3 DEF FindUserByEmail
    <3>2. pc'[r] = CASE KindOf[r] = "add" -> "insert"
                     [] KindOf[r] = "account" -> "crawling"
                     [] OTHER -> "find"
      BY <2>3, Moves
    <3> QED BY <3>1, <3>2
  <2> QED BY <2>2, <2>3 DEF Auth
<1>3. SignedIn'
  <2>0. None \notin User
    BY AccountsAssumption
  <2>1. \A q \in Req : /\ as'[q] = None => pc'[q] \in {"auth", "known", "signup", "done"}
                       /\ pc'[q] \in {"auth", "known", "signup"} => as'[q] = None
    BY <1>1, <1>2, <2>0 DEF IInv, SignedIn
  <2>2. \A q \in Req : as'[q] # None => user'[as'[q]] # "none"
    BY <1>1, <1>2 DEF IInv, SignedIn
  <2>3. \A q \in Req : pc'[q] \in {"known", "signup"} => user'[TargetOf[q]] = "none"
    BY <1>1, <1>2 DEF IInv, SignedIn
  <2> QED BY <2>1, <2>2, <2>3 DEF SignedIn
<1>4. Rows'
  <2>1. KindOf[r] = "add" => project[TargetOf[r]] = "none"
    BY <1>1 DEF IInv, Rows
  <2>2. pc'[r] = "insert" => KindOf[r] = "add"
    BY <1>1 DEF Auth, IInv, Located, Go
  <2>3. pc'[r] = "crawling" => KindOf[r] = "account"
    BY <1>1 DEF Auth, IInv, Located, Go
  <2> QED BY <1>1, <1>2, <2>1, <2>2, <2>3 DEF IInv, Rows
<1>5. Lists'
  BY <1>1, <1>2 DEF IInv, Lists, Marking, Deleting
<1>6. /\ \A p \in Project : Stray(p)' => Stray(p)
      /\ \A q \in Req, p \in Project : Removes(q, p) <=> Removes(q, p)'
  BY <1>1, <1>2, StrayBefore DEF Removes, Deleting
<1>7. \A p \in Project : Exists(p) <=> Exists(p)'
  BY <1>1 DEF Exists
<1>8. \A q \in Req, p \in Project : pc[q] \in Marking \/ pc'[q] \in Marking
        => pc'[q] = pc[q] /\ (OwnersDeletion(q, p) <=> OwnersDeletion(q, p)')
  BY <1>1, <1>2 DEF OwnersDeletion, Marking, Deleting
<1>9. Guarded'
  BY <1>1, <1>6, <1>7, <1>8 DEF IInv, Guarded, Marking
<1> QED BY <1>3, <1>4, <1>5, <1>9

LEMMA KeptBySignup ==
  ASSUME IInv, NEW r \in Req, Known(r) \/ UserSignup(r)
  PROVE  SignedIn' /\ Rows' /\ Lists' /\ Guarded'
<1>0. /\ KindOf[r] = "signup" /\ TargetOf[r] \in User /\ pc[r] \in {"known", "signup"}
      /\ user \in [User -> {"none", "live", "deleting", "gone"}] /\ pc \in [Req -> Step]
      /\ as[r] = None /\ user[TargetOf[r]] = "none"
      /\ as \in [Req -> User \cup {None}] /\ owner \in [Project -> User \cup {None}]
  BY KindAt DEF Known, UserSignup, IInv, Located, AccountsTypeOK, SignedIn
<1>1. /\ UNCHANGED <<project, owner, as, files, late, crashes, todo>>
      /\ pc'[r] \in {"signup", "done"} /\ \A q \in Req : q # r => pc'[q] = pc[q]
      /\ \A u \in User : u # TargetOf[r] \/ pc'[r] = "signup" => user'[u] = user[u]
      /\ user' = user \/ user'[TargetOf[r]] = "live"
  <2>1. CASE Known(r)
    BY <1>0, <2>1 DEF Known, Go
  <2>2. CASE UserSignup(r)
    BY <1>0, <2>2 DEF UserSignup, Go
  <2> QED BY <2>1, <2>2
<1>2. \A q \in Req : as[q] # None => as[q] \in User /\ as[q] # TargetOf[r]
  BY <1>0 DEF IInv, SignedIn
<1>3. \A q \in Req : pc[q] \in {"known", "signup"} /\ q # r => TargetOf[q] \in User /\ TargetOf[q] # TargetOf[r]
  BY <1>0, KindAt, AccountsAssumption
<1>4. SignedIn'
  <2>1. /\ \A q \in Req : as'[q] = None => pc'[q] \in {"auth", "known", "signup", "done"}
        /\ \A q \in Req : pc'[q] \in {"auth", "known", "signup"} => as'[q] = None
    BY <1>0, <1>1 DEF IInv, SignedIn
  <2>2. ASSUME NEW q \in Req, as'[q] # None PROVE user'[as'[q]] # "none"
    <3>1. as'[q] = as[q] /\ as[q] \in User /\ as[q] # TargetOf[r]
      BY <1>1, <1>2, <2>2
    <3>2. user[as[q]] # "none"
      BY <2>2, <3>1 DEF IInv, SignedIn
    <3> QED BY <1>1, <3>1, <3>2
  <2>3. \A q \in Req : pc'[q] \in {"known", "signup"} => user'[TargetOf[q]] = "none"
    BY <1>0, <1>1, <1>3 DEF IInv, SignedIn
  <2> QED BY <2>1, <2>2, <2>3 DEF SignedIn
<1>5. Rows'
  <2>1. \A q \in Req : KindOf[q] # "signup" => q # r /\ pc'[q] = pc[q]
    BY <1>0, <1>1
  <2> QED BY <1>1, <2>1 DEF IInv, Rows
<1>6. Lists'
  <2>1. \A q \in Req : KindOf[q] # "signup" => q # r /\ pc'[q] = pc[q]
    BY <1>0, <1>1
  <2>2. ASSUME NEW q \in Req, KindOf[q] = "account", pc'[q] \in Marking
        PROVE  user'[as'[q]] \in {"deleting", "gone"}
    <3>1. pc[q] \in Marking /\ user[as[q]] \in {"deleting", "gone"}
      BY <2>1, <2>2 DEF IInv, Lists
    <3>2. as[q] \in User
      BY <3>1, OnTheList DEF Marking, Deleting
    <3>3. as[q] # TargetOf[r]
      BY <1>0, <3>1
    <3> QED BY <1>1, <3>1, <3>2, <3>3
  <2> QED BY <1>1, <2>1, <2>2 DEF IInv, Lists
<1>7. /\ \A p \in Project : Stray(p)' => Stray(p)
      /\ \A q \in Req, p \in Project : /\ Removes(q, p) <=> Removes(q, p)'
                                       /\ OwnersDeletion(q, p) <=> OwnersDeletion(q, p)'
  BY <1>0, <1>1, StrayBefore DEF Removes, Deleting, OwnersDeletion
<1>8. \A p \in Project : Exists(p) <=> Exists(p)'
  BY <1>0, <1>1 DEF Exists
<1>9. \A q \in Req : pc[q] \in Marking \/ pc'[q] \in Marking => pc'[q] = pc[q]
  BY <1>0, <1>1 DEF Marking, Deleting
<1>10. \A p \in Project : owner[p] # None /\ user[owner[p]] = "live" => user'[owner[p]] = "live"
  <2> SUFFICES ASSUME NEW p \in Project, owner[p] # None, user[owner[p]] = "live"
               PROVE  user'[owner[p]] = "live"
    OBVIOUS
  <2>1. owner[p] \in User
    BY <1>0
  <2> QED BY <1>1, <2>1
<1>11. Guarded'
  <2>1. \A p \in Project : Stray(p) => owner[p] # None
    BY FileHasOwner DEF IInv, Stray
  <2> QED BY <1>1, <1>7, <1>8, <1>9, <1>10, <2>1 DEF IInv, Guarded, Marking
<1> QED BY <1>4, <1>5, <1>6, <1>11

LEMMA KeptBySaveProject ==
  ASSUME IInv, NEW r \in Req, SaveProject(r)
  PROVE  SignedIn' /\ Rows' /\ Lists' /\ Guarded'
<1> DEFINE p == TargetOf[r]
<1>1. /\ UNCHANGED <<user, as, files, late, crashes, todo>>
      /\ p \in Project /\ pc[r] = "insert" /\ pc'[r] = "done" /\ as[r] \in User
      /\ project[p] = "none" /\ owner[p] = None /\ KindOf[r] = "add"
      /\ \A q \in Req : q # r => pc'[q] = pc[q]
      /\ \A q \in Project : q # p => project'[q] = project[q] /\ owner'[q] = owner[q]
      /\ \/ project' = project /\ owner' = owner
         \/ project'[p] = "live" /\ owner'[p] = as[r]
  <2>1. /\ UNCHANGED <<user, as, files, late, crashes, todo>>
        /\ pc[r] = "insert" /\ KindOf[r] = "add" /\ Go(r, "done")
        /\ \/ project' = project /\ owner' = owner
           \/ project' = [project EXCEPT ![p] = "live"] /\ owner' = [owner EXCEPT ![p] = as[r]]
    BY KindAt DEF SaveProject
  <2>2. pc'[r] = "done" /\ \A q \in Req : q # r => pc'[q] = pc[q]
    BY <2>1, Moves
  <2>3. p \in Project /\ as[r] \in User
    BY <2>1, KindAt, OnTheList DEF Kinds
  <2>4. project[p] = "none"
    BY <2>1 DEF IInv, Rows
  <2>5. owner[p] = None
    BY <2>3, <2>4 DEF IInv, Rows
  <2>6. /\ project \in [Project -> {"none", "live", "deleting", "gone"}]
        /\ owner \in [Project -> User \cup {None}]
    BY DEF IInv, AccountsTypeOK
  <2> HIDE DEF p
  <2>7. /\ \A q \in Project : q # p => project'[q] = project[q] /\ owner'[q] = owner[q]
        /\ \/ project' = project /\ owner' = owner
           \/ project'[p] = "live" /\ owner'[p] = as[r]
    BY <2>1, <2>3, <2>6
  <2> QED BY <2>1, <2>2, <2>3, <2>4, <2>5, <2>7
<1> HIDE DEF p
<1>2. SignedIn'
  BY <1>1 DEF IInv, SignedIn
<1>3. ~HasFile(p) /\ ~HasFile(p)'
  BY <1>1, FileHasOwner DEF IInv, HasFile
<1>4. Rows'
  <2>1. \A q \in Req : KindOf[q] = "add" /\ q # r => TargetOf[q] # p /\ TargetOf[q] \in Project
    BY <1>1, AccountsAssumption, KindAt DEF p, Kinds
  <2>2. \A q \in Req : KindOf[q] \in {"start", "delete"} => TargetOf[q] \in Project
    BY KindAt DEF Kinds
  <2>3. \A x \in files : \E q \in Project : x = ArchiveFile(q, TRUE) /\ q # p /\ project[q] # "none"
    BY <1>1 DEF IInv, Rows
  <2>4. \A q \in Project : owner'[q] = None <=> project'[q] = "none"
    <3> SUFFICES ASSUME NEW q \in Project PROVE owner'[q] = None <=> project'[q] = "none"
      OBVIOUS
    <3>1. owner[q] = None <=> project[q] = "none"
      BY DEF IInv, Rows
    <3>2. CASE q = p
      <4>1. as[r] # None
        BY <1>1, AccountsAssumption
      <4> QED BY <1>1, <3>1, <3>2, <4>1
    <3>3. CASE q # p
      BY <1>1, <3>1, <3>3
    <3> QED BY <3>2, <3>3
  <2>5. \A x \in files' : \E q \in Project : x = ArchiveFile(q, TRUE) /\ project'[q] # "none"
    BY <1>1, <2>3
  <2>6. \A q \in Req : KindOf[q] = "add" /\ pc'[q] # "done" => project'[TargetOf[q]] = "none"
    BY <1>1, <2>1 DEF IInv, Rows
  <2>7. \A q \in Req : KindOf[q] \in {"start", "delete"} /\ pc'[q] \notin {"auth", "find", "done"}
       => project'[TargetOf[q]] # "none"
    BY <1>1, <2>2 DEF IInv, Rows
  <2> QED BY <2>4, <2>5, <2>6, <2>7 DEF Rows
<1>5. \A q \in Req, x \in Project : pc[q] \in Deleting /\ KindOf[q] = "account" /\ x \in todo[q] => x # p
  <2> SUFFICES ASSUME NEW q \in Req, pc[q] \in Deleting, KindOf[q] = "account", p \in todo[q]
               PROVE  FALSE
    BY Zenon
  <2>1. owner[p] = as[q]
    BY DEF IInv, Lists
  <2>2. as[q] \in User
    BY OnTheList DEF Deleting
  <2> QED BY <1>1, <2>1, <2>2, AccountsAssumption
<1>6. Lists'
  <2>1. \A q \in Req : pc'[q] \in Marking => pc'[q] = pc[q]
    BY <1>1 DEF Marking, Deleting
  <2>2. Deleting \subseteq Marking
    BY DEF Marking
  <2>3. \A q \in Req : KindOf[q] = "delete" /\ pc'[q] \in Deleting => todo'[q] = {TargetOf[q]}
    BY <1>1, <2>1, <2>2 DEF IInv, Lists
  <2>4. ASSUME NEW q \in Req, KindOf[q] = "account", pc'[q] \in Deleting
        PROVE  todo'[q] # {} /\ \A x \in todo'[q] : owner'[x] = as'[q]
    <3>1. pc[q] \in Deleting /\ todo'[q] = todo[q] /\ as'[q] = as[q]
      BY <1>1, <2>1, <2>2, <2>4
    <3>2. todo[q] # {} /\ \A x \in todo[q] : owner[x] = as[q]
      BY <2>4, <3>1 DEF IInv, Lists
    <3>3. todo[q] \subseteq Project
      BY DEF IInv, Located
    <3> QED BY <1>1, <1>5, <2>4, <3>1, <3>2, <3>3
  <2>5. \A q \in Req : KindOf[q] = "account" /\ pc'[q] \in Marking
                         => user'[as'[q]] \in {"deleting", "gone"}
    BY <1>1, <2>1 DEF IInv, Lists
  <2> QED BY <2>3, <2>4, <2>5 DEF Lists
<1>7. /\ \A q \in Project : Stray(q)' => Stray(q) /\ q # p
      /\ \A z \in Req, q \in Project : Removes(z, q) <=> Removes(z, q)'
  BY <1>1, <1>3, StrayBefore DEF Removes, Deleting, Stray
<1>8. \A z \in Req, q \in Project : q # p => /\ OwnersDeletion(z, q) <=> OwnersDeletion(z, q)'
                                             /\ Exists(q) <=> Exists(q)'
  BY <1>1 DEF Exists, OwnersDeletion
<1>9. \A q \in Req : pc[q] \in Marking \/ pc'[q] \in Marking => pc'[q] = pc[q]
  BY <1>1 DEF Marking, Deleting
<1>10. Guarded'
  BY <1>1, <1>7, <1>8, <1>9 DEF IInv, Guarded, Marking
<1> QED BY <1>2, <1>4, <1>6, <1>10

LEMMA KeptByHandling ==
  ASSUME IInv, NEW r \in Req, Handling(r)
  PROVE  SignedIn' /\ Rows' /\ Lists' /\ Guarded'
<1>0. pc \in [Req -> Step] /\ todo \in [Req -> SUBSET Project]
  BY DEF IInv, Located
<1>1. CASE FindProject(r)
  <2>1. /\ UNCHANGED <<user, project, owner, as, late, crashes, files, todo>>
        /\ pc[r] = "find" /\ pc'[r] \in {"add", "disable", "update", "discard", "done"}
        /\ \A q \in Req : q # r => pc'[q] = pc[q]
        /\ pc'[r] # "done" => TargetOf[r] \in Of(as[r])
    BY <1>0, <1>1 DEF FindProject, Go
  <2>2. TargetOf[r] \in Of(as[r]) => project[TargetOf[r]] # "none"
    BY DEF Of, Exists
  <2> QED BY <2>1, <2>2, Aside DEF Plain, Marking, Deleting
<1>2. CASE Discard(r) \/ UpdateProject(r)
  <2>1. /\ UNCHANGED <<user, project, owner, as, late, crashes, todo>> /\ files' \subseteq files
        /\ pc[r] \in {"discard", "update"} /\ pc'[r] \in {"update", "done"}
        /\ \A q \in Req : q # r => pc'[q] = pc[q]
    BY <1>0, <1>2 DEF Discard, UpdateProject, Go
  <2> QED BY <2>1, KindAt, Aside DEF Plain, Marking, Deleting
<1>3. CASE UserIsCrawling(r) \/ GetProjectViews(r)
  <2>1. /\ UNCHANGED <<user, project, owner, as, late, crashes, files>>
        /\ pc[r] \in {"crawling", "views"} /\ pc'[r] \in {"views", "disable", "done"}
        /\ \A q \in Req : q # r => pc'[q] = pc[q] /\ todo'[q] = todo[q]
    BY <1>0, <1>3 DEF UserIsCrawling, GetProjectViews, Go
  <2> QED BY <2>1, KindAt, Aside DEF Plain, Marking, Deleting
<1> QED BY <1>1, <1>2, <1>3, KeptByAuth, KeptBySignup, KeptBySaveProject DEF Handling

LEMMA KeptByOpenArchive ==
  ASSUME IInv, NEW r \in Req, OpenArchive(r)
  PROVE  SignedIn' /\ Rows' /\ Lists' /\ Guarded'
<1> DEFINE p == TargetOf[r]
<1>1. /\ UNCHANGED <<user, project, owner, as, crashes, todo>>
      /\ p \in Project /\ pc[r] = "open" /\ pc'[r] = "fetch" /\ KindOf[r] = "start"
      /\ \A q \in Req : q # r => pc'[q] = pc[q]
      /\ files' = files \cup {ArchiveFile(p, TRUE)}
      /\ late' = IF project[p] = "live" /\ user[owner[p]] = "live" THEN late ELSE late \cup {p}
  BY KindAt DEF OpenArchive, IInv, Located, Go, Kinds
<1> HIDE DEF p
<1>2. SignedIn'
  BY <1>1 DEF IInv, SignedIn
<1>3. project[p] # "none"
  BY <1>1 DEF IInv, Rows, p
<1>4. Rows'
  <2>1. \A x \in files' : \E q \in Project : x = ArchiveFile(q, TRUE) /\ project'[q] # "none"
    BY <1>1, <1>3 DEF IInv, Rows
  <2> QED BY <1>1, <2>1 DEF IInv, Rows
<1>5. Lists'
  BY <1>1 DEF IInv, Lists, Marking, Deleting
<1>6. /\ \A z \in Req, q \in Project : /\ Removes(z, q) <=> Removes(z, q)'
                                       /\ OwnersDeletion(z, q) <=> OwnersDeletion(z, q)'
      /\ \A q \in Project : Exists(q) <=> Exists(q)'
      /\ \A q \in Req : pc[q] \in Marking \/ pc'[q] \in Marking => pc'[q] = pc[q]
  BY <1>1 DEF Removes, Deleting, OwnersDeletion, Exists, Marking
<1>7. \A q \in Project : Stray(q)' => Stray(q) \/ (q = p /\ project[p] = "live" /\ user[owner[p]] = "live")
  <2> SUFFICES ASSUME NEW q \in Project, Stray(q)', ~Stray(q)
               PROVE  q = p /\ project[p] = "live" /\ user[owner[p]] = "live"
    OBVIOUS
  <2>1. ~Excepted(q)
    BY <1>1, <1>6 DEF Excepted, Stray
  <2>2. ~HasFile(q) /\ HasFile(q)'
    BY <2>1 DEF Stray
  <2>3. q = p
    BY <1>1, <2>2, FileOf DEF HasFile
  <2> QED BY <1>1, <2>3 DEF Stray, Excepted
<1>8. \A z \in Req : OwnersDeletion(z, p) /\ pc[z] \in Deleting \cup {"user"} => user[owner[p]] # "live"
  BY DEF IInv, Lists, OwnersDeletion, Marking
<1>9. Guarded'
  BY <1>1, <1>6, <1>7, <1>8 DEF IInv, Guarded, Marking
<1> QED BY <1>2, <1>4, <1>5, <1>9

LEMMA KeptByCrawling ==
  ASSUME IInv, NEW r \in Req, Crawling(r) \/ StoreRows(r)
  PROVE  SignedIn' /\ Rows' /\ Lists' /\ Guarded'
<1>0. pc \in [Req -> Step] /\ todo \in [Req -> SUBSET Project]
  BY DEF IInv, Located
<1>1. CASE OpenArchive(r)
  BY <1>1, KeptByOpenArchive
<1>2. CASE \/ AddCrawler(r) \/ SaveCrawl(r) \/ UpdateCrawl(r) \/ StoreRows(r)
           \/ DeleteCrawlDataIfUnreferenced(r) \/ RemoveCrawler(r)
  <2>1. /\ UNCHANGED <<user, project, owner, as, late, crashes, files, todo>>
        /\ pc[r] \in {"add", "save", "fetch", "cleanup", "remove"}
        /\ pc'[r] \in {"save", "open", "fetch", "cleanup", "remove", "done"}
        /\ \A q \in Req : q # r => pc'[q] = pc[q]
    BY <1>0, <1>2 DEF AddCrawler, SaveCrawl, UpdateCrawl, StoreRows,
                      DeleteCrawlDataIfUnreferenced, RemoveCrawler, Go
  <2>2. project[TargetOf[r]] # "none"
    BY <2>1, KindAt DEF IInv, Rows
  <2> QED BY <2>1, <2>2, Aside DEF Plain, Marking, Deleting
<1> QED BY <1>1, <1>2 DEF Crawling

-----------------------------------------------------------------------------
(* The steps of deletions, failures and crashes                            *)

LEMMA KeptByDisable ==
  ASSUME IInv, NEW r \in Req, Disable(r)
  PROVE  SignedIn' /\ Rows' /\ Lists' /\ Guarded'
<1>1. /\ UNCHANGED <<owner, as, files, late, crashes>>
      /\ pc[r] = "disable" /\ pc \in [Req -> Step] /\ todo \in [Req -> SUBSET Project]
      /\ as[r] \in User /\ KindOf[r] \in {"delete", "account"}
      /\ \A q \in Req : q # r => pc'[q] = pc[q] /\ todo'[q] = todo[q]
  BY KindAt, OnTheList DEF Disable, IInv, Located, Go
<1>2. CASE KindOf[r] = "delete"
  <2> DEFINE p == TargetOf[r]
  <2>1. /\ user' = user /\ p \in Project /\ project[p] # "none"
        /\ pc'[r] = "crawls" /\ todo'[r] = {p}
        /\ \A q \in Project : q # p => project'[q] = project[q]
        /\ project'[p] = IF project[p] = "live" THEN "deleting" ELSE project[p]
    <3>1. /\ user' = user /\ Go(r, "crawls") /\ todo' = [todo EXCEPT ![r] = {p}]
          /\ project' = [project EXCEPT ![p] = IF @ = "live" THEN "deleting" ELSE @]
      BY <1>2 DEF Disable
    <3>2. pc'[r] = "crawls"
      BY <3>1, Moves
    <3>3. todo'[r] = {p}
      BY <1>1, <3>1
    <3>4. p \in Project
      BY <1>2, KindAt DEF Kinds
    <3>5. project[p] # "none"
      BY <1>1, <1>2 DEF IInv, Rows
    <3>6. project \in [Project -> {"none", "live", "deleting", "gone"}]
      BY DEF IInv, AccountsTypeOK
    <3> HIDE DEF p
    <3>7. /\ \A q \in Project : q # p => project'[q] = project[q]
          /\ project'[p] = IF project[p] = "live" THEN "deleting" ELSE project[p]
      BY <3>1, <3>4, <3>6
    <3> QED BY <3>1, <3>2, <3>3, <3>4, <3>5, <3>7
  <2>2. Lists'
    BY <1>1, <1>2, <2>1 DEF IInv, Lists, Marking
  <2> HIDE DEF p
  <2>3. SignedIn'
    BY <1>1, <2>1 DEF IInv, SignedIn
  <2>4. \A q \in Project : /\ project[q] = "none" <=> project'[q] = "none"
                           /\ Exists(q) <=> Exists(q)'
    BY <2>1 DEF Exists
  <2>5. Rows'
    <3>1. \A q \in Req : KindOf[q] \in {"add", "start", "delete"} => TargetOf[q] \in Project
      BY KindAt DEF Kinds
    <3> QED BY <1>1, <1>2, <2>1, <2>4, <3>1 DEF IInv, Rows, p
  <2>6. /\ \A q \in Project : Stray(q)' => Stray(q)
        /\ \A z \in Req, q \in Project : /\ Removes(z, q) => Removes(z, q)'
                                         /\ OwnersDeletion(z, q) <=> OwnersDeletion(z, q)'
        /\ Removes(r, p)'
    BY <1>1, <2>1, StrayBefore DEF Removes, OwnersDeletion, Deleting
  <2>7. Guarded'
    <3> SUFFICES ASSUME NEW q \in Project, Stray(q)'
                 PROVE  /\ \/ project'[q] = "live" /\ user[owner[q]] = "live"
                           \/ \E z \in Req : Removes(z, q)'
                           \/ Exists(q) /\ \E z \in Req : OwnersDeletion(z, q) /\ pc'[z] = "projects"
                        /\ \A z \in Req : OwnersDeletion(z, q) /\ pc'[z] \in Deleting \cup {"user"}
                             => \E y \in Req : Removes(y, q)'
      BY <1>1, <2>1, <2>4, <2>6 DEF Guarded
    <3>1. Stray(q)
      BY <2>6
    <3>2. CASE q = p
      BY <2>6, <3>2
    <3>3. CASE q # p
      <4>1. project'[q] = project[q]
        BY <2>1, <3>3
      <4>2. \A z \in Req : OwnersDeletion(z, q) => z # r /\ pc'[z] = pc[z]
        BY <1>1, <1>2 DEF OwnersDeletion
      <4> QED BY <2>6, <3>1, <4>1, <4>2 DEF IInv, Guarded
    <3> QED BY <3>2, <3>3
  <2> QED BY <2>2, <2>3, <2>5, <2>7
<1>3. CASE KindOf[r] = "account"
  <2> DEFINE u == as[r]
  <2>1. /\ project' = project /\ todo' = todo /\ pc'[r] = "projects" /\ user[u] # "none"
        /\ \A v \in User : v # u => user'[v] = user[v]
        /\ user'[u] = IF user[u] = "live" THEN "deleting" ELSE user[u]
        /\ user[u] \in {"none", "live", "deleting", "gone"}
    <3>1. /\ project' = project /\ todo' = todo /\ pc'[r] = "projects"
          /\ user' = [user EXCEPT ![u] = IF @ = "live" THEN "deleting" ELSE @]
      BY <1>1, <1>3 DEF Disable, Go
    <3>2. user \in [User -> {"none", "live", "deleting", "gone"}]
      BY DEF IInv, AccountsTypeOK
    <3>3. user[u] # "none"
      BY <1>1, AccountsAssumption DEF IInv, SignedIn
    <3> QED BY <1>1, <3>1, <3>2, <3>3
  <2> HIDE DEF u
  <2>2. \A v \in User : /\ user[v] = "none" <=> user'[v] = "none"
                        /\ user[v] \in {"deleting", "gone"} => user'[v] \in {"deleting", "gone"}
    BY <2>1
  <2>3. Lists'
    <3>1. \A q \in Req : KindOf[q] = "account" /\ pc[q] \in Marking => as[q] \in User
      BY OnTheList DEF Marking, Deleting
    <3>2. \A q \in Req : pc'[q] \in Deleting => q # r /\ pc'[q] = pc[q] /\ todo'[q] = todo[q]
      BY <1>1, <2>1 DEF Deleting
    <3>3. /\ \A q \in Req : KindOf[q] = "delete" /\ pc'[q] \in Deleting => todo'[q] = {TargetOf[q]}
          /\ \A q \in Req : KindOf[q] = "account" /\ pc'[q] \in Deleting
               => todo'[q] # {} /\ \A p \in todo'[q] : owner'[p] = as'[q]
      BY <1>1, <3>2 DEF IInv, Lists
    <3>4. ASSUME NEW q \in Req, KindOf[q] = "account", pc'[q] \in Marking
          PROVE  user'[as'[q]] \in {"deleting", "gone"}
      <4>1. CASE q = r
        BY <1>1, <2>1, <4>1 DEF u
      <4>2. CASE q # r
        <5>1. pc[q] \in Marking /\ as'[q] = as[q]
          BY <1>1, <3>4, <4>2
        <5>2. user[as[q]] \in {"deleting", "gone"} /\ as[q] \in User
          BY <3>1, <3>4, <5>1 DEF IInv, Lists
        <5> QED BY <2>2, <5>1, <5>2
      <4> QED BY <4>1, <4>2
    <3> QED BY <3>3, <3>4 DEF Lists
  <2>4. SignedIn'
    <3>1. \A q \in Req : /\ as[q] # None => as[q] \in User
                         /\ pc[q] \in {"known", "signup"} => TargetOf[q] \in User
      BY KindAt DEF IInv, AccountsTypeOK
    <3> QED BY <1>1, <2>1, <2>2, <3>1 DEF IInv, SignedIn
  <2>5. Rows'
    BY <1>1, <1>3, <2>1 DEF IInv, Rows
  <2>6. /\ \A q \in Project : Stray(q)' => Stray(q)
        /\ \A z \in Req, q \in Project : /\ Removes(z, q) <=> Removes(z, q)'
                                         /\ OwnersDeletion(z, q) <=> OwnersDeletion(z, q)'
        /\ \A q \in Project : Exists(q) <=> Exists(q)'
    BY <1>1, <2>1, StrayBefore DEF Removes, OwnersDeletion, Deleting, Exists
  <2>7. \A q \in Project : Stray(q) => owner[q] \in User
    BY FileHasOwner DEF IInv, AccountsTypeOK, Stray
  <2>8. \A q \in Project : Stray(q) /\ owner[q] = u => OwnersDeletion(r, q)'
    BY <1>1, <1>3 DEF OwnersDeletion, u
  <2>9. Guarded'
    <3>1. \A q \in Project : Stray(q)' =>
            \/ project'[q] = "live" /\ user'[owner'[q]] = "live"
            \/ \E z \in Req : Removes(z, q)'
            \/ Exists(q)' /\ \E z \in Req : OwnersDeletion(z, q)' /\ pc'[z] = "projects"
      <4> SUFFICES ASSUME NEW q \in Project, Stray(q)'
                   PROVE  \/ project'[q] = "live" /\ user'[owner'[q]] = "live"
                          \/ \E z \in Req : Removes(z, q)'
                          \/ Exists(q)' /\ \E z \in Req : OwnersDeletion(z, q)' /\ pc'[z] = "projects"
        OBVIOUS
      <4>1. CASE project[q] = "live" /\ user[owner[q]] = "live"
        BY <1>1, <2>1, <2>6, <2>7, <2>8, <4>1 DEF Exists
      <4>2. CASE \E z \in Req : Removes(z, q)
        BY <2>6, <4>2
      <4>3. CASE Exists(q) /\ \E z \in Req : OwnersDeletion(z, q) /\ pc[z] = "projects"
        BY <1>1, <2>6, <4>3
      <4> QED BY <2>6, <4>1, <4>2, <4>3 DEF IInv, Guarded
    <3>2. \A q \in Project, z \in Req :
            Stray(q)' /\ OwnersDeletion(z, q)' /\ pc'[z] \in Deleting \cup {"user"}
              => \E y \in Req : Removes(y, q)'
      BY <1>1, <2>1, <2>6 DEF IInv, Guarded, Deleting
    <3> QED BY <3>1, <3>2 DEF Guarded
  <2> QED BY <2>3, <2>4, <2>5, <2>9
<1> QED BY <1>1, <1>2, <1>3

LEMMA KeptByFindProjects ==
  ASSUME IInv, NEW r \in Req, FindProjectsByUser(r)
  PROVE  SignedIn' /\ Rows' /\ Lists' /\ Guarded'
<1>1. /\ UNCHANGED <<user, project, owner, as, files, late, crashes>>
      /\ pc[r] = "projects" /\ pc \in [Req -> Step] /\ todo \in [Req -> SUBSET Project]
      /\ KindOf[r] = "account" /\ as[r] \in User
      /\ \A q \in Req : q # r => pc'[q] = pc[q] /\ todo'[q] = todo[q]
      /\ pc'[r] = IF Of(as[r]) = {} THEN "user" ELSE "crawls"
      /\ todo'[r] = Of(as[r])
  BY KindAt, OnTheList DEF FindProjectsByUser, IInv, Located, Go
<1>2. SignedIn'
  BY <1>1 DEF IInv, SignedIn
<1>3. Rows'
  BY <1>1 DEF IInv, Rows
<1>4. Lists'
  <2>1. /\ pc'[r] \in Deleting => todo'[r] # {}
        /\ \A p \in todo'[r] : owner[p] = as[r]
    BY <1>1 DEF Of, Deleting
  <2>2. user[as[r]] \in {"deleting", "gone"}
    BY <1>1 DEF IInv, Lists, Marking
  <2> QED BY <1>1, <2>1, <2>2 DEF IInv, Lists
<1>5. /\ \A q \in Project : Stray(q)' => Stray(q)
      /\ \A z \in Req, q \in Project : /\ Removes(z, q) => Removes(z, q)' /\ z # r
                                       /\ OwnersDeletion(z, q) <=> OwnersDeletion(z, q)'
      /\ \A q \in Project : Exists(q) <=> Exists(q)'
  BY <1>1, StrayBefore DEF Removes, OwnersDeletion, Deleting, Exists
<1>6. \A q \in Project : OwnersDeletion(r, q) /\ Exists(q) => Removes(r, q)'
  BY <1>1 DEF OwnersDeletion, Removes, Of, Deleting
<1>7. \A z \in Req, q \in Project : OwnersDeletion(z, q) /\ OwnersDeletion(r, q) => as[z] = as[r]
  BY DEF OwnersDeletion
<1>8. Guarded'
  <2> SUFFICES ASSUME NEW q \in Project, Stray(q)'
               PROVE  /\ \/ project[q] = "live" /\ user[owner[q]] = "live"
                         \/ \E z \in Req : Removes(z, q)'
                         \/ Exists(q) /\ \E z \in Req : OwnersDeletion(z, q) /\ pc'[z] = "projects"
                      /\ \A z \in Req : OwnersDeletion(z, q) /\ pc'[z] \in Deleting \cup {"user"}
                           => \E y \in Req : Removes(y, q)'
    BY <1>1, <1>5 DEF Guarded
  <2>1. CASE \E z \in Req : Removes(z, q)
    BY <1>5, <2>1
  <2>2. CASE OwnersDeletion(r, q) /\ Exists(q)
    BY <1>6, <2>2
  <2>3. CASE ~(OwnersDeletion(r, q) /\ Exists(q)) /\ ~\E z \in Req : Removes(z, q)
    <3>1. Stray(q)
      BY <1>5
    <3>2. \/ project[q] = "live" /\ user[owner[q]] = "live"
          \/ Exists(q) /\ \E z \in Req : OwnersDeletion(z, q) /\ pc[z] = "projects"
      BY <2>3, <3>1 DEF IInv, Guarded
    <3>3. ~OwnersDeletion(r, q)
      BY <2>3, <3>2 DEF Exists
    <3> QED BY <1>1, <2>3, <3>1, <3>2, <3>3 DEF IInv, Guarded
  <2> QED BY <2>1, <2>2, <2>3
<1> QED BY <1>2, <1>3, <1>4, <1>8

LEMMA KeptByDeleteProject ==
  ASSUME IInv, NEW r \in Req, DeleteProject(r)
  PROVE  SignedIn' /\ Rows' /\ Lists' /\ Guarded'
<1>0. PICK p \in Project : p = Current(r) /\ p \in todo[r]
  BY OnTheList DEF DeleteProject, Deleting
<1>1. /\ UNCHANGED <<user, owner, as, files, late, crashes, todo>>
      /\ pc[r] = "project" /\ pc'[r] = "file" /\ pc \in [Req -> Step]
      /\ p \in todo[r] /\ p \in Project /\ KindOf[r] \in {"delete", "account"}
      /\ \A q \in Req : q # r => pc'[q] = pc[q]
      /\ project'[p] = "gone" /\ \A q \in Project : q # p => project'[q] = project[q]
  BY <1>0, KindAt, OnTheList DEF DeleteProject, IInv, Located, AccountsTypeOK, Go, Deleting
<1>2. owner[p] # None
  <2>1. KindOf[r] = "delete" => project[p] # "none"
    BY <1>1 DEF IInv, Rows, Lists, Deleting
  <2>2. KindOf[r] = "account" => owner[p] = as[r] /\ as[r] \in User
    BY <1>1, OnTheList DEF IInv, Lists, Deleting
  <2>3. owner[p] = None <=> project[p] = "none"
    BY DEF IInv, Rows
  <2>4. None \notin User
    BY AccountsAssumption
  <2> QED BY <1>1, <2>1, <2>2, <2>3, <2>4
<1>3. \A q \in Project : project[q] = "none" <=> project'[q] = "none"
  BY <1>1, <1>2 DEF IInv, Rows
<1>4. SignedIn'
  BY <1>1 DEF IInv, SignedIn
<1>5. Rows'
  <2>1. \A q \in Req : KindOf[q] \in {"add", "start", "delete"} => TargetOf[q] \in Project
    BY KindAt DEF Kinds
  <2> QED BY <1>1, <1>3, <2>1 DEF IInv, Rows
<1>6. Lists'
  BY <1>1 DEF IInv, Lists, Marking, Deleting
<1>7. /\ \A q \in Project : Stray(q)' => Stray(q)
      /\ \A z \in Req, q \in Project : /\ Removes(z, q) <=> Removes(z, q)'
                                       /\ OwnersDeletion(z, q) <=> OwnersDeletion(z, q)'
      /\ \A q \in Project : q # p => (Exists(q) <=> Exists(q)')
      /\ Removes(r, p)'
  BY <1>1, StrayBefore DEF Removes, OwnersDeletion, Deleting, Exists
<1>8. \A q \in Req : /\ pc[q] \in Deleting <=> pc'[q] \in Deleting
                     /\ pc'[q] = pc[q] \/ (pc[q] \in Deleting /\ pc'[q] \in Deleting)
  BY <1>1 DEF Deleting
<1>9. Guarded'
  <2> SUFFICES ASSUME NEW q \in Project, Stray(q)'
               PROVE  /\ \/ project'[q] = "live" /\ user[owner[q]] = "live"
                         \/ \E z \in Req : Removes(z, q)'
                         \/ Exists(q)' /\ \E z \in Req : OwnersDeletion(z, q) /\ pc'[z] = "projects"
                      /\ \A z \in Req : OwnersDeletion(z, q) /\ pc'[z] \in Deleting \cup {"user"}
                           => \E y \in Req : Removes(y, q)'
    BY <1>1, <1>7 DEF Guarded
  <2>1. CASE q = p
    BY <1>7, <2>1
  <2>2. CASE q # p
    BY <1>1, <1>7, <1>8, <2>2 DEF IInv, Guarded, Deleting
  <2> QED BY <2>1, <2>2
<1> QED BY <1>4, <1>5, <1>6, <1>9

\* The archive of a project whose deletion ends is gone with it, or excused.
LEMMA KeptByDeleteArchive ==
  ASSUME IInv, NEW r \in Req, DeleteArchive(r)
  PROVE  SignedIn' /\ Rows' /\ Lists' /\ Guarded'
<1>0. PICK p \in Project : p = Current(r) /\ p \in todo[r]
  BY OnTheList DEF DeleteArchive, Deleting
<1>1. /\ UNCHANGED <<user, project, owner, as, late, crashes>>
      /\ pc[r] = "file" /\ pc \in [Req -> Step] /\ todo \in [Req -> SUBSET Project]
      /\ p \in todo[r] /\ p \in Project /\ KindOf[r] \in {"delete", "account"}
      /\ \A q \in Req : q # r => pc'[q] = pc[q] /\ todo'[q] = todo[q]
      /\ todo'[r] = todo[r] \ {p}
      /\ pc'[r] = IF todo[r] # {p} THEN "crawls"
                  ELSE IF KindOf[r] = "delete" THEN "done" ELSE "user"
      /\ files' = files \ {ArchiveFile(p, KindOf[r] = "delete")}
  <2>1. /\ UNCHANGED <<user, project, owner, as, late, crashes>>
        /\ pc[r] = "file" /\ todo' = [todo EXCEPT ![r] = @ \ {p}]
        /\ files' = files \ {ArchiveFile(p, KindOf[r] = "delete")}
        /\ Go(r, IF todo[r] # {p} THEN "crawls"
                 ELSE IF KindOf[r] = "delete" THEN "done" ELSE "user")
    BY <1>0, Zenon DEF DeleteArchive
  <2>2. pc \in [Req -> Step] /\ todo \in [Req -> SUBSET Project]
    BY DEF IInv, Located
  <2>3. KindOf[r] \in {"delete", "account"}
    BY <2>1, KindAt DEF Deleting
  <2>4. todo'[r] = todo[r] \ {p} /\ \A q \in Req : q # r => todo'[q] = todo[q]
    BY <2>1, <2>2
  <2>5. /\ pc'[r] = IF todo[r] # {p} THEN "crawls"
                    ELSE IF KindOf[r] = "delete" THEN "done" ELSE "user"
        /\ \A q \in Req : q # r => pc'[q] = pc[q]
    BY <2>1, Moves
  <2> QED BY <1>0, <2>1, <2>2, <2>3, <2>4, <2>5
<1>2. /\ KindOf[r] = "delete" => todo[r] = {p}
      /\ KindOf[r] = "account" => owner[p] = as[r]
  <2>1. /\ KindOf[r] = "delete" => todo[r] = {TargetOf[r]}
        /\ KindOf[r] = "account" => \A q \in todo[r] : owner[q] = as[r]
    BY <1>1 DEF IInv, Lists, Deleting
  <2> QED BY <1>1, <2>1
<1>3. SignedIn'
  BY <1>1 DEF IInv, SignedIn
<1>4. Rows'
  BY <1>1 DEF IInv, Rows
<1>5. Lists'
  <2>1. \A q \in Req : /\ pc'[q] \in Deleting => pc[q] \in Deleting
                       /\ pc'[q] \in Marking => pc[q] \in Marking
    BY <1>1 DEF Marking, Deleting
  <2>2. \A q \in Req : KindOf[q] = "delete" /\ pc'[q] \in Deleting
                         => q # r /\ todo'[q] = {TargetOf[q]}
    <3>1. KindOf[r] = "delete" => pc'[r] \notin Deleting
      BY <1>1, <1>2 DEF Deleting
    <3> QED BY <1>1, <2>1, <3>1 DEF IInv, Lists
  <2>3. \A q \in Req : KindOf[q] = "account" /\ pc'[q] \in Deleting
                         => todo'[q] # {} /\ \A x \in todo'[q] : owner'[x] = as'[q]
    <3>1. pc'[r] \in Deleting => todo'[r] # {}
      BY <1>1 DEF Deleting
    <3>2. /\ owner' = owner /\ as' = as /\ \A q \in Req : todo'[q] \subseteq todo[q]
          /\ \A q \in Req : q # r => todo'[q] = todo[q]
      BY <1>1
    <3>3. \A q \in Req : KindOf[q] = "account" /\ pc[q] \in Deleting
                           => todo[q] # {} /\ \A x \in todo[q] : owner[x] = as[q]
      BY DEF IInv, Lists
    <3> QED BY <2>1, <3>1, <3>2, <3>3
  <2>4. \A q \in Req : KindOf[q] = "account" /\ pc'[q] \in Marking
                         => user'[as'[q]] \in {"deleting", "gone"}
    BY <1>1, <2>1 DEF IInv, Lists
  <2> QED BY <2>2, <2>3, <2>4 DEF Lists
<1>6. /\ \A q \in Project : Stray(q)' => Stray(q)
      /\ \A z \in Req, q \in Project : /\ z # r \/ q # p => (Removes(z, q) => Removes(z, q)')
                                       /\ OwnersDeletion(z, q) <=> OwnersDeletion(z, q)'
      /\ \A q \in Project : Exists(q) <=> Exists(q)'
      /\ \A q \in Req : pc'[q] \in Deleting \cup {"user"} => pc[q] \in Deleting \cup {"user"}
      /\ \A q \in Req : pc[q] = "projects" => pc'[q] = "projects"
  BY <1>1, StrayBefore DEF Removes, OwnersDeletion, Deleting, Exists
<1>7. ~Stray(p)'
  <2> SUFFICES ASSUME Stray(p)' PROVE FALSE
    OBVIOUS
  <2>1. Stray(p)
    BY <1>1, <1>6
  <2>2. ArchiveFile(p, TRUE) \in files'
    <3>1. Rows'
      BY <1>4
    <3>2. PICK x \in files' : x = ArchiveFile(p, TRUE) \/ x = ArchiveFile(p, FALSE)
      BY DEF Stray, HasFile
    <3>3. PICK q \in Project : x = ArchiveFile(q, TRUE)
      BY <3>1 DEF Rows
    <3>4. q = p
      BY <3>2, <3>3, FileOf
    <3> QED BY <3>3, <3>4
  <2>3. CASE KindOf[r] = "delete"
    BY <1>1, <2>2, <2>3
  <2>4. CASE KindOf[r] = "account"
    <3>1. OwnersDeletion(r, p)
      BY <1>2, <2>4 DEF OwnersDeletion
    <3>2. p \notin Ported
      BY <2>1, <3>1 DEF Stray, Excepted
    <3>3. ArchiveFile(p, FALSE) = ArchiveFile(p, TRUE)
      BY <3>2, FileOf
    <3> QED BY <1>1, <2>2, <2>4, <3>3
  <2> QED BY <1>1, <2>3, <2>4
<1>8. Guarded'
  <2> SUFFICES ASSUME NEW q \in Project, Stray(q)'
               PROVE  /\ \/ project[q] = "live" /\ user[owner[q]] = "live"
                         \/ \E z \in Req : Removes(z, q)'
                         \/ Exists(q) /\ \E z \in Req : OwnersDeletion(z, q) /\ pc'[z] = "projects"
                      /\ \A z \in Req : OwnersDeletion(z, q) /\ pc'[z] \in Deleting \cup {"user"}
                           => \E y \in Req : Removes(y, q)'
    BY <1>1, <1>6 DEF Guarded
  <2>1. q # p
    BY <1>7
  <2> QED BY <1>6, <2>1 DEF IInv, Guarded
<1> QED BY <1>3, <1>4, <1>5, <1>8

LEMMA KeptByDeleteUser ==
  ASSUME IInv, NEW r \in Req, DeleteUser(r)
  PROVE  SignedIn' /\ Rows' /\ Lists' /\ Guarded'
<1>0. PICK u \in User : u = as[r]
  BY OnTheList, KindAt DEF DeleteUser
<1>1. /\ UNCHANGED <<owner, as, files, late, crashes, todo>>
      /\ pc[r] = "user" /\ pc'[r] = "done" /\ pc \in [Req -> Step]
      /\ u \in User /\ KindOf[r] = "account" /\ user[u] # "none"
      /\ \A q \in Req : q # r => pc'[q] = pc[q]
      /\ user'[u] = "gone" /\ \A v \in User : v # u => user'[v] = user[v]
      /\ \A q \in Project : project'[q] = IF q \in Of(u) THEN "gone" ELSE project[q]
  <2>1. u \in User /\ u # None /\ KindOf[r] = "account" /\ pc \in [Req -> Step]
        /\ user \in [User -> {"none", "live", "deleting", "gone"}]
    <3>1. u # None
      BY <1>0, AccountsAssumption
    <3>2. KindOf[r] = "account"
      BY KindAt DEF DeleteUser
    <3> QED BY <3>1, <3>2 DEF IInv, Located, AccountsTypeOK
  <2>2. /\ UNCHANGED <<owner, as, files, late, crashes, todo>>
        /\ pc[r] = "user" /\ Go(r, "done") /\ user' = [user EXCEPT ![u] = "gone"]
        /\ project' = [q \in Project |-> IF q \in Of(u) THEN "gone" ELSE project[q]]
    BY <1>0 DEF DeleteUser
  <2>3. user[u] # "none"
    BY <1>0, <2>1 DEF IInv, SignedIn
  <2>4. user'[u] = "gone" /\ \A v \in User : v # u => user'[v] = user[v]
    BY <2>1, <2>2
  <2>5. pc'[r] = "done" /\ \A q \in Req : q # r => pc'[q] = pc[q]
    BY <2>2, Moves
  <2> QED BY <2>1, <2>2, <2>3, <2>4, <2>5
<1>2. \A q \in Project : q \in Of(u) <=> owner[q] = u /\ Exists(q)
  BY DEF Of
<1>3. \A q \in Project : project[q] = "none" <=> project'[q] = "none"
  BY <1>1, <1>2 DEF Exists
<1>4. SignedIn'
  <2>1. \A q \in Req : /\ as[q] # None => as[q] \in User
                       /\ pc[q] \in {"known", "signup"} => TargetOf[q] \in User
    BY KindAt DEF IInv, AccountsTypeOK
  <2>2. \A v \in User : user'[v] = "none" <=> user[v] = "none"
    BY <1>1
  <2>3. \A q \in Req : pc'[q] # "done" => pc'[q] = pc[q]
    BY <1>1
  <2>4. /\ \A q \in Req : as'[q] = None => pc'[q] \in {"auth", "known", "signup", "done"}
        /\ \A q \in Req : pc'[q] \in {"auth", "known", "signup"} => as'[q] = None
    BY <1>1, <2>3 DEF IInv, SignedIn
  <2>5. \A q \in Req : as'[q] # None => user'[as'[q]] # "none"
    BY <1>1, <2>1, <2>2 DEF IInv, SignedIn
  <2>6. \A q \in Req : pc'[q] \in {"known", "signup"} => user'[TargetOf[q]] = "none"
    BY <2>1, <2>2, <2>3 DEF IInv, SignedIn
  <2> QED BY <2>4, <2>5, <2>6 DEF SignedIn
<1>5. Rows'
  <2>1. \A q \in Req : KindOf[q] \in {"add", "start", "delete"} => TargetOf[q] \in Project
    BY KindAt DEF Kinds
  <2> QED BY <1>1, <1>3, <2>1 DEF IInv, Rows
<1>6. Lists'
  <2>1. \A q \in Req : KindOf[q] = "account" /\ pc[q] \in Marking => as[q] \in User
    BY OnTheList DEF Marking, Deleting
  <2> QED BY <1>0, <1>1, <2>1 DEF IInv, Lists, Marking, Deleting
<1>7. /\ \A q \in Project : Stray(q)' => Stray(q)
      /\ \A z \in Req, q \in Project : /\ Removes(z, q) <=> Removes(z, q)'
                                       /\ OwnersDeletion(z, q) <=> OwnersDeletion(z, q)'
  BY <1>1, StrayBefore DEF Removes, OwnersDeletion, Deleting
<1>8. \A q \in Project : Stray(q) => owner[q] \in User
  BY FileHasOwner DEF IInv, AccountsTypeOK, Stray
<1>9. Guarded'
  <2> SUFFICES ASSUME NEW q \in Project, Stray(q)'
               PROVE  /\ \/ project'[q] = "live" /\ user'[owner[q]] = "live"
                         \/ \E z \in Req : Removes(z, q)'
                         \/ Exists(q)' /\ \E z \in Req : OwnersDeletion(z, q) /\ pc'[z] = "projects"
                      /\ \A z \in Req : OwnersDeletion(z, q) /\ pc'[z] \in Deleting \cup {"user"}
                           => \E y \in Req : Removes(y, q)'
    BY <1>1, <1>7 DEF Guarded
  <2>1. Stray(q)
    BY <1>7
  <2>2. CASE owner[q] = u
    <3>1. OwnersDeletion(r, q)
      BY <1>0, <1>1, <2>2 DEF OwnersDeletion
    <3> QED BY <1>1, <1>7, <2>1, <3>1 DEF IInv, Guarded
  <2>3. CASE owner[q] # u
    <3>1. project'[q] = project[q] /\ user'[owner[q]] = user[owner[q]] /\ (Exists(q) <=> Exists(q)')
      BY <1>1, <1>2, <1>8, <2>1, <2>3 DEF Exists
    <3>2. \A z \in Req : OwnersDeletion(z, q) => z # r /\ pc'[z] = pc[z]
      BY <1>0, <1>1, <2>3 DEF OwnersDeletion
    <3> QED BY <1>7, <2>1, <3>1, <3>2 DEF IInv, Guarded
  <2> QED BY <2>2, <2>3
<1> QED BY <1>4, <1>5, <1>6, <1>9

LEMMA KeptByDeletion ==
  ASSUME IInv, NEW r \in Req, Deletion(r)
  PROVE  SignedIn' /\ Rows' /\ Lists' /\ Guarded'
<1>0. pc \in [Req -> Step] /\ todo \in [Req -> SUBSET Project]
  BY DEF IInv, Located
<1>1. CASE FindCrawls(r) \/ DeleteCrawlData(r) \/ DeleteProjectCrawls(r)
  <2>1. /\ UNCHANGED <<user, project, owner, as, late, crashes, files, todo>>
        /\ pc[r] \in {"crawls", "data", "rows"} /\ pc'[r] \in {"data", "rows", "project"}
        /\ \A q \in Req : q # r => pc'[q] = pc[q]
    BY <1>0, <1>1 DEF FindCrawls, DeleteCrawlData, DeleteProjectCrawls, Go
  <2> QED BY <2>1, GoesOn DEF Plain, Deleting
<1> QED BY <1>1, KeptByDisable, KeptByFindProjects, KeptByDeleteProject, KeptByDeleteArchive,
           KeptByDeleteUser DEF Deletion

LEMMA KeptByFailure ==
  ASSUME IInv, NEW r \in Req, StatementFails(r)
  PROVE  SignedIn' /\ Rows' /\ Lists' /\ Guarded'
<1>1. /\ UNCHANGED <<user, project, owner, as, late, crashes, files, todo>>
      /\ \A q \in Req : q # r => pc'[q] = pc[q]
      /\ \/ pc[r] \in {"data", "rows", "project"} /\ pc'[r] \in {"rows", "project", "file"}
         \/ pc[r] = "user" /\ pc'[r] = "done" /\ KindOf[r] = "account"
  BY KindAt DEF StatementFails, IInv, Located, Go
<1>2. CASE pc[r] # "user"
  BY <1>1, <1>2, GoesOn DEF Plain, Deleting
<1>3. CASE pc[r] = "user"
  <2>1. SignedIn' /\ Rows'
    BY <1>1, <1>3 DEF IInv, SignedIn, Rows
  <2>2. Lists'
    BY <1>1, <1>3 DEF IInv, Lists, Marking, Deleting
  <2>3. /\ \A q \in Project : Stray(q)' => Stray(q)
        /\ \A z \in Req, q \in Project : /\ Removes(z, q) <=> Removes(z, q)'
                                         /\ OwnersDeletion(z, q) <=> OwnersDeletion(z, q)'
        /\ \A q \in Project : Exists(q) <=> Exists(q)'
    BY <1>1, <1>3, StrayBefore DEF Removes, OwnersDeletion, Deleting, Exists
  <2>4. Guarded'
    BY <1>1, <1>3, <2>3 DEF IInv, Guarded, Deleting
  <2> QED BY <2>1, <2>2, <2>4
<1> QED BY <1>2, <1>3

\* A crash ends every request; what it leaves on disk is excused.
LEMMA KeptByCrash ==
  ASSUME IInv, Crash
  PROVE  SignedIn' /\ Rows' /\ Lists' /\ Guarded'
<1>1. /\ UNCHANGED <<user, project, owner, as, files>> /\ crashes' = crashes + 1 /\ crashes \in Nat
      /\ \A q \in Req : pc'[q] = IF pc[q] \in {"auth", "known"} THEN pc[q] ELSE "done"
  BY AccountsAssumption DEF Crash, IInv, AccountsTypeOK
<1>2. SignedIn' /\ Rows'
  BY <1>1 DEF IInv, SignedIn, Rows
<1>3. Lists'
  BY <1>1 DEF Lists, Marking, Deleting
<1>4. crashes' > 0
  BY <1>1
<1>5. Guarded'
  BY <1>4 DEF Guarded, Stray, Excepted
<1> QED BY <1>2, <1>3, <1>5

LEMMA Kept == IInv /\ [AccountsNext]_accountsVars => IInv'
<1> SUFFICES ASSUME IInv, [AccountsNext]_accountsVars PROVE IInv'
  OBVIOUS
<1>1. ASSUME NEW r \in Req, Handling(r) PROVE IInv'
  BY <1>1, TypedHandling, LocatedHandling, KeptByHandling DEF IInv
<1>2. ASSUME NEW r \in Req, Crawling(r) \/ StoreRows(r) PROVE IInv'
  BY <1>2, TypedCrawling, LocatedCrawling, KeptByCrawling DEF IInv
<1>3. ASSUME NEW r \in Req, Deletion(r) PROVE IInv'
  BY <1>3, TypedDeletion, LocatedDeletion, KeptByDeletion DEF IInv
<1>4. ASSUME NEW r \in Req, StatementFails(r) PROVE IInv'
  BY <1>4, TypedDeletion, LocatedDeletion, KeptByFailure DEF IInv
<1>5. CASE Crash
  BY <1>5, TypedCrash, LocatedCrash, KeptByCrash DEF IInv
<1>6. CASE UNCHANGED accountsVars
  <2>1. AccountsTypeOK' /\ Located'
    BY <1>6 DEF accountsVars, IInv, AccountsTypeOK, Located
  <2>2. SignedIn' /\ Rows' /\ Lists'
    <3> USE <1>6 DEF accountsVars, IInv
    <3>1. SignedIn'
      BY DEF SignedIn
    <3>2. Rows'
      BY DEF Rows
    <3>3. Lists'
      BY DEF Lists
    <3> QED BY <3>1, <3>2, <3>3
  <2>3. Guarded'
    <3>1. \A p \in Project : (Stray(p) <=> Stray(p)') /\ (Exists(p) <=> Exists(p)')
      BY <1>6 DEF accountsVars, Stray, HasFile, Excepted, OwnersDeletion, Exists
    <3>2. \A r \in Req, p \in Project : /\ OwnersDeletion(r, p) <=> OwnersDeletion(r, p)'
                                        /\ Removes(r, p) <=> Removes(r, p)'
      BY <1>6 DEF accountsVars, OwnersDeletion, Removes
    <3> QED BY <1>6, <3>1, <3>2 DEF accountsVars, IInv, Guarded
  <2> QED BY <2>1, <2>2, <2>3 DEF IInv
<1> QED BY <1>1, <1>2, <1>3, <1>4, <1>5, <1>6 DEF AccountsNext

-----------------------------------------------------------------------------
\* IInv holds in every state of a run.
THEOREM Invariance == AccountsSpec => []IInv
<1>1. AccountsInit => IInv
  BY Initially
<1>2. IInv /\ [AccountsNext]_accountsVars => IInv'
  BY Kept
<1> QED BY <1>1, <1>2, PTL DEF AccountsSpec

\* Rows, requests and the history keep their types (services/user.go,
\* services/project.go).
THEOREM TypeCorrect == AccountsSpec => []AccountsTypeOK
<1>1. IInv => AccountsTypeOK
  BY DEF IInv
<1> QED BY <1>1, Invariance, PTL

\* Whatever crawls, edits, deletions and failing statements come together, a
\* project that is gone leaves an archive behind only in the three ways that
\* NothingLeftBehind names (services/project.go:81-105, services/user.go:159).
THEOREM NothingIsLeft == AccountsSpec => []NothingLeftBehind
<1>1. IInv => NothingLeftBehind
  <2> SUFFICES ASSUME IInv, NEW p \in Project, project[p] = "gone", Quiet(p)
               PROVE  ~Stray(p)
    BY DEF NothingLeftBehind, Stray, HasFile, Excepted, OwnersDeletion
  <2>1. ASSUME NEW r \in Req, Removes(r, p) PROVE FALSE
    <3>1. KindOf[r] \in {"delete", "account"}
      BY <2>1, KindAt DEF Removes
    <3>2. \/ KindOf[r] = "delete" /\ TargetOf[r] = p
          \/ KindOf[r] = "account" /\ owner[p] = as[r]
      BY <2>1, <3>1 DEF Removes, IInv, Lists
    <3> QED BY <2>1, <3>2 DEF Removes, Quiet, Deleting
  <2> QED BY <2>1 DEF IInv, Guarded, Exists
<1> QED BY <1>1, Invariance, PTL

-----------------------------------------------------------------------------
(* Whose request it is, and what rows hang on                              *)

Acting(r) == KindOf[r] \in {"edit", "start", "delete"} /\ pc[r] \notin {"auth", "find", "done"}

\* Who is at work on a project owns it, long after the row was looked up.
OwnProject == \A r \in Req : Acting(r) => owner[TargetOf[r]] = as[r] /\ as[r] # None

\* No row outlives the one it belongs to: page reports their crawl, a crawl its
\* project, a project its owner.  The statements that delete come one after the
\* other, may fail and meet crawls that insert (services/crawler.go:79,
\* services/project.go:81, services/user.go:159).
RowsHaveParents ==
  /\ \A c \in rows : crawl[c] \in {"open", "ended"}
  /\ \A c \in Starts : crawl[c] \in {"open", "ended"} => Exists(TargetOf[c])
  /\ \A p \in Project : Exists(p) => user[owner[p]] \in {"live", "deleting"}

\* Only requests of its owner add, change, mark or delete a project, its archive
\* option and its files; a crash does not.  Each handler looks for the project
\* among those of its user and then works with what it has read: the statements
\* name the project only (repository/project.go:111, :157-199).
UntouchedProject(p) ==
  /\ project'[p] = project[p] /\ archive'[p] = archive[p]
  /\ \A b \in BOOLEAN : ArchiveFile(p, b) \in files' <=> ArchiveFile(p, b) \in files
OwnersOnly ==
  \A p \in Project :
    UntouchedProject(p) \/ \E r \in Req : pc'[r] # pc[r] /\ as[r] = owner'[p] /\ as[r] # None

OInv == IInv /\ OwnProject /\ RowsHaveParents

\* A request that acts goes on acting, or it has just found its project.
LEMMA ActsOn ==
  ASSUME IInv, OwnProject, NEW r \in Req,
         \A q \in Req : q # r => pc'[q] = pc[q] /\ as'[q] = as[q],
         \A p \in Project : owner[p] # None => owner'[p] = owner[p],
         Acting(r)' => as'[r] = as[r] /\ (Acting(r) \/ (owner[TargetOf[r]] = as[r] /\ as[r] # None))
  PROVE  OwnProject'
<1> SUFFICES ASSUME NEW q \in Req, Acting(q)'
             PROVE  owner'[TargetOf[q]] = as'[q] /\ as'[q] # None
  BY DEF OwnProject
<1>1. TargetOf[q] \in Project
  BY KindAt DEF Acting, Kinds
<1>2. as'[q] = as[q] /\ owner[TargetOf[q]] = as[q] /\ as[q] # None
  <2>1. CASE q = r
    BY <2>1 DEF OwnProject
  <2>2. CASE q # r
    BY <2>2 DEF OwnProject, Acting
  <2> QED BY <2>1, <2>2
<1> QED BY <1>1, <1>2

\* What the steps do to requests and owners.
LEMMA OwnProjectKept ==
  ASSUME IInv, OwnProject, [AccountsNext]_accountsVars
  PROVE  OwnProject'
<1>0. /\ as \in [Req -> User \cup {None}] /\ pc \in [Req -> Step]
      /\ owner \in [Project -> User \cup {None}] /\ None \notin User
  BY AccountsAssumption DEF IInv, AccountsTypeOK, Located
<1>1. ASSUME NEW r \in Req, Auth(r) PROVE OwnProject'
  <2>1. owner' = owner /\ pc[r] = "auth" /\ \A q \in Req : q # r => pc'[q] = pc[q] /\ as'[q] = as[q]
    BY <1>0, <1>1 DEF Auth, Go
  <2>2. pc'[r] \in {"insert", "crawling", "find", "done"}
    BY <1>0, <1>1 DEF Auth, Go
  <2>3. pc'[r] \in {"insert", "crawling"} => KindOf[r] \in {"add", "account"}
    BY <1>0, <1>1 DEF Auth, Go
  <2> QED BY <2>1, <2>2, <2>3, ActsOn DEF Acting
<1>2. ASSUME NEW r \in Req, FindProject(r) PROVE OwnProject'
  <2>1. owner' = owner /\ as' = as /\ pc[r] = "find"
    BY <1>2 DEF FindProject
  <2>2. \A q \in Req : q # r => pc'[q] = pc[q]
    BY <1>0, <1>2 DEF FindProject, Go
  <2>3. TargetOf[r] \in Of(as[r]) \/ pc'[r] = "done"
    BY <1>0, <1>2 DEF FindProject, Go
  <2>4. as[r] \in User
    BY <2>1, OnTheList
  <2> QED BY <1>0, <2>1, <2>2, <2>3, <2>4, ActsOn DEF Acting, Of
<1>3. ASSUME NEW r \in Req, SaveProject(r) PROVE OwnProject'
  <2>1. as' = as /\ pc'[r] = "done" /\ \A q \in Req : q # r => pc'[q] = pc[q]
    BY <1>0, <1>3 DEF SaveProject, Go
  <2>2. owner[TargetOf[r]] = None
    <3>1. pc[r] = "insert" /\ KindOf[r] = "add" /\ TargetOf[r] \in Project
      BY <1>3, KindAt DEF SaveProject, Kinds
    <3>2. project[TargetOf[r]] = "none"
      BY <3>1 DEF IInv, Rows
    <3> QED BY <3>1, <3>2 DEF IInv, Rows
  <2>3. \A p \in Project : p # TargetOf[r] => owner'[p] = owner[p]
    BY <1>0, <1>3 DEF SaveProject
  <2> QED BY <2>1, <2>2, <2>3, ActsOn DEF Acting
<1>4. ASSUME NEW r \in Req, UNCHANGED <<owner, as>>,
             \A q \in Req : q # r => pc'[q] = pc[q],
             Acting(r)' => Acting(r)
      PROVE  OwnProject'
  BY <1>4, ActsOn
<1>5. ASSUME NEW r \in Req, \/ Known(r) \/ UserSignup(r) \/ Discard(r) \/ UpdateProject(r)
                            \/ UserIsCrawling(r) \/ GetProjectViews(r)
      PROVE  OwnProject'
  <2>1. /\ UNCHANGED <<owner, as>> /\ \A q \in Req : q # r => pc'[q] = pc[q]
        /\ pc[r] \in {"known", "signup", "discard", "update", "crawling", "views"}
    BY <1>0, <1>5 DEF Known, UserSignup, Discard, UpdateProject, UserIsCrawling, GetProjectViews, Go
  <2> QED BY <1>4, <2>1 DEF Acting
<1>6. ASSUME NEW r \in Req, Crawling(r) \/ StoreRows(r) PROVE OwnProject'
  <2>1. /\ UNCHANGED <<owner, as>> /\ \A q \in Req : q # r => pc'[q] = pc[q]
        /\ pc[r] \in {"add", "save", "open", "fetch", "cleanup", "remove"}
    BY <1>0, <1>6 DEF Crawling, AddCrawler, SaveCrawl, OpenArchive, UpdateCrawl, StoreRows,
                      DeleteCrawlDataIfUnreferenced, RemoveCrawler, Go
  <2> QED BY <1>4, <2>1 DEF Acting
<1>7. ASSUME NEW r \in Req, Deletion(r) \/ StatementFails(r) PROVE OwnProject'
  <2>1. /\ UNCHANGED <<owner, as>> /\ \A q \in Req : q # r => pc'[q] = pc[q]
        /\ pc[r] \in {"disable", "projects", "crawls", "data", "rows", "project", "file", "user"}
    BY <1>0, <1>7 DEF Deletion, Disable, FindProjectsByUser, FindCrawls, DeleteCrawlData,
                      DeleteProjectCrawls, DeleteProject, DeleteArchive, DeleteUser,
                      StatementFails, Go
  <2> QED BY <1>4, <2>1 DEF Acting
<1>8. CASE Crash
  <2>1. UNCHANGED <<owner, as>> /\ \A q \in Req : pc'[q] \in {pc[q], "done"}
    BY <1>8 DEF Crash
  <2> QED BY <2>1 DEF OwnProject, Acting
<1>9. CASE UNCHANGED accountsVars
  BY <1>9 DEF accountsVars, OwnProject, Acting
<1> QED BY <1>1, <1>2, <1>3, <1>5, <1>6, <1>7, <1>8, <1>9 DEF AccountsNext, Handling

\* A step that keeps users, projects and owners and touches neither crawls nor rows.
LEMMA ParentsAside ==
  ASSUME RowsHaveParents, UNCHANGED <<user, project, owner, crawl, rows>>
  PROVE  RowsHaveParents'
BY DEF RowsHaveParents, Exists

\* Crawls and rows that go together leave nothing behind.
LEMMA CascadeKeeps ==
  ASSUME AccountsTypeOK, RowsHaveParents, NEW gone, Cascade(gone)
  PROVE  /\ \A c \in rows' : crawl'[c] \in {"open", "ended"}
         /\ \A c \in Starts : crawl'[c] \in {"open", "ended"} => c \notin gone /\ crawl[c] \in {"open", "ended"}
<1>1. rows \subseteq Starts
  BY DEF AccountsTypeOK
<1>2. \A c \in Starts : crawl'[c] = IF c \in gone THEN "gone" ELSE crawl[c]
  BY DEF Cascade
<1>3. rows' = rows \ gone
  BY DEF Cascade
<1> QED BY <1>1, <1>2, <1>3 DEF RowsHaveParents

LEMMA ParentsHandling ==
  ASSUME IInv, RowsHaveParents, NEW r \in Req, Handling(r)
  PROVE  RowsHaveParents'
<1>0. /\ user \in [User -> {"none", "live", "deleting", "gone"}]
      /\ owner \in [Project -> User \cup {None}] /\ None \notin User
      /\ project \in [Project -> {"none", "live", "deleting", "gone"}]
  BY AccountsAssumption DEF IInv, AccountsTypeOK
<1>1. CASE \/ Auth(r) \/ Known(r) \/ FindProject(r) \/ Discard(r) \/ UpdateProject(r)
           \/ UserIsCrawling(r) \/ GetProjectViews(r)
  BY <1>1, ParentsAside DEF Auth, Known, FindProject, Discard, UpdateProject, UserIsCrawling,
                            GetProjectViews
<1>2. CASE UserSignup(r)
  <2>1. /\ UNCHANGED <<project, owner, crawl, rows>> /\ user' = [user EXCEPT ![TargetOf[r]] = "live"]
    BY <1>2 DEF UserSignup
  <2>2. \A u \in User : user'[u] \in {user[u], "live"}
    BY <1>0, <2>1
  <2>3. \A p \in Project : Exists(p) => owner[p] \in User
    BY <1>0 DEF IInv, Rows, Exists
  <2>4. \A p \in Project : Exists(p) <=> Exists(p)'
    BY <2>1 DEF Exists
  <2>5. \A p \in Project : Exists(p)' => user'[owner'[p]] \in {"live", "deleting"}
    BY <2>1, <2>2, <2>3, <2>4 DEF RowsHaveParents
  <2>6. \A c \in Starts : crawl'[c] \in {"open", "ended"} => Exists(TargetOf[c])'
    <3>1. \A c \in Starts : TargetOf[c] \in Project
      BY KindAt DEF Starts, Kinds
    <3> QED BY <2>1, <2>4, <3>1 DEF RowsHaveParents
  <2> QED BY <2>1, <2>5, <2>6 DEF RowsHaveParents
<1>3. CASE SaveProject(r)
  <2>1. pc[r] = "insert" /\ TargetOf[r] \in Project /\ as[r] \in User
    BY <1>3, KindAt, OnTheList DEF SaveProject, Kinds
  <2>2. CASE user[as[r]] = "gone"
    BY <1>3, <2>2, ParentsAside DEF SaveProject
  <2>3. CASE user[as[r]] # "gone"
    <3>1. /\ UNCHANGED <<user, crawl, rows>>
          /\ project' = [project EXCEPT ![TargetOf[r]] = "live"]
          /\ owner' = [owner EXCEPT ![TargetOf[r]] = as[r]]
      BY <1>3, <2>3 DEF SaveProject
    <3>2. user[as[r]] \in {"live", "deleting"}
      <4>1. user[as[r]] # "none"
        BY <1>0, <2>1 DEF IInv, SignedIn
      <4> QED BY <1>0, <2>1, <2>3, <4>1
    <3>3. \A p \in Project : p # TargetOf[r] => project'[p] = project[p] /\ owner'[p] = owner[p]
      BY <1>0, <3>1
    <3>4. project'[TargetOf[r]] = "live" /\ owner'[TargetOf[r]] = as[r]
      BY <1>0, <2>1, <3>1
    <3>5. \A p \in Project : Exists(p)' => user'[owner'[p]] \in {"live", "deleting"}
      BY <3>1, <3>2, <3>3, <3>4 DEF RowsHaveParents, Exists
    <3>6. \A c \in Starts : crawl'[c] \in {"open", "ended"} => Exists(TargetOf[c])'
      <4>1. \A c \in Starts : TargetOf[c] \in Project
        BY KindAt DEF Starts, Kinds
      <4>2. \A p \in Project : Exists(p) => Exists(p)'
        BY <3>3, <3>4 DEF Exists
      <4> QED BY <3>1, <4>1, <4>2 DEF RowsHaveParents
    <3> QED BY <3>1, <3>5, <3>6 DEF RowsHaveParents
  <2> QED BY <2>2, <2>3
<1> QED BY <1>1, <1>2, <1>3 DEF Handling

LEMMA ParentsCrawling ==
  ASSUME IInv, RowsHaveParents, NEW r \in Req, Crawling(r) \/ StoreRows(r)
  PROVE  RowsHaveParents'
<1>0. /\ crawl \in [Starts -> {"none", "open", "ended", "gone"}] /\ rows \subseteq Starts
      /\ UNCHANGED <<user, project, owner>>
  BY DEF IInv, AccountsTypeOK, Crawling, AddCrawler, SaveCrawl, OpenArchive, UpdateCrawl,
         StoreRows, DeleteCrawlDataIfUnreferenced, RemoveCrawler
<1>1. /\ \A p \in Project : Exists(p)' => user'[owner'[p]] \in {"live", "deleting"}
      /\ \A p : Exists(p) <=> Exists(p)'
  BY <1>0 DEF RowsHaveParents, Exists
<1>2. CASE AddCrawler(r) \/ OpenArchive(r) \/ RemoveCrawler(r)
  BY <1>2, ParentsAside DEF AddCrawler, OpenArchive, RemoveCrawler
<1>3. CASE SaveCrawl(r)
  <2>1. rows' = rows
    BY <1>3 DEF SaveCrawl
  <2>2. CASE Exists(TargetOf[r])
    <3>1. crawl' = [crawl EXCEPT ![r] = "open"]
      BY <1>3, <2>2 DEF SaveCrawl
    <3>2. r \in Starts
      BY <1>3, KindAt DEF SaveCrawl, Starts
    <3>3. crawl'[r] = "open" /\ \A c \in Starts : c # r => crawl'[c] = crawl[c]
      BY <1>0, <3>1, <3>2
    <3> QED BY <1>0, <1>1, <2>1, <2>2, <3>3 DEF RowsHaveParents
  <2>3. CASE ~Exists(TargetOf[r])
    BY <1>0, <1>3, <2>1, <2>3, ParentsAside DEF SaveCrawl
  <2> QED BY <2>2, <2>3
<1>4. CASE StoreRows(r)
  BY <1>0, <1>1, <1>4 DEF StoreRows, RowsHaveParents
<1>5. CASE UpdateCrawl(r)
  <2>1. crawl' = [crawl EXCEPT ![r] = IF @ = "open" THEN "ended" ELSE @] /\ rows' = rows
    BY <1>5 DEF UpdateCrawl
  <2>2. \A c \in Starts : crawl'[c] \in {"open", "ended"} <=> crawl[c] \in {"open", "ended"}
    BY <1>0, <2>1
  <2> QED BY <1>0, <1>1, <2>1, <2>2 DEF RowsHaveParents
<1>6. CASE DeleteCrawlDataIfUnreferenced(r)
  BY <1>0, <1>1, <1>6 DEF DeleteCrawlDataIfUnreferenced, RowsHaveParents
<1> QED BY <1>2, <1>3, <1>4, <1>5, <1>6 DEF Crawling

LEMMA ParentsDeletion ==
  ASSUME IInv, RowsHaveParents, NEW r \in Req, Deletion(r)
  PROVE  RowsHaveParents'
<1>0. /\ user \in [User -> {"none", "live", "deleting", "gone"}]
      /\ owner \in [Project -> User \cup {None}] /\ None \notin User
      /\ project \in [Project -> {"none", "live", "deleting", "gone"}] /\ AccountsTypeOK
      /\ \A c \in Starts : TargetOf[c] \in Project
      /\ \A p \in Project : Exists(p) => owner[p] \in User
  <2>1. \A p \in Project : Exists(p) => owner[p] # None
    BY DEF IInv, Rows, Exists
  <2>2. AccountsTypeOK /\ \A c \in Starts : TargetOf[c] \in Project
    BY KindAt DEF IInv, Starts, Kinds
  <2> QED BY <2>1, <2>2, AccountsAssumption DEF AccountsTypeOK
<1>1. CASE FindProjectsByUser(r) \/ FindCrawls(r) \/ DeleteArchive(r)
  BY <1>1, ParentsAside DEF FindProjectsByUser, FindCrawls, DeleteArchive
<1>2. CASE Disable(r)
  <2>1. UNCHANGED <<owner, crawl, rows>>
    BY <1>2 DEF Disable
  <2>2. /\ \A u \in User : user[u] \in {"live", "deleting"} => user'[u] \in {"live", "deleting"}
        /\ \A p \in Project : Exists(p) <=> Exists(p)'
    <3>1. CASE KindOf[r] = "delete"
      <4>1. user' = user
            /\ project' = [project EXCEPT ![TargetOf[r]] = IF @ = "live" THEN "deleting" ELSE @]
        BY <1>2, <3>1 DEF Disable
      <4> QED BY <1>0, <4>1 DEF Exists
    <3>2. CASE KindOf[r] # "delete"
      <4>1. project' = project
            /\ user' = [user EXCEPT ![as[r]] = IF @ = "live" THEN "deleting" ELSE @]
        BY <1>2, <3>2 DEF Disable
      <4> QED BY <1>0, <4>1 DEF Exists
    <3> QED BY <3>1, <3>2
  <2> QED BY <1>0, <2>1, <2>2 DEF RowsHaveParents
<1>3. CASE DeleteCrawlData(r)
  <2>1. rows' \subseteq rows /\ UNCHANGED <<user, project, owner, crawl>>
    BY <1>3 DEF DeleteCrawlData
  <2> QED BY <2>1 DEF RowsHaveParents, Exists
<1>4. CASE DeleteProjectCrawls(r)
  <2>1. UNCHANGED <<user, project, owner>> /\ Cascade(CrawlsOf(Current(r)))
    BY <1>4 DEF DeleteProjectCrawls
  <2> QED BY <1>0, <2>1, CascadeKeeps DEF RowsHaveParents, Exists
<1>5. CASE DeleteProject(r)
  <2>0. PICK p \in Project : p = Current(r)
    BY <1>5, OnTheList DEF DeleteProject, Deleting
  <2>1. /\ UNCHANGED <<user, owner>> /\ Cascade(CrawlsOf(p))
        /\ project' = [project EXCEPT ![p] = "gone"]
    BY <1>5, <2>0 DEF DeleteProject
  <2>2. \A q \in Project : q # p => (Exists(q) <=> Exists(q)')
    BY <1>0, <2>1 DEF Exists
  <2>3. ~Exists(p)'
    BY <1>0, <2>1 DEF Exists
  <2>4. \A c \in Starts : crawl'[c] \in {"open", "ended"} => crawl[c] \in {"open", "ended"} /\ TargetOf[c] # p
    BY <1>0, <2>1, CascadeKeeps DEF CrawlsOf
  <2>5. \A c \in Starts : crawl'[c] \in {"open", "ended"} => Exists(TargetOf[c])'
    BY <1>0, <2>2, <2>4 DEF RowsHaveParents
  <2>6. \A q \in Project : Exists(q)' => user'[owner'[q]] \in {"live", "deleting"}
    BY <2>1, <2>2, <2>3 DEF RowsHaveParents
  <2> QED BY <1>0, <2>1, <2>5, <2>6, CascadeKeeps DEF RowsHaveParents
<1>6. CASE DeleteUser(r)
  <2>0. PICK u \in User : u = as[r]
    BY <1>6, OnTheList DEF DeleteUser
  <2>1. /\ owner' = owner /\ user' = [user EXCEPT ![u] = "gone"]
        /\ project' = [p \in Project |-> IF p \in Of(u) THEN "gone" ELSE project[p]]
        /\ Cascade(UNION {CrawlsOf(p) : p \in Of(u)})
    BY <1>6, <2>0 DEF DeleteUser
  <2>2. \A q \in Project : Exists(q)' <=> Exists(q) /\ owner[q] # u
    BY <1>0, <2>1 DEF Exists, Of
  <2>3. \A c \in Starts : crawl'[c] \in {"open", "ended"}
          => crawl[c] \in {"open", "ended"} /\ TargetOf[c] \notin Of(u)
    BY <1>0, <2>1, CascadeKeeps DEF CrawlsOf
  <2>4. \A c \in Starts : crawl'[c] \in {"open", "ended"} => Exists(TargetOf[c])'
    <3> SUFFICES ASSUME NEW c \in Starts, crawl'[c] \in {"open", "ended"}
                 PROVE  Exists(TargetOf[c])'
      OBVIOUS
    <3>1. TargetOf[c] \in Project /\ Exists(TargetOf[c]) /\ TargetOf[c] \notin Of(u)
      BY <1>0, <2>3 DEF RowsHaveParents
    <3> QED BY <2>2, <3>1 DEF Of
  <2>5. \A v \in User : v # u => user'[v] = user[v]
    BY <1>0, <2>1
  <2>6. \A q \in Project : Exists(q)' => user'[owner'[q]] \in {"live", "deleting"}
    BY <1>0, <2>1, <2>2, <2>5 DEF RowsHaveParents
  <2> QED BY <1>0, <2>1, <2>4, <2>6, CascadeKeeps DEF RowsHaveParents
<1> QED BY <1>1, <1>2, <1>3, <1>4, <1>5, <1>6 DEF Deletion

LEMMA ParentsKept ==
  ASSUME IInv, RowsHaveParents, [AccountsNext]_accountsVars
  PROVE  RowsHaveParents'
<1>1. ASSUME NEW r \in Req, StatementFails(r) PROVE RowsHaveParents'
  BY <1>1, ParentsAside DEF StatementFails
<1>2. CASE Crash
  <2>1. UNCHANGED <<user, project, owner>> /\ Cascade({c \in Starts : crawl[c] = "open"})
    BY <1>2 DEF Crash
  <2>2. AccountsTypeOK
    BY DEF IInv
  <2> QED BY <2>1, <2>2, CascadeKeeps DEF RowsHaveParents, Exists
<1>3. CASE UNCHANGED accountsVars
  BY <1>3, ParentsAside DEF accountsVars
<1> QED BY <1>1, <1>2, <1>3, ParentsHandling, ParentsCrawling, ParentsDeletion DEF AccountsNext

LEMMA OwnersInitially == AccountsInit => OwnProject /\ RowsHaveParents
<1> SUFFICES ASSUME AccountsInit PROVE OwnProject /\ RowsHaveParents
  OBVIOUS
<1>1. OwnProject
  <2>1. \A r \in Req : pc[r] = IF KindOf[r] = "signup" THEN "known" ELSE "auth"
    BY DEF AccountsInit
  <2> QED BY <2>1 DEF OwnProject, Acting
<1>2. rows = {} /\ \A c \in Starts : crawl[c] = "none"
  BY DEF AccountsInit
<1>3. ASSUME NEW p \in Project, Exists(p) PROVE user[owner[p]] = "live"
  <2>1. Owned[p] # None
    BY <1>3 DEF AccountsInit, Exists
  <2>2. owner[p] = Owned[p] /\ Owned[p] \in User
    BY <2>1, AccountsAssumption DEF AccountsInit
  <2> QED BY <2>2 DEF AccountsInit
<1> QED BY <1>1, <1>2, <1>3 DEF RowsHaveParents

\* A step that keeps projects and their files is nobody's.
LEMMA NobodyActs ==
  ASSUME UNCHANGED <<project, archive, files>>
  PROVE  OwnersOnly
BY DEF OwnersOnly, UntouchedProject

\* A step of a request that touches one project only.
LEMMA ActsOnOne ==
  ASSUME NEW r \in Req, NEW p \in Project, pc'[r] # pc[r], as[r] = owner'[p], as[r] # None,
         \A q \in Project : q # p => project'[q] = project[q] /\ archive'[q] = archive[q],
         \/ files' = files
         \/ \E b \in BOOLEAN : \/ files' = files \ {ArchiveFile(p, b)}
                               \/ files' = files \cup {ArchiveFile(p, b)}
  PROVE  OwnersOnly
<1> SUFFICES ASSUME NEW q \in Project, q # p PROVE UntouchedProject(q)
  BY DEF OwnersOnly
<1>1. \A b \in BOOLEAN, d \in BOOLEAN : ArchiveFile(q, d) # ArchiveFile(p, b)
  BY DEF ArchiveFile
<1>2. \A d \in BOOLEAN : ArchiveFile(q, d) \in files' <=> ArchiveFile(q, d) \in files
  BY <1>1
<1> QED BY <1>2 DEF UntouchedProject

LEMMA OwnersOnlyStep ==
  ASSUME IInv, OwnProject, [AccountsNext]_accountsVars
  PROVE  OwnersOnly
<1>0. /\ as \in [Req -> User \cup {None}] /\ owner \in [Project -> User \cup {None}]
      /\ project \in [Project -> {"none", "live", "deleting", "gone"}]
      /\ archive \in [Project -> BOOLEAN] /\ None \notin User /\ FALSE \in BOOLEAN /\ TRUE \in BOOLEAN
  BY AccountsAssumption DEF IInv, AccountsTypeOK
<1>1. ASSUME NEW r \in Req, SaveProject(r) PROVE OwnersOnly
  <2>1. pc[r] = "insert" /\ TargetOf[r] \in Project /\ as[r] \in User /\ pc'[r] = "done"
    BY <1>1, KindAt, OnTheList, Moves DEF SaveProject, Kinds
  <2>2. archive' = archive /\ files' = files
    BY <1>1 DEF SaveProject
  <2>3. CASE user[as[r]] = "gone"
    BY <1>1, <2>3, NobodyActs DEF SaveProject
  <2>4. CASE user[as[r]] # "gone"
    <3>1. /\ project' = [project EXCEPT ![TargetOf[r]] = "live"]
          /\ owner' = [owner EXCEPT ![TargetOf[r]] = as[r]]
      BY <1>1, <2>4 DEF SaveProject
    <3>2. owner'[TargetOf[r]] = as[r] /\ \A q \in Project : q # TargetOf[r] => project'[q] = project[q]
      BY <1>0, <2>1, <3>1
    <3> QED BY <1>0, <2>1, <2>2, <3>2, ActsOnOne
  <2> QED BY <2>3, <2>4
<1>2. ASSUME NEW r \in Req, Acting(r) PROVE TargetOf[r] \in Project /\ owner[TargetOf[r]] = as[r] /\ as[r] # None
  <2>1. TargetOf[r] \in Project
    BY <1>2, KindAt DEF Acting, Kinds
  <2> QED BY <1>2, <2>1 DEF OwnProject
<1>3. ASSUME NEW r \in Req, Discard(r) PROVE OwnersOnly
  <2>1. pc[r] = "discard" /\ KindOf[r] = "edit" /\ pc'[r] = "update"
    BY <1>3, KindAt, Moves DEF Discard
  <2>2. /\ UNCHANGED <<project, owner, archive>>
        /\ files' = files \ {ArchiveFile(TargetOf[r], TRUE)}
    BY <1>3 DEF Discard
  <2>3. Acting(r)
    BY <2>1 DEF Acting
  <2> QED BY <1>0, <1>2, <2>1, <2>2, <2>3, ActsOnOne
<1>4. ASSUME NEW r \in Req, UpdateProject(r) PROVE OwnersOnly
  <2>1. pc[r] = "update" /\ KindOf[r] = "edit" /\ pc'[r] = "done"
    BY <1>4, KindAt, Moves DEF UpdateProject
  <2>2. Acting(r)
    BY <2>1 DEF Acting
  <2>3. /\ UNCHANGED <<project, owner, files>>
        /\ \A q \in Project : q # TargetOf[r] => archive'[q] = archive[q]
    BY <1>0, <1>4 DEF UpdateProject
  <2> QED BY <1>0, <1>2, <2>1, <2>2, <2>3, ActsOnOne
<1>5. ASSUME NEW r \in Req, OpenArchive(r) PROVE OwnersOnly
  <2>1. pc[r] = "open" /\ KindOf[r] = "start" /\ pc'[r] = "fetch"
    BY <1>5, KindAt, Moves DEF OpenArchive
  <2>2. /\ UNCHANGED <<project, owner, archive>>
        /\ files' = files \cup {ArchiveFile(TargetOf[r], TRUE)}
    BY <1>5 DEF OpenArchive
  <2>3. Acting(r)
    BY <2>1 DEF Acting
  <2> QED BY <1>0, <1>2, <2>1, <2>2, <2>3, ActsOnOne
<1>6. ASSUME NEW r \in Req, Disable(r) PROVE OwnersOnly
  <2>1. pc[r] = "disable" /\ UNCHANGED <<owner, archive, files>>
    BY <1>6 DEF Disable
  <2>2. CASE KindOf[r] # "delete"
    BY <1>6, <2>1, <2>2, NobodyActs DEF Disable
  <2>3. CASE KindOf[r] = "delete"
    <3>1. /\ project' = [project EXCEPT ![TargetOf[r]] = IF @ = "live" THEN "deleting" ELSE @]
          /\ Go(r, "crawls")
      BY <1>6, <2>3 DEF Disable
    <3>2. \A q \in Project : q # TargetOf[r] => project'[q] = project[q]
      BY <1>0, <3>1
    <3>3. Acting(r)
      BY <2>1, <2>3 DEF Acting
    <3>4. pc'[r] = "crawls"
      BY <3>1, Moves
    <3> QED BY <1>0, <1>2, <2>1, <3>2, <3>3, <3>4, ActsOnOne
  <2> QED BY <2>2, <2>3
<1>7. ASSUME NEW r \in Req, pc[r] \in Deleting PROVE Current(r) \in Project /\ owner[Current(r)] = as[r] /\ as[r] # None
  <2>1. Current(r) \in Project /\ Current(r) \in todo[r] /\ as[r] \in User
    BY <1>7, OnTheList DEF Deleting
  <2>2. CASE KindOf[r] = "delete"
    <3>1. Current(r) = TargetOf[r]
      BY <1>7, <2>1, <2>2 DEF IInv, Lists
    <3>2. Acting(r)
      BY <1>7, <2>2 DEF Acting, Deleting
    <3> QED BY <1>2, <3>1, <3>2
  <2>3. CASE KindOf[r] = "account"
    BY <1>0, <1>7, <2>1, <2>3 DEF IInv, Lists
  <2> QED BY <1>7, <2>2, <2>3, KindAt
<1>8. ASSUME NEW r \in Req, DeleteProject(r) PROVE OwnersOnly
  <2>1. pc[r] = "project" /\ pc'[r] = "file"
    BY <1>8, Moves DEF DeleteProject
  <2>2. PICK p \in Project : p = Current(r) /\ owner[p] = as[r] /\ as[r] # None
    BY <1>7, <2>1 DEF Deleting
  <2>3. UNCHANGED <<owner, archive, files>> /\ project' = [project EXCEPT ![p] = "gone"]
    BY <1>8, <2>2 DEF DeleteProject
  <2>4. \A q \in Project : q # p => project'[q] = project[q]
    BY <1>0, <2>3
  <2> QED BY <2>1, <2>2, <2>3, <2>4, ActsOnOne
<1>9. ASSUME NEW r \in Req, DeleteArchive(r) PROVE OwnersOnly
  <2>1. pc[r] = "file" /\ pc'[r] # "file"
    BY <1>9, Moves DEF DeleteArchive
  <2>2. PICK p \in Project : p = Current(r) /\ owner[p] = as[r] /\ as[r] # None
    BY <1>7, <2>1 DEF Deleting
  <2>3. PICK b \in BOOLEAN : b = (KindOf[r] = "delete")
    OBVIOUS
  <2>4. UNCHANGED <<project, owner, archive>> /\ files' = files \ {ArchiveFile(p, b)}
    BY <1>9, <2>2, <2>3 DEF DeleteArchive
  <2> QED BY <2>1, <2>2, <2>4, ActsOnOne
<1>10. ASSUME NEW r \in Req, DeleteUser(r) PROVE OwnersOnly
  <2>1. pc[r] = "user" /\ pc'[r] = "done" /\ as[r] \in User
    BY <1>10, Moves, OnTheList DEF DeleteUser
  <2>2. /\ UNCHANGED <<owner, archive, files>>
        /\ project' = [p \in Project |-> IF p \in Of(as[r]) THEN "gone" ELSE project[p]]
    BY <1>10 DEF DeleteUser
  <2>3. \A p \in Project : UntouchedProject(p) \/ owner'[p] = as[r]
    BY <2>2 DEF UntouchedProject, Of
  <2> QED BY <1>0, <2>1, <2>3 DEF OwnersOnly
<1>11. ASSUME NEW r \in Req, Handling(r) PROVE OwnersOnly
  <2>1. CASE \/ Auth(r) \/ Known(r) \/ UserSignup(r) \/ FindProject(r) \/ UserIsCrawling(r)
             \/ GetProjectViews(r)
    BY <2>1, NobodyActs DEF Auth, Known, UserSignup, FindProject, UserIsCrawling, GetProjectViews
  <2> QED BY <1>1, <1>3, <1>4, <1>11, <2>1 DEF Handling
<1>12. ASSUME NEW r \in Req, Crawling(r) \/ StoreRows(r) \/ StatementFails(r) PROVE OwnersOnly
  <2>1. CASE \/ AddCrawler(r) \/ SaveCrawl(r) \/ UpdateCrawl(r) \/ StoreRows(r)
             \/ DeleteCrawlDataIfUnreferenced(r) \/ RemoveCrawler(r) \/ StatementFails(r)
    BY <2>1, NobodyActs DEF AddCrawler, SaveCrawl, UpdateCrawl, StoreRows,
                            DeleteCrawlDataIfUnreferenced, RemoveCrawler, StatementFails
  <2> QED BY <1>5, <1>12, <2>1 DEF Crawling
<1>13. ASSUME NEW r \in Req, Deletion(r) PROVE OwnersOnly
  <2>1. CASE FindProjectsByUser(r) \/ FindCrawls(r) \/ DeleteCrawlData(r) \/ DeleteProjectCrawls(r)
    BY <2>1, NobodyActs DEF FindProjectsByUser, FindCrawls, DeleteCrawlData, DeleteProjectCrawls
  <2> QED BY <1>6, <1>8, <1>9, <1>10, <1>13, <2>1 DEF Deletion
<1>14. CASE Crash \/ UNCHANGED accountsVars
  BY <1>14, NobodyActs DEF Crash, accountsVars
<1> QED BY <1>11, <1>12, <1>13, <1>14 DEF AccountsNext

\* OInv holds in every state of a run.
THEOREM OwnershipInvariance == AccountsSpec => []OInv
<1>1. AccountsInit => OInv
  BY Initially, OwnersInitially DEF OInv
<1>2. OInv /\ [AccountsNext]_accountsVars => OInv'
  BY Kept, OwnProjectKept, ParentsKept DEF OInv
<1> QED BY <1>1, <1>2, PTL DEF AccountsSpec

\* A page report always has its crawl, a crawl its project and a project its
\* owner, whatever deletions, failing statements, crashes and crawls that go on
\* inserting come together (repository/project.go:166, services/user.go:159).
THEOREM NoOrphans == AccountsSpec => []RowsHaveParents
<1>1. OInv => RowsHaveParents
  BY DEF OInv
<1> QED BY <1>1, OwnershipInvariance, PTL

\* A project, its archive option and its files change only by a request whose
\* user owns the project at that moment, though the handler looked that up
\* several steps before, and the goroutine it left works on unobserved
\* (routes/project.go:270, routes/crawl.go:46, services/project.go:81).
THEOREM OwnersAct == AccountsSpec => [][OwnersOnly]_accountsVars
<1>1. OInv /\ [AccountsNext]_accountsVars => [OwnersOnly]_accountsVars
  BY OwnersOnlyStep DEF OInv
<1> QED BY <1>1, OwnershipInvariance, PTL DEF AccountsSpec

=============================================================================
