------------------------------ MODULE MCCrawler ------------------------------
(***************************************************************************)
(* Instances of Crawler for TLC: u1 is the project's URL, u2 is blocked by *)
(* robots.txt, u3 belongs to another host.                                 *)
(***************************************************************************)
EXTENDS Crawler

CONSTANTS u1, u2, u3, u4, u5

MCThree == {u1, u2, u3}
MCFive  == {u1, u2, u3, u4, u5}
=============================================================================
