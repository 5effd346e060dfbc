------------------------------- MODULE FdOwner -------------------------------
(***************************************************************************)
(* What the fd transport promises about a native descriptor: the isolate   *)
(* that adopts it owns it, may hand it over to a reactor once, and exactly *)
(* one of the two closes it, exactly once.                                 *)
(***************************************************************************)
EXTENDS Naturals

CONSTANT Fd

VARIABLES owner, closes

Init ==
    /\ owner = [fd \in Fd |-> "main"]
    /\ closes = [fd \in Fd |-> 0]

\* A reactor takes the descriptor over.
HandOver(fd) ==
    /\ owner[fd] = "main"
    /\ owner' = [owner EXCEPT ![fd] = "reactor"]
    /\ UNCHANGED closes

\* The owners of the descriptors S close them.
Release(S) ==
    /\ S # {} /\ \A fd \in S : owner[fd] # "nobody"
    /\ owner' = [fd \in Fd |-> IF fd \in S THEN "nobody" ELSE owner[fd]]
    /\ closes' = [fd \in Fd |-> IF fd \in S THEN closes[fd] + 1 ELSE closes[fd]]

Next == (\E fd \in Fd : HandOver(fd)) \/ (\E S \in SUBSET Fd : Release(S))

Spec == Init /\ [][Next]_<<owner, closes>>
=============================================================================
