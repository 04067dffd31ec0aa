----------------------------- MODULE ReleaseLog -----------------------------
(***************************************************************************)
(* What publication promises: each application has a log of releases that  *)
(* only ever grows by one well-formed, non-empty set of menus at its end.  *)
(* log[a][n] is release n of application a; its length is the application's*)
(* published_release.                                                      *)
(***************************************************************************)
EXTENDS MenuRules, Sequences

CONSTANT Apps

VARIABLE log

Init == log = [a \in Apps |-> <<>>]

(* The items are named by the state they lead to, not enumerated.          *)
Publish(a) ==
  LET n     == Len(log[a]) + 1
      items == log'[a][n]
  IN  /\ n \in DOMAIN log'[a]
      /\ items \subseteq MenuItem /\ items # {}
      /\ WellFormed(items)
      /\ log' = [log EXCEPT ![a] = Append(@, items)]

Next == \E a \in Apps : Publish(a)

Spec == Init /\ [][Next]_log
=============================================================================
