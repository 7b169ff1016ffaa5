------------------------------ MODULE TopoOrder ------------------------------
(***************************************************************************)
(* What topoSort promises: it lists the ports one by one, a port only      *)
(* after the port that feeds it, and reports a cycle only when no port     *)
(* left could be listed next.                                              *)
(***************************************************************************)
EXTENDS Ports

VARIABLES ports, out, verdict

Idx == DOMAIN ports

Listed == {out[i] : i \in DOMAIN out}

Listable(p) == /\ p \in Idx \ Listed
               /\ \A u \in Idx : Feeds(ports, u, p) => u \in Listed

Init == /\ ports \in Configs
        /\ out = << >>
        /\ verdict = "sorting"

List(p) == /\ verdict = "sorting"
           /\ Listable(p)
           /\ out' = Append(out, p)
           /\ UNCHANGED << ports, verdict >>

Succeed == /\ verdict = "sorting"
           /\ Listed = Idx
           /\ verdict' = "sorted"
           /\ UNCHANGED << ports, out >>

ReportCycle == /\ verdict = "sorting"
               /\ Listed # Idx
               /\ \A p \in Idx : ~Listable(p)
               /\ verdict' = "cycle"
               /\ UNCHANGED << ports, out >>

Next == (\E p \in Idx : List(p)) \/ Succeed \/ ReportCycle

vars == << ports, out, verdict >>

Spec == Init /\ [][Next]_vars
=============================================================================
