------------------------------- MODULE TtlCache -------------------------------
(***************************************************************************)
(* What registry.WithCache promises the callers of Tags and Stat, whatever *)
(* store is behind it: an answer is either asked of the registry during    *)
(* the call, or was asked for earlier and put aside at most one ttl ago.   *)
(* The store may forget at any time.                                       *)
(***************************************************************************)
EXTENDS Integers

CONSTANTS Procs, Keys, Vals, Absent, TTLs

VARIABLES
    clock,
    remote,     \* what the registry would answer for a key, or Absent
    call,       \* per process: the key asked for, its ttl and the stage
    fetched,    \* per process: the value the registry just gave
    answer,     \* per process: what its last call returned
    known       \* every reading that was put aside, with its expiry

vars == << clock, remote, call, fetched, answer, known >>

Expiry(ttl) == IF ttl > 0 THEN clock + ttl ELSE 0

Fresh(exp) == exp = 0 \/ clock <= exp

NoAnswer(k) == [key |-> k, val |-> Absent, how |-> "none", at |-> 0]

Init == \A p \in Procs : call[p].stage = "done" /\ answer[p] = NoAnswer(call[p].key)

Tick == clock' = clock + 1 /\ UNCHANGED << remote, call, fetched, answer, known >>

Push(k) == /\ \E v \in Vals \cup {Absent} : remote' = [remote EXCEPT ![k] = v]
           /\ UNCHANGED << clock, call, fetched, answer, known >>

Ask(p) ==
    /\ \E k \in Keys, ttl \in TTLs :
          /\ call' = [call EXCEPT ![p] = [key |-> k, ttl |-> ttl, stage |-> "asked"]]
          /\ answer' = [answer EXCEPT ![p] = NoAnswer(k)]
    /\ UNCHANGED << clock, remote, fetched, known >>

Hit(p) ==
    /\ call[p].stage = "asked"
    /\ \E e \in known :
          /\ e.key = call[p].key
          /\ Fresh(e.exp)
          /\ answer' = [answer EXCEPT ![p] =
                [key |-> e.key, val |-> e.val, how |-> "hit", at |-> clock]]
    /\ call' = [call EXCEPT ![p].stage = "done"]
    /\ UNCHANGED << clock, remote, fetched, known >>

(* The registry knows the key, does not know it, or cannot be reached; only *)
(* the first is put aside.                                                  *)
Fetch(p) ==
    /\ call[p].stage = "asked"
    /\ remote[call[p].key] # Absent
    /\ fetched' = [fetched EXCEPT ![p] = remote[call[p].key]]
    /\ call' = [call EXCEPT ![p].stage = "fetched"]
    /\ UNCHANGED << clock, remote, answer, known >>

Refuse(p) ==
    /\ call[p].stage = "asked"
    /\ \E how \in {"missing", "failed"} :
          /\ how = "missing" => remote[call[p].key] = Absent
          /\ answer' = [answer EXCEPT ![p] =
                [key |-> call[p].key, val |-> Absent, how |-> how, at |-> clock]]
    /\ call' = [call EXCEPT ![p].stage = "done"]
    /\ UNCHANGED << clock, remote, fetched, known >>

Put(p) ==
    /\ call[p].stage = "fetched"
    /\ known' = known \cup {[key |-> call[p].key, val |-> fetched[p],
                             exp |-> Expiry(call[p].ttl)]}
    /\ answer' = [answer EXCEPT ![p] =
          [key |-> call[p].key, val |-> fetched[p], how |-> "fetched", at |-> clock]]
    /\ fetched' = [fetched EXCEPT ![p] = Absent]
    /\ call' = [call EXCEPT ![p].stage = "done"]
    /\ UNCHANGED << clock, remote >>

(* The caller is gone.                                                      *)
Stop(p) ==
    /\ call' = [call EXCEPT ![p].stage = "done"]
    /\ fetched' = [fetched EXCEPT ![p] = Absent]
    /\ UNCHANGED << clock, remote, answer, known >>

Next == \/ Tick
        \/ \E k \in Keys : Push(k)
        \/ \E p \in Procs : \/ Ask(p) \/ Hit(p) \/ Fetch(p) \/ Refuse(p) \/ Put(p)
                            \/ Stop(p)

Spec == Init /\ [][Next]_vars
=============================================================================
