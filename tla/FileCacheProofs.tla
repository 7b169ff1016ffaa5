--------------------------- MODULE FileCacheProofs ---------------------------
(***************************************************************************)
(* Any number of processes over one cache directory: nothing is served     *)
(* that was not put aside within its ttl.                                  *)
(***************************************************************************)
EXTENDS FileCache, TLAPS

LEMMA NoEntryType == NoEntry \in Entry
  BY CacheAssumption DEF NoEntry, Entry

LEMMA Expiries ==
    ASSUME CacheTypeOK, NEW t \in TTLs
    PROVE  Expiry(t) \in Nat
  BY CacheAssumption DEF Expiry, CacheTypeOK

(* A call changes its stage and nothing else.                                *)
Stage(p, s) == call' = [call EXCEPT ![p].stage = s]

LEMMA StageKept ==
    ASSUME CacheTypeOK, NEW p \in Procs, NEW s \in {"asked", "fetched", "done"}, Stage(p, s)
    PROVE  /\ call' \in [Procs -> [key : Keys, ttl : TTLs, stage : {"asked", "fetched", "done"}]]
           /\ \A q \in Procs : call'[q].key = call[q].key
           /\ \A q \in Procs : q # p => call'[q] = call[q]
           /\ call'[p].stage = s
  <1>1. call \in [Procs -> [key : Keys, ttl : TTLs, stage : {"asked", "fetched", "done"}]]
    BY DEF CacheTypeOK
  <1>2. call' = [call EXCEPT ![p] = [call[p] EXCEPT !.stage = s]]
    BY <1>1 DEF Stage
  <1>3. [call[p] EXCEPT !.stage = s] \in [key : Keys, ttl : TTLs, stage : {"asked", "fetched", "done"}]
    BY <1>1
  <1>4. [call[p] EXCEPT !.stage = s].key = call[p].key /\ [call[p] EXCEPT !.stage = s].stage = s
    BY <1>1
  <1>5. QED
    BY <1>1, <1>2, <1>3, <1>4

LEMMA AnswerType ==
    ASSUME CacheTypeOK, NEW p \in Procs, NEW v \in Vals \cup {Absent},
           NEW how \in {"none", "hit", "fetched", "missing", "failed"}, NEW at \in Nat,
           answer' = [answer EXCEPT ![p] =
                        [key |-> call[p].key, val |-> v, how |-> how, at |-> at]]
    PROVE  answer' \in [Procs -> Answer]
  BY DEF CacheTypeOK, Answer

LEMMA CacheInvInit == CacheInit => CacheInv
  <1> SUFFICES ASSUME CacheInit PROVE CacheInv
    OBVIOUS
  <1>1. file \in [Keys -> Entry \cup {None}] /\ \A k \in Keys : file[k] # None => file[k] \in Entry
    BY CacheAssumption DEF CacheInit, Entry
  <1>2. known \subseteq [key : Keys, val : Vals \cup {Absent}, exp : Nat]
    BY <1>1 DEF CacheInit, Reading, Entry
  <1>3. CacheTypeOK
    BY <1>1, <1>2, NoEntryType, CacheAssumption DEF CacheInit, CacheTypeOK, Answer, NoAnswer
  <1>4. Kept
    <2>1. \A k \in Keys : file[k] # None => file[k].val # Absent
      BY CacheAssumption DEF CacheInit
    <2>2. \A e \in known : e.val # Absent
      BY <2>1 DEF CacheInit, Reading
    <2>3. QED
      BY <1>1, <2>2, CacheAssumption DEF CacheInit, Kept, Entry
  <1>5. Staged /\ GoneSeen /\ BoundedReuse /\ MissingIsFresh
    BY DEF CacheInit, Staged, GoneSeen, BoundedReuse, MissingIsFresh, NoAnswer
  <1>6. QED
    BY <1>3, <1>4, <1>5 DEF CacheInv

(* Steps of a process up to its answer.                                      *)
LEMMA CacheInvBegin ==
    ASSUME CacheInv, NEW p \in Procs, Begin(p)
    PROVE  CacheInv'
  <1> USE DEF CacheInv, Begin, world
  <1>1. CacheTypeOK'
    BY CacheAssumption DEF CacheTypeOK, Answer, NoAnswer
  <1>2. Kept'
    BY DEF CacheTypeOK, Kept
  <1>3. Staged'
    BY DEF CacheTypeOK, Staged
  <1>4. GoneSeen'
    <2> SUFFICES ASSUME NEW q \in Procs, pc'[q] # "idle", remote[call'[q].key] = Absent
                 PROVE  gone'[q]
      BY DEF GoneSeen
    <2>1. CASE q = p
      <3>1. PICK k \in Asked : call'[p].key = k /\ gone'[p] = (remote[k] = Absent)
        BY DEF CacheTypeOK
      <3>2. QED
        BY <2>1, <3>1
    <2>2. CASE q # p
      BY <2>2 DEF CacheTypeOK, GoneSeen
    <2>3. QED
      BY <2>1, <2>2
  <1>5. BoundedReuse' /\ MissingIsFresh'
    BY DEF CacheTypeOK, BoundedReuse, MissingIsFresh, NoAnswer
  <1>6. QED
    BY <1>1, <1>2, <1>3, <1>4, <1>5

LEMMA CacheInvRead ==
    ASSUME CacheInv, NEW p \in Procs, ReadFile(p)
    PROVE  CacheInv'
  <1> USE DEF CacheInv, ReadFile, world
  <1>1. CacheTypeOK'
    BY DEF CacheTypeOK
  <1>2. Kept'
    BY DEF CacheTypeOK, Kept
  <1>3. Staged' /\ GoneSeen'
    BY DEF CacheTypeOK, Staged, GoneSeen
  <1>4. BoundedReuse' /\ MissingIsFresh'
    BY DEF CacheTypeOK, BoundedReuse, MissingIsFresh
  <1>5. QED
    BY <1>1, <1>2, <1>3, <1>4

(* The entry it holds was put aside for its key, and is still fresh.         *)
LEMMA CacheInvCheck ==
    ASSUME CacheInv, NEW p \in Procs, Check(p)
    PROVE  CacheInv'
  <1> USE DEF CacheInv, Check, Upgraded, world
  <1>1. CacheTypeOK'
    <2>1. buf' \in [Procs -> Entry]
      BY NoEntryType DEF CacheTypeOK, Entry
    <2>2. answer' \in [Procs -> Answer]
      BY AnswerType DEF CacheTypeOK, Entry
    <2>3. QED
      BY <2>1, <2>2, StageKept DEF CacheTypeOK, Stage
  <1>2. Kept'
    BY DEF CacheTypeOK, Kept, Reading, Entry
  <1>3. Staged' /\ GoneSeen'
    BY DEF CacheTypeOK, Staged, GoneSeen
  <1>4. BoundedReuse'
    <2>1. Reading(call[p].key, buf[p]) \in known
      BY DEF Kept
    <2>2. buf[p].exp = 0 \/ clock <= buf[p].exp
      BY DEF Expired, Past, CacheTypeOK, Entry
    <2>3. QED
      BY <2>1, <2>2 DEF CacheTypeOK, BoundedReuse, Reading
  <1>5. MissingIsFresh'
    <2>1. buf[p].val # Absent
      BY DEF Kept, Reading
    <2>2. QED
      BY <2>1 DEF CacheTypeOK, MissingIsFresh
  <1>6. QED
    BY <1>1, <1>2, <1>3, <1>4, <1>5

LEMMA CacheInvMiss ==
    ASSUME CacheInv, NEW p \in Procs, CheckExpired(p) \/ Evict(p)
    PROVE  CacheInv'
  <1> USE DEF CacheInv, CheckExpired, Evict, Unlink, Touch, world
  <1>0. /\ file' \in [Keys -> Entry \cup {None, Torn}]
        /\ \A k \in Keys : file'[k] = file[k] \/ file'[k] = None
        /\ linked' \in [Procs -> BOOLEAN]
    BY ZenonT(60) DEF CacheTypeOK
  <1>1. CacheTypeOK'
    <2>1. CASE CheckExpired(p)
      BY <2>1 DEF CacheTypeOK
    <2>2. CASE Evict(p)
      <3>1. buf' \in [Procs -> Entry] /\ pc' \in [Procs -> {"idle", "read", "check", "evict",
                                                "fetch", "set", "open", "write"}]
        BY <2>2, NoEntryType DEF CacheTypeOK
      <3>2. QED
        BY <1>0, <2>2, <3>1 DEF CacheTypeOK
    <2>3. QED
      BY <2>1, <2>2
  <1>2. Kept'
    <2>1. \A k \in Keys : file'[k] \in Entry => Reading(k, file'[k]) \in known
      BY <1>0, CacheAssumption DEF Kept, Entry
    <2>2. QED
      BY <2>1 DEF CacheTypeOK, Kept
  <1>3. Staged' /\ GoneSeen'
    BY DEF CacheTypeOK, Staged, GoneSeen
  <1>4. BoundedReuse' /\ MissingIsFresh'
    BY DEF CacheTypeOK, BoundedReuse, MissingIsFresh
  <1>5. QED
    BY <1>1, <1>2, <1>3, <1>4

LEMMA CacheInvFetch ==
    ASSUME CacheInv, NEW p \in Procs, Fetch(p) \/ Refuse(p)
    PROVE  CacheInv'
  <1> USE DEF CacheInv, Fetch, Refuse, Found, NotExist, world
  <1>1. CacheTypeOK'
    <2>1. CASE Fetch(p)
      BY <2>1, StageKept DEF CacheTypeOK, Stage
    <2>2. CASE Refuse(p)
      <3>1. answer' \in [Procs -> Answer]
        BY <2>2, AnswerType DEF CacheTypeOK
      <3>2. QED
        BY <2>2, <3>1, StageKept DEF CacheTypeOK, Stage
    <2>3. QED
      BY <2>1, <2>2
  <1>2. Kept'
    BY DEF CacheTypeOK, Kept
  <1>3. Staged' /\ GoneSeen'
    <2>1. Staged'
      BY SMTT(30) DEF CacheTypeOK, Staged
    <2>2. GoneSeen'
      <3>1. gone' = gone /\ remote' = remote /\ GoneSeen
        OBVIOUS
      <3>2. \A q \in Procs : call'[q].key = call[q].key
        BY DEF CacheTypeOK
      <3>3. \A q \in Procs : pc'[q] # "idle" => pc[q] # "idle"
        BY DEF CacheTypeOK
      <3>4. QED
        BY <3>1, <3>2, <3>3 DEF GoneSeen
    <2>3. QED
      BY <2>1, <2>2
  <1>4. BoundedReuse'
    <2>1. \A q \in Procs : answer'[q].how = "hit" => answer'[q] = answer[q]
      BY DEF CacheTypeOK
    <2>2. QED
      BY <2>1 DEF CacheTypeOK, BoundedReuse
  <1>5. MissingIsFresh'
    <2>1. CASE Fetch(p)
      BY <2>1 DEF CacheTypeOK, MissingIsFresh
    <2>2. CASE Refuse(p)
      <3>1. PICK how \in {"missing", "failed"} :
              /\ how = "missing" => remote[call[p].key] = Absent
              /\ answer' = [answer EXCEPT ![p] = [key |-> call[p].key, val |-> Absent,
                                                 how |-> how, at |-> clock]]
        BY <2>2
      <3>2. pc[p] # "idle" /\ gone' = gone
        BY <2>2
      <3>3. answer'[p].how = "missing" => gone[p]
        BY <3>1, <3>2 DEF CacheTypeOK, GoneSeen
      <3>4. answer'[p].how \in {"missing", "failed"} /\ \A q \in Procs : q # p => answer'[q] = answer[q]
        BY <3>1 DEF CacheTypeOK
      <3>5. QED
        BY <3>2, <3>3, <3>4 DEF MissingIsFresh
    <2>3. QED
      BY <2>1, <2>2
  <1>6. QED
    BY <1>1, <1>2, <1>3, <1>4, <1>5

LEMMA CacheInvStamp ==
    ASSUME CacheInv, NEW p \in Procs, Stamp(p)
    PROVE  CacheInv'
  <1> DEFINE e == [keyed |-> TRUE, val |-> fetched[p], exp |-> Expiry(call[p].ttl)]
  <1>1. fetched[p] \in Vals /\ call[p].ttl \in TTLs /\ call[p].key \in Keys
    BY DEF CacheInv, CacheTypeOK, Staged, Stamp
  <1>2. Expiry(call[p].ttl) \in Nat
    BY <1>1, Expiries DEF CacheInv
  <1>3. e \in Entry /\ Reading(call[p].key, e) \in [key : Keys, val : Vals \cup {Absent}, exp : Nat]
    BY <1>1, <1>2 DEF Entry, Reading
  <1>4. /\ buf' = [buf EXCEPT ![p] = e] /\ known' = known \cup {Reading(call[p].key, e)}
        /\ pc[p] = "set" /\ pc' = [pc EXCEPT ![p] = "open"]
    BY DEF Stamp
  <1> USE DEF CacheInv
  <1> HIDE DEF e
  <1>5. CacheTypeOK'
    <2>1. answer' \in [Procs -> Answer]
      BY <1>1, AnswerType DEF Stamp, CacheTypeOK
    <2>2. call' \in [Procs -> [key : Keys, ttl : TTLs, stage : {"asked", "fetched", "done"}]]
      BY StageKept DEF Stamp, Stage
    <2>3. buf' \in [Procs -> Entry] /\ known' \subseteq [key : Keys, val : Vals \cup {Absent}, exp : Nat]
      BY <1>3, <1>4 DEF CacheTypeOK
    <2>4. pc' \in [Procs -> {"idle", "read", "check", "evict", "fetch", "set", "open", "write"}]
      BY <1>4 DEF CacheTypeOK
    <2>5. fetched' \in [Procs -> Vals \cup {Absent}] /\ UNCHANGED << world, file, linked, gone >>
      BY DEF Stamp, CacheTypeOK
    <2>6. QED
      BY <2>1, <2>2, <2>3, <2>4, <2>5 DEF world, CacheTypeOK
  <1>6. Kept'
    <2>1. \A d \in known' : d.val # Absent
      BY <1>1, <1>4, CacheAssumption DEF Kept, Reading, e
    <2>2. known \subseteq known' /\ \A k \in Keys : file[k] \in Entry => Reading(k, file[k]) \in known
      BY <1>4 DEF Kept
    <2>3. ASSUME NEW q \in Procs, pc'[q] \in {"check", "open", "write"}
          PROVE  Reading(call'[q].key, buf'[q]) \in known'
      <3>1. call'[q].key = call[q].key
        BY DEF Stamp, CacheTypeOK
      <3>2. CASE q = p
        BY <1>4, <3>1, <3>2 DEF CacheTypeOK
      <3>3. CASE q # p
        <4>1. pc'[q] = pc[q] /\ buf'[q] = buf[q]
          BY <1>4, <3>3 DEF CacheTypeOK
        <4>2. Reading(call[q].key, buf[q]) \in known
          BY <2>3, <4>1 DEF Kept
        <4>3. QED
          BY <2>2, <3>1, <4>1, <4>2
      <3>4. QED
        BY <3>2, <3>3
    <2>4. file' = file
      BY DEF Stamp
    <2>5. QED
      BY <2>1, <2>2, <2>3, <2>4 DEF Kept
  <1>7. Staged' /\ GoneSeen'
    BY DEF Stamp, world, CacheTypeOK, Staged, GoneSeen
  <1>8. BoundedReuse' /\ MissingIsFresh'
    BY <1>1, <1>4, CacheAssumption DEF Stamp, CacheTypeOK, BoundedReuse, MissingIsFresh
  <1>9. QED
    BY <1>5, <1>6, <1>7, <1>8

(* ... and those that change files, or end.                                  *)
LEMMA CacheInvWrite ==
    ASSUME CacheInv, NEW p \in Procs, OpenFile(p) \/ WriteFile(p) \/ GiveUp(p)
    PROVE  CacheInv'
  <1> USE DEF CacheInv
  <1>1. CacheTypeOK'
    <2>1. CASE OpenFile(p)
      BY <2>1 DEF OpenFile, Touch, world, CacheTypeOK
    <2>2. CASE WriteFile(p)
      BY <2>2, NoEntryType DEF WriteFile, Touch, world, CacheTypeOK
    <2>3. CASE GiveUp(p)
      BY <2>3, NoEntryType, StageKept DEF GiveUp, Stage, world, CacheTypeOK
    <2>4. QED
      BY <2>1, <2>2, <2>3
  <1>2. Kept'
    <2>1. CASE OpenFile(p)
      BY <2>1, CacheAssumption DEF OpenFile, CacheTypeOK, Kept, Entry
    <2>2. CASE WriteFile(p)
      <3>1. Reading(call[p].key, buf[p]) \in known
        BY <2>2 DEF WriteFile, Kept
      <3>2. \A k \in Keys : \/ file'[k] = file[k]
                            \/ file'[k] = Torn
                            \/ k = call[p].key /\ file'[k] = buf[p]
        BY <2>2 DEF WriteFile, CacheTypeOK
      <3>3. \A k \in Keys : file'[k] \in Entry => Reading(k, file'[k]) \in known
        BY <3>1, <3>2, CacheAssumption DEF Kept, Entry
      <3>4. QED
        BY <2>2, <3>3 DEF WriteFile, CacheTypeOK, Kept
    <2>3. CASE GiveUp(p)
      BY <2>3 DEF GiveUp, CacheTypeOK, Kept
    <2>4. QED
      BY <2>1, <2>2, <2>3
  <1>3. Staged' /\ GoneSeen'
    BY DEF OpenFile, WriteFile, GiveUp, world, CacheTypeOK, Staged, GoneSeen
  <1>4. BoundedReuse' /\ MissingIsFresh'
    BY DEF OpenFile, WriteFile, GiveUp, CacheTypeOK, BoundedReuse, MissingIsFresh
  <1>5. QED
    BY <1>1, <1>2, <1>3, <1>4
-----------------------------------------------------------------------------
(* `cache` commands only take files away;  time and the registry touch none.  *)
LEMMA CacheInvCommand ==
    ASSUME CacheInv, Command
    PROVE  CacheInv'
  <1>1. /\ UNCHANGED << clock, remote, pushes, pc, call, buf, answer, fetched, gone, known >>
        /\ file' \in [Keys -> Entry \cup {None, Torn}]
        /\ \A k \in Keys : file'[k] = file[k] \/ file'[k] = None
        /\ linked' \in [Procs -> BOOLEAN]
    <2>1. ASSUME NEW k \in Keys, CmdRemove(k)
          PROVE  /\ UNCHANGED << clock, remote, pushes, pc, call, buf, answer, fetched, gone, known >>
                 /\ file' \in [Keys -> Entry \cup {None, Torn}]
                 /\ \A i \in Keys : file'[i] = file[i] \/ file'[i] = None
                 /\ linked' \in [Procs -> BOOLEAN]
      BY <2>1 DEF CmdRemove, Unlink, world, CacheInv, CacheTypeOK
    <2>2. ASSUME UNCHANGED << world, file, procs >>
          PROVE  /\ UNCHANGED << clock, remote, pushes, pc, call, buf, answer, fetched, gone, known >>
                 /\ file' \in [Keys -> Entry \cup {None, Torn}]
                 /\ \A i \in Keys : file'[i] = file[i] \/ file'[i] = None
                 /\ linked' \in [Procs -> BOOLEAN]
      BY <2>2 DEF world, procs, CacheInv, CacheTypeOK
    <2>3. QED
      BY <2>1, <2>2 DEF Command, CmdStart, CmdRead, CmdListed, CmdDone, CmdExit
  <1>2. CacheTypeOK'
    BY <1>1 DEF CacheInv, CacheTypeOK
  <1>3. Kept'
    <2>1. \A k \in Keys : file'[k] \in Entry => Reading(k, file'[k]) \in known
      BY <1>1, CacheAssumption DEF CacheInv, Kept, Entry
    <2>2. QED
      BY <1>1, <2>1 DEF CacheInv, Kept
  <1>4. Staged' /\ GoneSeen' /\ BoundedReuse' /\ MissingIsFresh'
    BY <1>1 DEF CacheInv, Staged, GoneSeen, BoundedReuse, MissingIsFresh
  <1>5. QED
    BY <1>2, <1>3, <1>4 DEF CacheInv

LEMMA CacheInvWorld ==
    ASSUME CacheInv, Tick \/ \E k \in Keys : Push(k)
    PROVE  CacheInv'
  <1>1. CASE Tick
    <2>1. UNCHANGED << remote, pushes, file, pc, call, buf, linked, answer, fetched, gone, known >>
      BY <1>1 DEF Tick, procs
    <2>2. clock' \in Nat
      BY <1>1 DEF Tick, CacheInv, CacheTypeOK
    <2>3. CacheTypeOK'
      BY <2>1, <2>2 DEF CacheInv, CacheTypeOK
    <2>4. Kept' /\ Staged' /\ GoneSeen' /\ BoundedReuse' /\ MissingIsFresh'
      BY <2>1 DEF CacheInv, Kept, Staged, GoneSeen, BoundedReuse, MissingIsFresh
    <2>5. QED
      BY <2>3, <2>4 DEF CacheInv
  <1>2. ASSUME NEW k \in Keys, Push(k) PROVE CacheInv'
    <2>1. PICK v \in Vals \cup {Absent} :
            /\ remote' = [remote EXCEPT ![k] = v]
            /\ gone' = [p \in Procs |-> gone[p] \/ (call[p].key = k /\ v = Absent)]
      BY <1>2 DEF Push
    <2>2. UNCHANGED << clock, file, pc, call, buf, linked, answer, fetched, known >>
      BY <1>2 DEF Push
    <2>3. CacheTypeOK'
      BY <1>2, <2>1, <2>2, CacheAssumption DEF Push, CacheInv, CacheTypeOK
    <2>4. Kept' /\ Staged' /\ BoundedReuse'
      BY <2>2 DEF CacheInv, Kept, Staged, BoundedReuse
    <2>5. \A p \in Procs : gone[p] => gone'[p]
      BY <2>1
    <2>6. MissingIsFresh'
      BY <2>2, <2>5 DEF CacheInv, MissingIsFresh
    <2>7. GoneSeen'
      <3> SUFFICES ASSUME NEW p \in Procs, pc[p] # "idle", remote'[call[p].key] = Absent
                   PROVE  gone'[p]
        BY <2>2 DEF GoneSeen
      <3>1. CASE call[p].key = k
        BY <2>1, <3>1 DEF CacheInv, CacheTypeOK
      <3>2. CASE call[p].key # k
        BY <2>1, <2>5, <3>2 DEF CacheInv, CacheTypeOK, GoneSeen
      <3>3. QED
        BY <3>1, <3>2
    <2>8. QED
      BY <2>3, <2>4, <2>6, <2>7 DEF CacheInv
  <1>3. QED
    BY <1>1, <1>2

LEMMA CacheInvStep ==
    ASSUME CacheInv, [CacheNext]_cacheVars
    PROVE  CacheInv'
  <1>1. CASE \E p \in Procs : Begin(p) \/ Lookup(p) \/ GiveUp(p)
    BY <1>1, CacheInvBegin, CacheInvRead, CacheInvCheck, CacheInvMiss, CacheInvFetch,
       CacheInvStamp, CacheInvWrite DEF Lookup
  <1>2. CASE Command
    BY <1>2, CacheInvCommand
  <1>3. CASE Tick \/ \E k \in Keys : Push(k)
    BY <1>3, CacheInvWorld
  <1>4. CASE UNCHANGED cacheVars
    BY <1>4 DEF cacheVars, CacheInv, CacheTypeOK, Kept, Staged, GoneSeen, BoundedReuse,
                MissingIsFresh
  <1>5. QED
    BY <1>1, <1>2, <1>3, <1>4 DEF CacheNext
-----------------------------------------------------------------------------
(* Every file and every buffer holds a reading that was put aside.           *)
THEOREM CacheInvariant == CacheSpec => []CacheInv
  <1>1. CacheInv /\ [CacheNext]_cacheVars => CacheInv'
    BY CacheInvStep
  <1>2. QED
    BY <1>1, CacheInvInit, PTL DEF CacheSpec

(* No answer from the cache is older than its ttl, for any number of         *)
(* processes, keys and ttls, torn files and crashes included.                *)
THEOREM CacheBoundedReuse == CacheSpec => []BoundedReuse
  <1>1. CacheInv => BoundedReuse
    BY DEF CacheInv
  <1>2. QED
    BY <1>1, CacheInvariant, PTL

(* An image that is there throughout a call is not reported missing, by the   *)
(* registry or out of the cache.                                             *)
THEOREM CacheMissingIsFresh == CacheSpec => []MissingIsFresh
  <1>1. CacheInv => MissingIsFresh
    BY DEF CacheInv
  <1>2. QED
    BY <1>1, CacheInvariant, PTL

(* The shared directory implements the abstract cache: callers cannot tell   *)
(* it from a set of readings with expiry dates.                              *)
THEOREM CacheRefines == CacheSpec => RefinesTtlCache
  <1> USE DEF Promise!vars
  <1>1. CacheInit => Promise!Init
    BY DEF CacheInit, Promise!Init, NoAnswer, Promise!NoAnswer
  <1>2. CacheInv /\ [CacheNext]_cacheVars => [Promise!Next]_Promise!vars
    <2> SUFFICES ASSUME CacheInv, [CacheNext]_cacheVars
                 PROVE  [Promise!Next]_Promise!vars
      OBVIOUS
    <2>1. ASSUME NEW p \in Procs, Begin(p) PROVE Promise!Ask(p)
      BY <2>1, CacheAssumption DEF Begin, world, Promise!Ask, NoAnswer, Promise!NoAnswer
    <2>2. ASSUME NEW p \in Procs, Check(p) PROVE Promise!Hit(p)
      <3> DEFINE e == Reading(call[p].key, buf[p])
      <3>1. call[p].stage = "asked" /\ e \in known /\ e.key = call[p].key /\ e.val = buf[p].val
        BY <2>2 DEF Check, CacheInv, Staged, Kept, Reading
      <3>2. Promise!Fresh(e.exp)
        BY <2>2 DEF Check, Expired, Past, Promise!Fresh, Reading, CacheInv, CacheTypeOK, Entry
      <3>3. QED
        BY <2>2, <3>1, <3>2 DEF Check, world, Promise!Hit
    <2>3. ASSUME NEW p \in Procs, Fetch(p) PROVE Promise!Fetch(p)
      BY <2>3 DEF Fetch, Found, NotExist, world, Promise!Fetch, CacheInv, Staged
    <2>4. ASSUME NEW p \in Procs, Refuse(p) PROVE Promise!Refuse(p)
      BY <2>4 DEF Refuse, NotExist, world, Promise!Refuse, CacheInv, Staged
    <2>5. ASSUME NEW p \in Procs, Stamp(p) PROVE Promise!Put(p)
      BY <2>5 DEF Stamp, world, Promise!Put, CacheInv, Staged, Reading, Expiry, Promise!Expiry
    <2>6. ASSUME NEW p \in Procs, GiveUp(p) PROVE Promise!Stop(p)
      BY <2>6 DEF GiveUp, world, Promise!Stop
    <2>7. ASSUME NEW p \in Procs,
                 ReadFile(p) \/ CheckExpired(p) \/ Evict(p) \/ OpenFile(p) \/ WriteFile(p)
          PROVE  UNCHANGED Promise!vars
      BY <2>7 DEF ReadFile, CheckExpired, Evict, OpenFile, WriteFile, world
    <2>8. CASE Command
      BY <2>8 DEF Command, CmdStart, CmdRead, CmdListed, CmdRemove, CmdDone, CmdExit,
                  world, procs
    <2>9. ASSUME Tick PROVE Promise!Tick
      BY <2>9 DEF Tick, procs, Promise!Tick
    <2>10. ASSUME NEW k \in Keys, Push(k) PROVE Promise!Push(k)
      BY <2>10 DEF Push, Promise!Push
    <2>11. CASE UNCHANGED cacheVars
      BY <2>11 DEF cacheVars
    <2>12. QED
      BY <2>1, <2>2, <2>3, <2>4, <2>5, <2>6, <2>7, <2>8, <2>9, <2>10, <2>11
         DEF CacheNext, Lookup, Promise!Next
  <1>3. QED
    BY <1>1, <1>2, CacheInvariant, PTL DEF CacheSpec, Promise!Spec, RefinesTtlCache
-----------------------------------------------------------------------------
(* The `cache` commands.                                                     *)
CmdRecord == [op : {"ls", "rm", "all"}, repos : SUBSET Repos,
              stage : {"idle", "read", "remove", "done"}, since : Nat,
              names : SUBSET Keys, found : SUBSET FoundRow, shown : SUBSET FoundRow,
              targets : SUBSET Keys, before : SUBSET Keys, touched : SUBSET Keys]

LEMMA CmdInvInit == CacheInit => CmdInv
  <1> SUFFICES ASSUME CacheInit PROVE CmdInv
    OBVIOUS
  <1>1. cmd = CmdIdle
    BY DEF CacheInit
  <1>2. /\ CmdIdle \in CmdRecord /\ CmdIdle.stage = "idle" /\ CmdIdle.names = {}
        /\ CmdIdle.found = {} /\ CmdIdle.targets = {}
    BY DEF CmdIdle, CmdRecord
  <1>3. QED
    BY <1>1, <1>2 DEF CmdInv, CmdTypeOK, CmdRecord, CmdStages, FoundKnown, Untouched

(* A step that at most touches a file, and tells the command of it.           *)
LEMMA CmdOthers ==
    ASSUME CacheInv, CmdInv, NEW U \in SUBSET Keys, cmd.touched \subseteq U,
           cmd' = [cmd EXCEPT !.touched = U],
           \A k \in Keys \ U : file'[k] = file[k], known \subseteq known'
    PROVE  CmdInv'
  <1>1. cmd \in CmdRecord
    BY DEF CmdInv, CmdTypeOK, CmdRecord
  <1>2. /\ cmd' \in CmdRecord
        /\ cmd'.op = cmd.op /\ cmd'.repos = cmd.repos /\ cmd'.stage = cmd.stage
        /\ cmd'.since = cmd.since /\ cmd'.names = cmd.names /\ cmd'.found = cmd.found
        /\ cmd'.shown = cmd.shown /\ cmd'.targets = cmd.targets /\ cmd'.before = cmd.before
        /\ cmd'.touched = U
    BY <1>1 DEF CmdRecord
  <1>3. Rows' = Rows /\ Taken' = Taken
    <2>1. \A r : RepoKeys(r)' = RepoKeys(r)
      BY <1>2 DEF RepoKeys
    <2>2. QED
      BY <1>2, <2>1 DEF Rows, Taken
  <1>4. CmdTypeOK' /\ CmdStages' /\ FoundKnown'
    BY <1>2, <1>3 DEF CmdInv, CmdTypeOK, CmdRecord, CmdStages, FoundKnown
  <1>5. Untouched'
    <2> SUFFICES ASSUME cmd.stage # "idle", NEW k \in Keys \ U
                 PROVE  IF cmd.op = "all" THEN file'[k] # None => k \in cmd.targets
                        ELSE IF k \in Taken THEN file'[k] # None => k \in cmd.targets
                        ELSE /\ k \notin cmd.targets
                             /\ k \in cmd.before <=> file'[k] # None
                             /\ (k \notin cmd.names /\ Readable(file'[k])) => Row(k)' \in cmd.found
      BY <1>2, <1>3 DEF Untouched, Readable
    <2>1. file'[k] = file[k] /\ Row(k)' = Row(k) /\ k \in Keys \ cmd.touched
      BY <1>2 DEF Row
    <2>2. QED
      BY <2>1 DEF CmdInv, Untouched
  <1>6. QED
    BY <1>4, <1>5 DEF CmdInv

LEMMA CmdInvOthers ==
    ASSUME CacheInv, CmdInv,
           \/ \E p \in Procs : Begin(p) \/ Lookup(p) \/ GiveUp(p)
           \/ Tick
           \/ \E k \in Keys : Push(k)
           \/ UNCHANGED cacheVars
    PROVE  CmdInv'
  <1>1. cmd \in CmdRecord
    BY DEF CmdInv, CmdTypeOK, CmdRecord
  <1>2. cmd = [cmd EXCEPT !.touched = cmd.touched] /\ cmd.touched \in SUBSET Keys
    BY <1>1 DEF CmdRecord
  <1>3. CASE cmd' = cmd /\ file' = file /\ known \subseteq known'
    BY <1>2, <1>3, CmdOthers
  <1>4. ASSUME NEW p \in Procs, Evict(p) \/ OpenFile(p) \/ WriteFile(p)
        PROVE  CmdInv'
    <2>1. call[p].key \in Keys /\ file \in [Keys -> Entry \cup {None, Torn}]
      BY DEF CacheInv, CacheTypeOK
    <2>2. cmd' = [cmd EXCEPT !.touched = cmd.touched \cup {call[p].key}] /\ known' = known
      BY <1>4 DEF Evict, OpenFile, WriteFile, Touch
    <2>3. \A k \in Keys \ {call[p].key} : file'[k] = file[k]
      BY <1>4, <2>1 DEF Evict, Unlink, OpenFile, WriteFile
    <2>4. QED
      BY <1>2, <2>1, <2>2, <2>3, CmdOthers
  <1>5. CASE \E p \in Procs : Begin(p) \/ ReadFile(p) \/ Check(p) \/ CheckExpired(p) \/ Fetch(p)
                              \/ Refuse(p) \/ Stamp(p) \/ GiveUp(p)
    BY <1>3, <1>5 DEF Begin, ReadFile, Check, CheckExpired, Fetch, Refuse, Stamp, GiveUp
  <1>6. CASE Tick \/ (\E k \in Keys : Push(k)) \/ UNCHANGED cacheVars
    BY <1>3, <1>6 DEF Tick, Push, procs, cacheVars
  <1>7. QED
    BY <1>4, <1>5, <1>6 DEF Lookup
-----------------------------------------------------------------------------
(* The command starts: it knows the names that are there, and nothing more.  *)
LEMMA CmdInvStart ==
    ASSUME CacheInv, CmdInv, NEW c \in Commands, CmdStart(c)
    PROVE  CmdInv'
  <1> DEFINE names == {k \in Keys : file[k] # None}
  <1>1. c.op \in {"ls", "rm", "all"} /\ c.repos \in SUBSET Repos /\ clock \in Nat
    BY CacheAssumption DEF CacheInv, CacheTypeOK
  <1>2. UNCHANGED << file, known >>
    BY DEF CmdStart, procs
  <1>3. cmd' = [CmdIdle EXCEPT
                     !.op = c.op, !.repos = c.repos, !.since = clock, !.before = names,
                     !.stage = IF c.op = "all" THEN "remove" ELSE "read",
                     !.names = IF c.op = "all" THEN {} ELSE names,
                     !.targets = IF c.op = "all" THEN names ELSE {}]
    BY DEF CmdStart
  <1>4. /\ cmd' \in CmdRecord
        /\ cmd'.op = c.op /\ cmd'.before = names /\ cmd'.found = {} /\ cmd'.touched = {}
        /\ cmd'.stage = IF c.op = "all" THEN "remove" ELSE "read"
        /\ cmd'.names = IF c.op = "all" THEN {} ELSE names
        /\ cmd'.targets = IF c.op = "all" THEN names ELSE {}
    BY <1>1, <1>3 DEF CmdIdle, CmdRecord
  <1>5. CmdTypeOK' /\ CmdStages' /\ FoundKnown'
    BY <1>4 DEF CmdTypeOK, CmdRecord, CmdStages, FoundKnown
  <1>6. Taken' = {}
    BY <1>4 DEF Taken
  <1>7. \A k \in Keys : Readable(file[k]) => file[k] # None
    BY DEF Readable
  <1>8. Untouched'
    BY <1>2, <1>4, <1>6, <1>7 DEF Untouched, Readable
  <1>9. QED
    BY <1>5, <1>8 DEF CmdInv

(* It reads a file of which it knew the name.                                *)
LEMMA CmdInvRead ==
    ASSUME CacheInv, CmdInv, NEW k \in Keys, CmdRead(k)
    PROVE  CmdInv'
  <1>1. cmd \in CmdRecord /\ UNCHANGED << file, known >> /\ cmd.stage = "read" /\ k \in cmd.names
    BY DEF CmdInv, CmdTypeOK, CmdRecord, CmdRead, procs
  <1>2. PICK found : found = IF Readable(file[k]) THEN cmd.found \cup {Row(k)} ELSE cmd.found
    OBVIOUS
  <1>3. /\ Readable(file[k]) => /\ Row(k) \in FoundRow
                                /\ Row(k).expired = Past(cmd.since, Row(k).exp)
                                /\ Reading(Row(k).key, Row(k)) \in known
    <2> SUFFICES ASSUME Readable(file[k])
                 PROVE  /\ Row(k) \in FoundRow
                        /\ Row(k).expired = Past(cmd.since, Row(k).exp)
                        /\ Reading(Row(k).key, Row(k)) \in known
      OBVIOUS
    <2>1. file[k] \in Entry /\ Reading(k, file[k]) \in known
      BY DEF Readable, CacheInv, CacheTypeOK, Kept
    <2>2. Past(cmd.since, file[k].exp) \in BOOLEAN
      BY DEF Past
    <2>3. QED
      BY <2>1, <2>2 DEF Row, Entry, Reading, FoundRow
  <1>4. /\ cmd' = [cmd EXCEPT !.names = @ \ {k}, !.found = found]
    BY <1>2 DEF CmdRead
  <1>5. found \in SUBSET FoundRow
    BY <1>1, <1>2, <1>3 DEF CmdRecord
  <1>6. /\ cmd' \in CmdRecord
        /\ cmd'.op = cmd.op /\ cmd'.stage = cmd.stage /\ cmd'.since = cmd.since
        /\ cmd'.names = cmd.names \ {k} /\ cmd'.found = found
        /\ cmd'.targets = cmd.targets /\ cmd'.before = cmd.before /\ cmd'.touched = cmd.touched
    BY <1>1, <1>4, <1>5 DEF CmdRecord
  <1>7. CmdTypeOK' /\ CmdStages'
    BY <1>1, <1>6 DEF CmdInv, CmdTypeOK, CmdRecord, CmdStages
  <1>8. FoundKnown'
    BY <1>1, <1>2, <1>3, <1>6 DEF CmdInv, FoundKnown
  <1>9. Taken' = {} /\ Taken = {}
    BY <1>1, <1>6 DEF Taken
  <1>10. \A i : Row(i)' = Row(i)
    BY <1>1, <1>6 DEF Row
  <1>11. Untouched'
    <2> SUFFICES ASSUME NEW i \in Keys \ cmd.touched
                 PROVE  /\ i \notin cmd.targets
                        /\ i \in cmd.before <=> file[i] # None
                        /\ (i \notin cmd.names \ {k} /\ Readable(file[i])) => Row(i) \in found
      BY <1>1, <1>6, <1>7, <1>9, <1>10 DEF Untouched, Readable, CmdStages
    <2>1. /\ i \notin cmd.targets
          /\ i \in cmd.before <=> file[i] # None
          /\ (i \notin cmd.names /\ Readable(file[i])) => Row(i) \in cmd.found
      BY <1>1, <1>9 DEF CmdInv, CmdStages, Untouched
    <2>2. QED
      BY <1>2, <2>1
  <1>12. QED
    BY <1>7, <1>8, <1>11 DEF CmdInv

(* All is read: `ls` shows its rows, `rm` knows what to take.                *)
LEMMA CmdInvListed ==
    ASSUME CacheInv, CmdInv, CmdListed
    PROVE  CmdInv'
  <1>1. /\ cmd \in CmdRecord /\ UNCHANGED << file, known >> /\ cmd.stage = "read" /\ cmd.names = {}
        /\ cmd.op \in {"ls", "rm"}
    BY DEF CmdInv, CmdTypeOK, CmdRecord, CmdStages, CmdListed, procs
  <1>2. Taken = {}
    BY <1>1 DEF Taken
  <1>3. \A i \in Keys \ cmd.touched : /\ i \notin cmd.targets
                                      /\ i \in cmd.before <=> file[i] # None
                                      /\ Readable(file[i]) => Row(i) \in cmd.found
    BY <1>1, <1>2 DEF CmdInv, CmdStages, Untouched
  <1>4. CASE cmd.op = "ls"
    <2>1. cmd' = [cmd EXCEPT !.stage = "done", !.shown = Rows]
      BY <1>4 DEF CmdListed
    <2>2. Rows \subseteq cmd.found
      BY DEF Rows
    <2>3. /\ cmd' \in CmdRecord
          /\ cmd'.op = "ls" /\ cmd'.stage = "done" /\ cmd'.since = cmd.since /\ cmd'.names = {}
          /\ cmd'.found = cmd.found /\ cmd'.shown = Rows /\ cmd'.repos = cmd.repos
          /\ cmd'.targets = cmd.targets /\ cmd'.before = cmd.before /\ cmd'.touched = cmd.touched
      BY <1>1, <1>4, <2>1, <2>2 DEF CmdRecord
    <2>4. Rows' = Rows /\ Taken' = {} /\ \A i : Row(i)' = Row(i)
      BY <1>1, <2>3 DEF Rows, Taken, Row
    <2>5. CmdTypeOK' /\ CmdStages' /\ FoundKnown'
      BY <1>1, <2>3, <2>4 DEF CmdInv, CmdTypeOK, CmdRecord, CmdStages, FoundKnown
    <2>6. Untouched'
      BY <1>1, <1>3, <2>3, <2>4 DEF Untouched, Readable
    <2>7. QED
      BY <2>5, <2>6 DEF CmdInv
  <1>5. CASE cmd.op = "rm"
    <2> DEFINE some == UNION {RepoKeys(r) : r \in cmd.repos}
    <2>1. cmd' = [cmd EXCEPT !.stage = "remove", !.targets = some]
      BY <1>5 DEF CmdListed
    <2>2. \A r : RepoKeys(r) \subseteq Keys
      BY <1>1 DEF RepoKeys, CmdRecord, FoundRow
    <2>3. some \subseteq Keys
      BY <2>2
    <2>4. \A r : RepoKeys(r)' = RepoKeys(r)
      <3>1. cmd'.found = cmd.found
        BY <1>1, <2>1 DEF CmdRecord
      <3>2. QED
        BY <3>1 DEF RepoKeys
    <2>5. PICK T : T = some
      OBVIOUS
    <2>6. /\ cmd' \in CmdRecord
          /\ cmd'.op = "rm" /\ cmd'.stage = "remove" /\ cmd'.since = cmd.since /\ cmd'.names = {}
          /\ cmd'.found = cmd.found /\ cmd'.repos = cmd.repos
          /\ cmd'.targets = T /\ cmd'.before = cmd.before /\ cmd'.touched = cmd.touched
      <3>1. cmd' = [cmd EXCEPT !.stage = "remove", !.targets = T] /\ T \subseteq Keys
        BY <2>1, <2>3, <2>5
      <3>2. QED
        BY <1>1, <1>5, <3>1 DEF CmdRecord
    <2>7. Taken' = T /\ \A i : Row(i)' = Row(i)
      <3>1. Taken' = UNION {RepoKeys(r)' : r \in cmd.repos}
        BY <2>6 DEF Taken
      <3>2. QED
        BY <1>1, <2>4, <2>5, <2>6, <3>1 DEF Row
    <2> HIDE DEF some
    <2>8. CmdTypeOK' /\ CmdStages' /\ FoundKnown'
      BY <1>1, <2>6 DEF CmdInv, CmdTypeOK, CmdRecord, CmdStages, FoundKnown
    <2>9. Untouched'
      BY <1>1, <1>3, <2>6, <2>7 DEF Untouched, Readable
    <2>10. QED
      BY <2>8, <2>9 DEF CmdInv
  <1>6. QED
    BY <1>1, <1>4, <1>5

(* It removes one of the files it is to take.                                *)
LEMMA CmdInvRemove ==
    ASSUME CacheInv, CmdInv, NEW k \in Keys, CmdRemove(k)
    PROVE  CmdInv'
  <1>1. /\ cmd \in CmdRecord /\ known' = known /\ cmd.stage = "remove" /\ k \in cmd.targets
        /\ cmd.op \in {"rm", "all"} /\ file' = [file EXCEPT ![k] = None]
        /\ DOMAIN file = Keys
    BY DEF CmdInv, CmdTypeOK, CmdRecord, CmdStages, CmdRemove, Unlink, CacheInv, CacheTypeOK
  <1>2. cmd' = [cmd EXCEPT !.targets = @ \ {k}]
    BY DEF CmdRemove
  <1>3. /\ cmd' \in CmdRecord
        /\ cmd'.op = cmd.op /\ cmd'.repos = cmd.repos /\ cmd'.stage = cmd.stage
        /\ cmd'.since = cmd.since /\ cmd'.names = cmd.names /\ cmd'.found = cmd.found
        /\ cmd'.shown = cmd.shown /\ cmd'.targets = cmd.targets \ {k}
        /\ cmd'.before = cmd.before /\ cmd'.touched = cmd.touched
    BY <1>1, <1>2 DEF CmdRecord
  <1>4. CmdTypeOK' /\ CmdStages' /\ FoundKnown'
    BY <1>1, <1>3 DEF CmdInv, CmdTypeOK, CmdRecord, CmdStages, FoundKnown
  <1>5. Taken' = Taken
    <2>1. \A r : RepoKeys(r)' = RepoKeys(r)
      BY <1>3 DEF RepoKeys
    <2>2. QED
      BY <1>3, <2>1 DEF Taken
  <1>6. Untouched'
    <2> SUFFICES ASSUME NEW i \in Keys \ cmd.touched
                 PROVE  IF cmd.op = "all" THEN file'[i] # None => i \in cmd.targets \ {k}
                        ELSE IF i \in Taken THEN file'[i] # None => i \in cmd.targets \ {k}
                        ELSE /\ i \notin cmd.targets \ {k}
                             /\ i \in cmd.before <=> file'[i] # None
                             /\ (i \notin cmd.names /\ Readable(file'[i])) => Row(i)' \in cmd.found
      BY <1>3, <1>5 DEF Untouched, Readable
    <2>1. IF cmd.op = "all" THEN file[i] # None => i \in cmd.targets
          ELSE IF i \in Taken THEN file[i] # None => i \in cmd.targets
          ELSE /\ i \notin cmd.targets
               /\ i \in cmd.before <=> file[i] # None
               /\ (i \notin cmd.names /\ Readable(file[i])) => Row(i) \in cmd.found
      BY <1>1 DEF CmdInv, Untouched
    <2>2. CASE i = k
      BY <1>1, <2>1, <2>2
    <2>3. CASE i # k
      <3>1. file'[i] = file[i] /\ Row(i)' = Row(i)
        BY <1>1, <1>3, <2>3 DEF Row
      <3>2. QED
        BY <2>1, <2>3, <3>1
    <2>4. QED
      BY <2>2, <2>3
  <1>7. QED
    BY <1>4, <1>6 DEF CmdInv

LEMMA CmdInvEnds ==
    ASSUME CacheInv, CmdInv, CmdDone \/ CmdExit
    PROVE  CmdInv'
  <1>1. CASE CmdDone
    <2>1. /\ cmd \in CmdRecord /\ UNCHANGED << file, known >> /\ cmd.stage = "remove"
          /\ cmd.targets = {} /\ cmd.names = {} /\ cmd.op # "ls"
      BY <1>1 DEF CmdInv, CmdTypeOK, CmdRecord, CmdStages, CmdDone, procs
    <2>2. cmd' = [cmd EXCEPT !.stage = "done"]
      BY <1>1 DEF CmdDone
    <2>3. /\ cmd' \in CmdRecord
          /\ cmd'.op = cmd.op /\ cmd'.repos = cmd.repos /\ cmd'.stage = "done"
          /\ cmd'.since = cmd.since /\ cmd'.names = {} /\ cmd'.found = cmd.found
          /\ cmd'.targets = {} /\ cmd'.before = cmd.before /\ cmd'.touched = cmd.touched
      BY <2>1, <2>2 DEF CmdRecord
    <2>4. Taken' = Taken /\ \A i : Row(i)' = Row(i)
      <3>1. \A r : RepoKeys(r)' = RepoKeys(r)
        BY <2>3 DEF RepoKeys
      <3>2. QED
        BY <2>1, <2>3, <3>1 DEF Taken, Row
    <2>5. CmdTypeOK' /\ CmdStages' /\ FoundKnown'
      BY <2>1, <2>3 DEF CmdInv, CmdTypeOK, CmdRecord, CmdStages, FoundKnown
    <2>6. Untouched'
      BY <2>1, <2>3, <2>4 DEF CmdInv, Untouched, Readable
    <2>7. QED
      BY <2>5, <2>6 DEF CmdInv
  <1>2. CASE CmdExit
    <2>1. cmd' = CmdIdle
      BY <1>2 DEF CmdExit
    <2>2. /\ CmdIdle \in CmdRecord /\ CmdIdle.stage = "idle" /\ CmdIdle.names = {}
          /\ CmdIdle.found = {} /\ CmdIdle.targets = {}
      BY DEF CmdIdle, CmdRecord
    <2>3. QED
      BY <2>1, <2>2 DEF CmdInv, CmdTypeOK, CmdRecord, CmdStages, FoundKnown, Untouched
  <1>3. QED
    BY <1>1, <1>2

(* What a `cache` command has found and left holds at every moment of it.     *)
THEOREM CommandInvariant == CacheSpec => []CmdInv
  <1>1. CacheInv /\ CmdInv /\ [CacheNext]_cacheVars => CmdInv'
    BY CmdInvOthers, CmdInvStart, CmdInvRead, CmdInvListed, CmdInvRemove, CmdInvEnds
       DEF CacheNext, Command
  <1>2. QED
    BY <1>1, CmdInvInit, CacheInvariant, PTL DEF CacheSpec

(* Whatever lookups do meanwhile, `cache rm` takes what stores its key and    *)
(* belongs to the repositories, and leaves the others; --all takes all.      *)
THEOREM CacheRmExact == CacheSpec => []RmExact
  <1>1. ASSUME CmdInv PROVE RmExact
    <2> SUFFICES ASSUME cmd.stage = "done", cmd.op # "ls", NEW k \in Keys \ cmd.touched
                 PROVE  /\ cmd.op = "all" => file[k] = None
                        /\ (k.repo \in cmd.repos /\ file[k] # None) =>
                              k.kind = "stat" /\ ~Readable(file[k])
                        /\ (k \in cmd.before /\ cmd.op = "rm" /\ k.repo \notin cmd.repos
                            /\ \A r \in cmd.repos : << r, k.repo >> \notin Hosted) => file[k] # None
      BY DEF RmExact
    <2>1. cmd.op \in {"rm", "all"} /\ cmd.names = {} /\ cmd.targets = {}
      BY <1>1 DEF CmdInv, CmdTypeOK, CmdStages
    <2>2. CASE cmd.op = "all"
      BY <1>1, <2>1, <2>2 DEF CmdInv, Untouched
    <2>3. CASE cmd.op = "rm"
      <3>1. /\ k \in Taken => file[k] = None
            /\ k \notin Taken => /\ k \in cmd.before <=> file[k] # None
                                 /\ Readable(file[k]) => Row(k) \in cmd.found
        BY <1>1, <2>1, <2>3 DEF CmdInv, Untouched
      <3>2. k \in Taken <=> \E r \in cmd.repos : k \in RepoKeys(r)
        BY <2>3 DEF Taken
      <3>3. k.kind \in {"tags", "stat"} /\ Row(k).key = k
        BY CacheAssumption DEF Row
      <3>4. (k.repo \in cmd.repos /\ k.kind = "tags") => k \in Taken
        BY <3>2 DEF RepoKeys
      <3>5. (k.repo \in cmd.repos /\ k.kind = "stat" /\ Row(k) \in cmd.found) => k \in Taken
        BY <3>2, <3>3 DEF RepoKeys, StatPrefix
      <3>6. k \in Taken => \E r \in cmd.repos : k.repo = r \/ << r, k.repo >> \in Hosted
        BY <3>2 DEF RepoKeys, StatPrefix
      <3>7. QED
        BY <2>3, <3>1, <3>3, <3>4, <3>5, <3>6
    <2>4. QED
      BY <2>1, <2>2, <2>3
  <1>2. QED
    BY <1>1, CommandInvariant, PTL

(* `cache ls` shows the listings that are there, with what was put aside for *)
(* them, whatever others change meanwhile.                                   *)
THEOREM CacheLsExact == CacheSpec => []LsExact
  <1>1. ASSUME CmdInv PROVE LsExact
    <2> SUFFICES ASSUME cmd.stage = "done", cmd.op = "ls" PROVE LsExact
      BY DEF LsExact
    <2>1. cmd.shown = Rows /\ cmd.names = {} /\ cmd.targets = {} /\ Taken = {}
      BY <1>1 DEF CmdInv, CmdStages, Taken
    <2>2. \A e \in cmd.shown : /\ Reading(e.key, e) \in known
                               /\ e.expired <=> (e.exp # 0 /\ cmd.since > e.exp)
      BY <1>1, <2>1 DEF CmdInv, FoundKnown, Rows, Past
    <2>3. ASSUME NEW k \in Keys \ cmd.touched,
                 k.kind = "tags", cmd.repos = {} \/ k.repo \in cmd.repos,
                 file[k] \in Entry, file[k].keyed
          PROVE  \E e \in cmd.shown : e.key = k /\ e.val = file[k].val /\ e.exp = file[k].exp
      <3>1. Readable(file[k])
        BY <2>3, CacheAssumption DEF Readable, Entry
      <3>2. Row(k) \in cmd.found
        BY <1>1, <2>1, <3>1 DEF CmdInv, Untouched
      <3>3. Row(k).key = k /\ Row(k).val = file[k].val /\ Row(k).exp = file[k].exp
        BY DEF Row
      <3>4. Row(k) \in cmd.shown
        BY <2>1, <2>3, <3>2, <3>3 DEF Rows
      <3>5. QED
        BY <3>3, <3>4
    <2>4. QED
      BY <2>2, <2>3 DEF LsExact
  <1>2. QED
    BY <1>1, CommandInvariant, PTL
=============================================================================
