------------------------------- MODULE FileCache -------------------------------
(***************************************************************************)
(* The cached registry over a FileCache whose directory several clade      *)
(* processes share: Tags and Stat (one key per call), the `clade cache`    *)
(* commands and the moving registry.  A step is one file-system call;      *)
(* os.WriteFile is two, the truncating open and the write.                 *)
(***************************************************************************)
EXTENDS Integers, FiniteSets

CONSTANTS
    Procs,
    Repos,
    Keys,       \* cache keys [kind : {"tags", "stat"}, repo : Repos]
    Hosted,     \* <<r, s>>: the repository s is on a port of the host named r
    Commands,   \* `cache` commands [op, repos]: "ls", "rm", and "all" for rm --all
    Asked,      \* the keys this instance looks up
    Vals,
    Absent,     \* the registry's ErrNotExist, an error for a tag listing
    TTLs,       \* cache.ttl of the processes; 0 stands for any ttl <= 0
    Remotes,    \* what the registry may hold at first, per key
    OldFiles,   \* directories that earlier runs may have left
    None,       \* no such file
    Torn,       \* a file that is not the JSON of an entry
    MaxTime, MaxPush

(* fileEntry; keyed is FALSE in a file that does not store its key.  It has   *)
(* room for a missing image that is remembered as missing.                   *)
Entry == [keyed : BOOLEAN, val : Vals \cup {Absent}, exp : Nat]

ASSUME CacheAssumption ==
    /\ Keys \subseteq [kind : {"tags", "stat"}, repo : Repos]
    /\ Asked \subseteq Keys
    /\ Remotes \subseteq [Keys -> Vals \cup {Absent}]
    /\ TTLs \subseteq Nat
    /\ Vals # {} /\ Absent \notin Vals
    /\ MaxTime \in Nat /\ MaxPush \in Nat
    /\ Hosted \subseteq Repos \X Repos
    /\ Commands \subseteq [op : {"ls", "rm", "all"}, repos : SUBSET Repos]
    /\ OldFiles \subseteq [Keys -> [keyed : BOOLEAN, val : Vals, exp : Nat] \cup {None}]
    /\ None \notin Entry /\ Torn \notin Entry /\ None # Torn

VARIABLES
    clock,
    remote,     \* what the registry would answer for a key
    pushes,
    file,       \* the cache directory: key -> file
    pc,         \* per process: "idle", "read", "check", "evict", "fetch",
                \* "set", "open", "write"
    call,       \* its call: [key, ttl, stage]; stage is seen by callers
    buf,        \* e, the entry it read or is about to write
    linked,     \* the file it has open is still the one in the directory
    answer,     \* what its last call returned
    fetched,
    gone,       \* during its call the registry did not have the key
    known,      \* history: the entries Set ever stamped
    cmd         \* the `cache` command: op, repos, stage, ...

world == << clock, remote, pushes >>
procs == << pc, call, buf, linked, answer, fetched, gone, known >>
cacheVars == << clock, remote, pushes, file, pc, call, buf, linked, answer, fetched,
                gone, known, cmd >>

(* Mutant of Expiry: the ttl is not applied.                                *)
NoExpiry(ttl) == 0

Expiry(ttl) == IF ttl > 0 THEN clock + ttl ELSE 0

Past(t, exp) == exp # 0 /\ t > exp

(* Mutant of Expired: the expiry is not looked at.                          *)
NeverExpired(e) == FALSE

Expired(e) == Past(clock, e.exp)

Reading(k, e) == [key |-> k, val |-> e.val, exp |-> e.exp]
NoEntry == [keyed |-> TRUE, val |-> CHOOSE v \in Vals : TRUE, exp |-> 0]
NoAnswer(k) == [key |-> k, val |-> Absent, how |-> "none", at |-> 0]

CmdIdle == [op |-> "ls", repos |-> {}, stage |-> "idle", since |-> 0, names |-> {},
            found |-> {}, shown |-> {}, targets |-> {}, before |-> {}, touched |-> {}]

CacheInit ==
    /\ clock = 2
    /\ remote \in Remotes
    /\ pushes = 0
    /\ file \in OldFiles
    /\ pc = [p \in Procs |-> "idle"]
    /\ \E k \in Asked, t \in TTLs :
          call = [p \in Procs |-> [key |-> k, ttl |-> t, stage |-> "done"]]
    /\ buf = [p \in Procs |-> NoEntry]
    /\ linked = [p \in Procs |-> FALSE]
    /\ answer = [p \in Procs |-> NoAnswer(call[p].key)]
    /\ fetched = [p \in Procs |-> Absent]
    /\ gone = [p \in Procs |-> FALSE]
    /\ known = {Reading(k, file[k]) : k \in {k \in Keys : file[k] # None}}
    /\ cmd = CmdIdle
-----------------------------------------------------------------------------
(* The files that others change while a command runs.                        *)
Touch(k) == cmd' = [cmd EXCEPT !.touched = @ \cup {k}]

(* Tags or Stat is called; the key is looked up first.                       *)
Begin(p) ==
    /\ pc[p] = "idle"
    /\ \E k \in Asked, t \in TTLs :
          /\ call' = [call EXCEPT ![p] = [key |-> k, ttl |-> t, stage |-> "asked"]]
          /\ gone' = [gone EXCEPT ![p] = remote[k] = Absent]
          /\ answer' = [answer EXCEPT ![p] = NoAnswer(k)]
    /\ pc' = [pc EXCEPT ![p] = "read"]
    /\ UNCHANGED << world, file, buf, linked, fetched, known, cmd >>

ReadFile(p) ==
    /\ pc[p] = "read"
    /\ LET f == file[call[p].key]
       IN  IF f \in {None, Torn}
           THEN pc' = [pc EXCEPT ![p] = "fetch"] /\ UNCHANGED buf
           ELSE pc' = [pc EXCEPT ![p] = "check"] /\ buf' = [buf EXCEPT ![p] = f]
    /\ UNCHANGED << world, file, call, linked, answer, fetched, gone, known, cmd >>

(* Mutant of Upgraded: the entry that is written back starts a new ttl.     *)
Restamped(p) == [buf[p] EXCEPT !.keyed = TRUE, !.exp = Expiry(call[p].ttl)]

Upgraded(p) == [buf[p] EXCEPT !.keyed = TRUE]

(* The clock is read after the file.  A fresh entry is the answer; one that  *)
(* does not store its key is written back first.                             *)
Check(p) ==
    /\ pc[p] = "check"
    /\ ~Expired(buf[p])
    /\ answer' = [answer EXCEPT ![p] = [key |-> call[p].key, val |-> buf[p].val,
                                        how |-> "hit", at |-> clock]]
    /\ pc' = [pc EXCEPT ![p] = IF buf[p].keyed THEN "idle" ELSE "open"]
    /\ buf' = [buf EXCEPT ![p] = IF @.keyed THEN NoEntry ELSE Upgraded(p)]
    /\ call' = [call EXCEPT ![p].stage = "done"]
    /\ UNCHANGED << world, file, linked, fetched, gone, known, cmd >>

CheckExpired(p) ==
    /\ pc[p] = "check"
    /\ Expired(buf[p])
    /\ pc' = [pc EXCEPT ![p] = "evict"]
    /\ UNCHANGED << world, file, call, buf, linked, answer, fetched, gone, known, cmd >>

(* Unlinking a file leaves those who have it open writing to no one.         *)
Unlink(k) ==
    /\ file' = [file EXCEPT ![k] = None]
    /\ linked' = [q \in Procs |-> linked[q] /\ call[q].key # k]

(* os.Remove of whatever is there by now; its error is ignored.              *)
Evict(p) ==
    /\ pc[p] = "evict"
    /\ Unlink(call[p].key) \/ UNCHANGED << file, linked >>
    /\ Touch(call[p].key)
    /\ pc' = [pc EXCEPT ![p] = "fetch"]
    /\ buf' = [buf EXCEPT ![p] = NoEntry]
    /\ UNCHANGED << world, call, answer, fetched, gone, known >>

NotExist(p) == remote[call[p].key] = Absent

(* Mutant of Found: a missing image is put aside like one that is there.    *)
FoundOrNot(p) == TRUE

Found(p) == ~NotExist(p)

Fetch(p) ==
    /\ pc[p] = "fetch"
    /\ Found(p)
    /\ fetched' = [fetched EXCEPT ![p] = remote[call[p].key]]
    /\ call' = [call EXCEPT ![p].stage = "fetched"]
    /\ pc' = [pc EXCEPT ![p] = "set"]
    /\ UNCHANGED << world, file, buf, linked, answer, gone, known, cmd >>

(* ErrNotExist and other errors are returned and leave nothing in the cache. *)
Refuse(p) ==
    /\ pc[p] = "fetch"
    /\ \E how \in {"missing", "failed"} :
          /\ how = "missing" => NotExist(p)
          /\ answer' = [answer EXCEPT ![p] = [key |-> call[p].key, val |-> Absent,
                                              how |-> how, at |-> clock]]
    /\ pc' = [pc EXCEPT ![p] = "idle"]
    /\ call' = [call EXCEPT ![p].stage = "done"]
    /\ UNCHANGED << world, file, buf, linked, fetched, gone, known, cmd >>

(* Set stamps the entry; the caller gets the value whatever becomes of it.   *)
Stamp(p) ==
    /\ pc[p] = "set"
    /\ LET e == [keyed |-> TRUE, val |-> fetched[p], exp |-> Expiry(call[p].ttl)]
       IN  /\ buf' = [buf EXCEPT ![p] = e]
           /\ known' = known \cup {Reading(call[p].key, e)}
    /\ answer' = [answer EXCEPT ![p] = [key |-> call[p].key, val |-> fetched[p],
                                        how |-> "fetched", at |-> clock]]
    /\ pc' = [pc EXCEPT ![p] = "open"]
    /\ fetched' = [fetched EXCEPT ![p] = Absent]
    /\ call' = [call EXCEPT ![p].stage = "done"]
    /\ UNCHANGED << world, file, linked, gone, cmd >>

(* os.WriteFile, of Set and of the write-back of Get: first the open, which  *)
(* empties the file ...                                                      *)
OpenFile(p) ==
    /\ pc[p] = "open"
    /\ file' = [file EXCEPT ![call[p].key] = Torn]
    /\ linked' = [linked EXCEPT ![p] = TRUE]
    /\ Touch(call[p].key)
    /\ pc' = [pc EXCEPT ![p] = "write"]
    /\ UNCHANGED << world, call, buf, answer, fetched, gone, known >>

(* ... then the write, which leaves the tail of a longer entry that another  *)
(* process wrote in between.                                                 *)
WriteFile(p) ==
    /\ pc[p] = "write"
    /\ LET k == call[p].key
       IN  IF linked[p]
           THEN \E f \in IF file[k] = Torn THEN {buf[p]} ELSE {buf[p], Torn} :
                   file' = [file EXCEPT ![k] = f]
           ELSE UNCHANGED file
    /\ linked' = [linked EXCEPT ![p] = FALSE]
    /\ buf' = [buf EXCEPT ![p] = NoEntry]
    /\ Touch(call[p].key)
    /\ pc' = [pc EXCEPT ![p] = "idle"]
    /\ UNCHANGED << world, call, answer, fetched, gone, known >>

(* A write that fails is ignored, before or after the file was emptied; a    *)
(* process may also be killed anywhere.                                      *)
GiveUp(p) ==
    /\ pc[p] # "idle"
    /\ pc' = [pc EXCEPT ![p] = "idle"]
    /\ call' = [call EXCEPT ![p].stage = "done"]
    /\ linked' = [linked EXCEPT ![p] = FALSE]
    /\ buf' = [buf EXCEPT ![p] = NoEntry]
    /\ fetched' = [fetched EXCEPT ![p] = Absent]
    /\ UNCHANGED << world, file, answer, gone, known, cmd >>
-----------------------------------------------------------------------------
(* Entries globs the directory, notes the time and reads file by file;       *)
(* --all removes what it globbed unread.                                     *)
CmdStart(c) ==
    /\ cmd.stage = "idle"
    /\ LET names == {k \in Keys : file[k] # None}
       IN  cmd' = [CmdIdle EXCEPT
                     !.op = c.op, !.repos = c.repos, !.since = clock, !.before = names,
                     !.stage = IF c.op = "all" THEN "remove" ELSE "read",
                     !.names = IF c.op = "all" THEN {} ELSE names,
                     !.targets = IF c.op = "all" THEN names ELSE {}]
    /\ UNCHANGED << world, file, procs >>

(* Mutant of Readable: an entry that is past its expiry is passed over.     *)
ReadableFresh(f) == f \notin {None, Torn} /\ f.keyed /\ ~Past(cmd.since, f.exp)

(* What cannot be decoded, or does not store its key, is passed over.       *)
Readable(f) == f \notin {None, Torn} /\ f.keyed

Row(k) == [key |-> k, val |-> file[k].val, exp |-> file[k].exp,
           expired |-> Past(cmd.since, file[k].exp)]

CmdRead(k) ==
    /\ cmd.stage = "read"
    /\ k \in cmd.names
    /\ cmd' = [cmd EXCEPT !.names = @ \ {k},
                          !.found = IF Readable(file[k]) THEN @ \cup {Row(k)} ELSE @]
    /\ UNCHANGED << world, file, procs >>

(* Mutant of StatPrefix: the repository of a stat key is not compared.      *)
AnyStat(k, r) == k.kind = "stat"

(* The key begins with the repository and a colon: an image of it, or of a   *)
(* repository on a port of the host of that name.                            *)
StatPrefix(k, r) == k.kind = "stat" /\ (k.repo = r \/ << r, k.repo >> \in Hosted)

(* repoKeys: the key of the listing, found or not, and the stat keys found.  *)
RepoKeys(r) ==
    {k \in Keys : k.kind = "tags" /\ k.repo = r} \cup
    {k \in {e.key : e \in cmd.found} : StatPrefix(k, r)}

(* `ls` prints the listings, or the tags of the one it was asked for.        *)
Rows == {e \in cmd.found : e.key.kind = "tags" /\ (cmd.repos = {} \/ e.key.repo \in cmd.repos)}

CmdListed ==
    /\ cmd.stage = "read"
    /\ cmd.names = {}
    /\ cmd' = IF cmd.op = "ls"
              THEN [cmd EXCEPT !.stage = "done", !.shown = Rows]
              ELSE [cmd EXCEPT !.stage = "remove",
                               !.targets = UNION {RepoKeys(r) : r \in cmd.repos}]
    /\ UNCHANGED << world, file, procs >>

CmdRemove(k) ==
    /\ cmd.stage = "remove"
    /\ k \in cmd.targets
    /\ Unlink(k)
    /\ cmd' = [cmd EXCEPT !.targets = @ \ {k}]
    /\ UNCHANGED << world, pc, call, buf, answer, fetched, gone, known >>

CmdDone ==
    /\ cmd.stage = "remove"
    /\ cmd.targets = {}
    /\ cmd' = [cmd EXCEPT !.stage = "done"]
    /\ UNCHANGED << world, file, procs >>

(* The command exits, also early on the error of a removal or a kill.        *)
CmdExit ==
    /\ cmd.stage # "idle"
    /\ cmd' = CmdIdle
    /\ UNCHANGED << world, file, procs >>
-----------------------------------------------------------------------------
Tick == /\ clock < MaxTime
        /\ clock' = clock + 1
        /\ UNCHANGED << remote, pushes, file, procs, cmd >>

Push(k) ==
    /\ pushes < MaxPush
    /\ pushes' = pushes + 1
    /\ \E v \in Vals \cup {Absent} :
          /\ v # remote[k]
          /\ remote' = [remote EXCEPT ![k] = v]
          /\ gone' = [p \in Procs |-> gone[p] \/ (call[p].key = k /\ v = Absent)]
    /\ UNCHANGED << clock, file, pc, call, buf, linked, answer, fetched, known, cmd >>

Lookup(p) == \/ ReadFile(p) \/ Check(p) \/ CheckExpired(p) \/ Evict(p) \/ Fetch(p)
             \/ Refuse(p) \/ Stamp(p) \/ OpenFile(p) \/ WriteFile(p)

Command == \/ \E c \in Commands : CmdStart(c)
           \/ \E k \in Keys : CmdRead(k) \/ CmdRemove(k)
           \/ CmdListed \/ CmdDone \/ CmdExit

CacheNext == \/ \E p \in Procs : Begin(p) \/ Lookup(p) \/ GiveUp(p)
             \/ Command
             \/ Tick
             \/ \E k \in Keys : Push(k)

CacheSpec == CacheInit /\ [][CacheNext]_cacheVars
-----------------------------------------------------------------------------
Answer == [key : Keys, val : Vals \cup {Absent},
           how : {"none", "hit", "fetched", "missing", "failed"}, at : Nat]

CacheTypeOK ==
    /\ clock \in Nat
    /\ remote \in [Keys -> Vals \cup {Absent}]
    /\ pushes \in 0..MaxPush
    /\ file \in [Keys -> Entry \cup {None, Torn}]
    /\ pc \in [Procs -> {"idle", "read", "check", "evict", "fetch", "set", "open", "write"}]
    /\ call \in [Procs -> [key : Keys, ttl : TTLs, stage : {"asked", "fetched", "done"}]]
    /\ buf \in [Procs -> Entry]
    /\ linked \in [Procs -> BOOLEAN]
    /\ answer \in [Procs -> Answer]
    /\ fetched \in [Procs -> Vals \cup {Absent}]
    /\ gone \in [Procs -> BOOLEAN]
    /\ known \subseteq [key : Keys, val : Vals \cup {Absent}, exp : Nat]

(* No answer from the cache is older than its ttl: it is a value that was    *)
(* put aside for the same key and had not expired when it was looked up,     *)
(* whatever other processes wrote, tore, evicted or wrote back meanwhile.    *)
BoundedReuse ==
    \A p \in Procs : answer[p].how = "hit" =>
       \E e \in known : /\ e.key = answer[p].key
                        /\ e.val = answer[p].val
                        /\ e.exp = 0 \/ answer[p].at <= e.exp

(* cache.go remembers no missing image, "because a missing target image is   *)
(* expected to appear soon": one is reported missing, by the registry or out *)
(* of the cache, only if it was missing during that very call.  One that has *)
(* been built is seen at once, also by who shares the cache of one who       *)
(* missed it.                                                                *)
MissingIsFresh ==
    \A p \in Procs :
       (answer[p].how \in {"hit", "fetched", "missing"} /\ answer[p].val = Absent) => gone[p]

(* What is in the directory, or on its way there, was put aside for that     *)
(* key, and was there.                                                       *)
Kept ==
    /\ \A e \in known : e.val # Absent
    /\ \A k \in Keys : file[k] \in Entry => Reading(k, file[k]) \in known
    /\ \A p \in Procs : pc[p] \in {"check", "open", "write"} =>
          Reading(call[p].key, buf[p]) \in known

Staged ==
    \A p \in Procs :
       /\ pc[p] \in {"read", "check", "evict", "fetch"} => call[p].stage = "asked"
       /\ pc[p] = "set" => call[p].stage = "fetched" /\ fetched[p] \in Vals

GoneSeen ==
    \A p \in Procs : (pc[p] # "idle" /\ remote[call[p].key] = Absent) => gone[p]

CacheInv == /\ CacheTypeOK
            /\ Kept
            /\ Staged
            /\ GoneSeen
            /\ BoundedReuse
            /\ MissingIsFresh

(* Whatever lookups do meanwhile: of the files no one else changed, `cache   *)
(* rm` leaves none of the repositories that store their key and takes none   *)
(* of another repository, but for one on a port of a host it was given;      *)
(* `--all` leaves none at all.                                               *)
RmExact ==
    (cmd.stage = "done" /\ cmd.op # "ls") =>
       \A k \in Keys \ cmd.touched :
          /\ cmd.op = "all" => file[k] = None
          /\ (k.repo \in cmd.repos /\ file[k] # None) =>
                k.kind = "stat" /\ ~Readable(file[k])
          /\ (k \in cmd.before /\ cmd.op = "rm" /\ k.repo \notin cmd.repos
              /\ \A r \in cmd.repos : << r, k.repo >> \notin Hosted) => file[k] # None

(* `cache ls` shows nothing that was not put aside for that listing, with    *)
(* its expiry, and says of each row whether it was past when it began; it    *)
(* shows every listing that is there and no one changed, expired or not.     *)
LsExact ==
    (cmd.stage = "done" /\ cmd.op = "ls") =>
       /\ \A e \in cmd.shown : /\ Reading(e.key, e) \in known
                               /\ e.expired <=> (e.exp # 0 /\ cmd.since > e.exp)
       /\ \A k \in Keys \ cmd.touched :
             (/\ k.kind = "tags" /\ (cmd.repos = {} \/ k.repo \in cmd.repos)
              /\ file[k] \in Entry /\ file[k].keyed) =>
                \E e \in cmd.shown : e.key = k /\ e.val = file[k].val /\ e.exp = file[k].exp

FoundRow == [key : Keys, val : Vals \cup {Absent}, exp : Nat, expired : BOOLEAN]

(* What the two rest on: what a command has found was put aside, and the     *)
(* files it has not read, not to take and no one changed are as they were.   *)
CmdTypeOK ==
    cmd \in [op : {"ls", "rm", "all"}, repos : SUBSET Repos,
             stage : {"idle", "read", "remove", "done"}, since : Nat,
             names : SUBSET Keys, found : SUBSET FoundRow, shown : SUBSET FoundRow,
             targets : SUBSET Keys, before : SUBSET Keys, touched : SUBSET Keys]

CmdStages ==
    /\ cmd.stage # "read" => cmd.names = {}
    /\ cmd.stage = "read" => cmd.op # "all" /\ cmd.targets = {}
    /\ cmd.stage = "remove" => cmd.op # "ls"
    /\ cmd.stage = "done" => cmd.targets = {}
    /\ cmd.stage = "done" /\ cmd.op = "ls" => cmd.shown = Rows

FoundKnown ==
    \A e \in cmd.found : /\ Reading(e.key, e) \in known
                         /\ e.expired = Past(cmd.since, e.exp)

(* The keys that `rm` takes, from the end of its reading on.                 *)
Taken == IF cmd.op = "rm" /\ cmd.stage \in {"remove", "done"}
         THEN UNION {RepoKeys(r) : r \in cmd.repos}
         ELSE {}

Untouched ==
    cmd.stage # "idle" =>
       \A k \in Keys \ cmd.touched :
          IF cmd.op = "all" THEN file[k] # None => k \in cmd.targets
          ELSE IF k \in Taken THEN file[k] # None => k \in cmd.targets
          ELSE /\ k \notin cmd.targets
               /\ k \in cmd.before <=> file[k] # None
               /\ (k \notin cmd.names /\ Readable(file[k])) => Row(k) \in cmd.found

CmdInv == CmdTypeOK /\ CmdStages /\ FoundKnown /\ Untouched

(* docs/cli.md: "Removing a repository drops both its tag listing and any    *)
(* per-tag image metadata cached for it."                                    *)
RmDropsRepo ==
    (cmd.stage = "done" /\ cmd.op = "rm") =>
       \A k \in Keys \ cmd.touched : k.repo \in cmd.repos => file[k] = None

(* The shared directory keeps the promise of the decorator.                  *)
Promise == INSTANCE TtlCache WITH clock <- clock, remote <- remote, call <- call,
                                  fetched <- fetched, answer <- answer, known <- known

RefinesTtlCache == Promise!Spec
=============================================================================
