------------------------------ MODULE AiStore ------------------------------
(***************************************************************************)
(* What the AI keeps across resets: the long-term memory (second half of   *)
(* claw/services/ai/ai_memory.c) and the skills its user made              *)
(* (claw/services/ai/ai_skill.c).  Both are tables in RAM that are written *)
(* to the key-value store in whole after every change: first the count,    *)
(* then the entries, and read back in that way at the next start.          *)
(*                                                                         *)
(* Either write may fail, a reset may come between them, and neither table *)
(* has a lock: the AI thread changes them in its tools, the shell with     *)
(* /remember and /forget.                                                  *)
(***************************************************************************)
EXTENDS Integers, FiniteSets, SequencesExt

CONSTANTS
  Keys, Values,  (* of the long-term memory                                *)
  MaxFacts,      (* LTM_MAX_ENTRIES                                        *)
  Names,         (* of user-created skills                                 *)
  MaxSkills,     (* SKILL_MAX, less the built-in skills                    *)
  Cut,           (* what is stored of a key or name: LTM_KEY_MAX - 1 or    *)
                 (* SKILL_NAME_MAX - 1 characters of it                    *)
  Zeros,         (* an entry of zeros                                      *)
  Junk,          (* an entry read from uninitialised memory                *)
  Absent,        (* a key the store does not have                          *)
  MaxChanges, MaxResets, MaxFailures   (* bounds on what happens             *)

Facts   == [key : Keys \cup {Zeros}, val : Values \cup {Zeros}]
Skills  == [key : Names \cup {Junk}, val : Names \cup {Junk}]

(* No fact is saved under the empty key (ai_memory.c:281); Junk marks the  *)
(* skills read from uninitialised memory, and no fact.                     *)
ASSUME TableAssumption ==
  /\ MaxFacts \in Nat /\ MaxSkills \in Nat
  /\ MaxChanges \in Nat /\ MaxResets \in Nat /\ MaxFailures \in Nat
  /\ Absent \notin Nat \cup Seq(Facts) \cup Seq(Skills)
  /\ Keys \cap {Zeros, Junk} = {}

(* A key or name that is too long is stored as another one.                *)
ASSUME CutAssumption ==
  Cut["ltm"] \in [Keys -> Keys] /\ Cut["skill"] \in [Names -> Names]

Backends == {"file", "nvs"}   (* claw_kv on Linux, on ESP-IDF *)
Callers  == {"ai", "shell"}
Tables   == {"ltm", "skill"}

VARIABLES
  backend,
  ram,         (* s_ltm[0 .. s_ltm_count - 1] and the user's s_skills      *)
  kvCnt, kvData,   (* "cnt" and "data" of the two name spaces              *)
  caller,      (* [pc, table, cnt]: a thread within a persist function     *)
  alone,       (* history: no two threads have saved at once lately        *)
  changes, resets, failures,
  durable,     (* history: the tables when all saves were last complete    *)
  touched      (* history: the keys changed since                          *)

bounds == <<changes, resets, failures>>
history == <<alone, durable, touched>>
storeVars   == <<backend, ram, kvCnt, kvData, caller, bounds, history>>

Limit(t) == IF t = "ltm" THEN MaxFacts ELSE MaxSkills
Rest == [pc |-> "idle", table |-> "ltm", cnt |-> 0]
Idle(c) == caller[c].pc = "idle"

StoreInit ==
  /\ backend \in Backends
  /\ ram = [t \in Tables |-> <<>>]
  /\ kvCnt = [t \in Tables |-> Absent] /\ kvData = [t \in Tables |-> Absent]
  /\ caller = [c \in Callers |-> Rest]
  /\ changes = 0 /\ resets = 0 /\ failures = 0
  /\ alone = TRUE /\ durable = ram /\ touched = [t \in Tables |-> {}]

-----------------------------------------------------------------------------
(* Changes in RAM *)

(* mutant: the loops over a table end one entry early                      *)
HasEarly(t, k) == \E i \in 1..(Len(ram[t]) - 1) : ram[t][i].key = k

(* strcmp of the stored keys with the key in full: one that is too long is *)
(* never found.  The loops stop at the first entry.                        *)
Has(t, k)   == \E i \in 1..Len(ram[t]) : ram[t][i].key = k
Index(t, k) == CHOOSE i \in 1..Len(ram[t]) :
                 ram[t][i].key = k /\ \A j \in 1..(i - 1) : ram[t][j].key # k

(* mutant: the count as it was before the change                           *)
CountBefore(t, new) == Len(ram[t])

CountToSave(t, new) == Len(new)

(* The caller goes on to the persist function with the count as it is.     *)
Change(c, t, k, new) ==
  /\ Idle(c)
  /\ changes < MaxChanges /\ changes' = changes + 1
  /\ ram' = [ram EXCEPT ![t] = new]
  /\ caller' = [caller EXCEPT ![c] = [pc |-> "cnt", table |-> t, cnt |-> CountToSave(t, new)]]
  /\ touched' = [touched EXCEPT ![t] = @ \cup {k}]
  /\ alone' = \A d \in Callers : Idle(d)
  /\ UNCHANGED <<backend, kvCnt, kvData, resets, failures, durable>>

(* ai_ltm_save: an entry is updated, or added, its key cut to what fits,   *)
(* while there is room.                                                    *)
LtmSave(c, k, v) ==
  \/ /\ Has("ltm", k)
     /\ LET i == Index("ltm", k)
        IN  Change(c, "ltm", k, [ram["ltm"] EXCEPT ![i].val = v])
  \/ /\ ~Has("ltm", k) /\ Len(ram["ltm"]) < MaxFacts
     /\ LET stored == Cut["ltm"][k]
        IN  Change(c, "ltm", stored, Append(ram["ltm"], [key |-> stored, val |-> v]))

(* ai_ltm_delete                                                           *)
LtmDelete(c, k) ==
  /\ Has("ltm", k)
  /\ Change(c, "ltm", k, RemoveAt(ram["ltm"], Index("ltm", k)))

(* tool_create_skill, tool_delete_skill: only the AI has these tools.      *)
CreateSkill(k) ==
  /\ ~Has("skill", k) /\ Len(ram["skill"]) < MaxSkills
  /\ LET stored == Cut["skill"][k]
     IN  Change("ai", "skill", stored, Append(ram["skill"], [key |-> stored, val |-> k]))

DeleteSkill(k) ==
  /\ Has("skill", k)
  /\ Change("ai", "skill", k, RemoveAt(ram["skill"], Index("skill", k)))

-----------------------------------------------------------------------------
(* ltm_persist and skill_persist *)

Succeeds == UNCHANGED failures
Fails    == failures < MaxFailures /\ failures' = failures + 1

(* The count.  Only ltm_persist looks at the result.                       *)
SetCnt(c) ==
  LET t == caller[c].table
  IN  /\ caller[c].pc = "cnt"
      /\ \/ /\ Succeeds
            /\ kvCnt' = [kvCnt EXCEPT ![t] = caller[c].cnt]
            /\ caller' = [caller EXCEPT ![c].pc = "data"]
         \/ /\ Fails
            /\ UNCHANGED kvCnt
            /\ caller' = [caller EXCEPT ![c] = IF t = "ltm" THEN Rest ELSE [@ EXCEPT !.pc = "bad"]]
      /\ UNCHANGED <<backend, ram, kvData, changes, resets, history>>

(* The entries; no skill at all deletes the key.  With that the save is    *)
(* complete, unless the count failed or another thread began to save.      *)
Stored(t) == IF t = "skill" /\ ram[t] = <<>> THEN Absent ELSE ram[t]

SetData(c) ==
  LET t == caller[c].table
      complete == caller[c].pc = "data" /\ alone
  IN  /\ caller[c].pc \in {"data", "bad"}
      /\ caller' = [caller EXCEPT ![c] = Rest]
      /\ \/ /\ Succeeds
            /\ kvData' = [kvData EXCEPT ![t] = Stored(t)]
            /\ IF complete
               THEN durable' = [durable EXCEPT ![t] = ram[t]] /\ touched' = [touched EXCEPT ![t] = {}]
               ELSE UNCHANGED <<durable, touched>>
         \/ Fails /\ UNCHANGED <<kvData, durable, touched>>
      /\ UNCHANGED <<backend, ram, kvCnt, changes, resets, alone>>

-----------------------------------------------------------------------------
(* ltm_load and skill_load at the next start *)

(* mutant: files refuse a buffer that is too small, as NVS does            *)
GetBlobStrict(t, n) == IF kvData[t] # Absent /\ Len(kvData[t]) <= n THEN kvData[t] ELSE Absent

(* claw_kv_get_blob into a buffer of n entries: a file is read as far as   *)
(* that goes, NVS refuses a buffer that is too small.                      *)
GetBlob(t, n) ==
  IF kvData[t] = Absent \/ (backend = "nvs" /\ Len(kvData[t]) > n) THEN Absent
  ELSE SubSeq(kvData[t], 1, IF Len(kvData[t]) < n THEN Len(kvData[t]) ELSE n)

(* Entries the count promises and the blob does not have: the table of the *)
(* long-term memory was zeroed, the buffer for skills was not.             *)
Pad(t, s, n) ==
  [i \in 1..n |-> IF i <= Len(s) THEN s[i]
                  ELSE IF t = "ltm" THEN [key |-> Zeros, val |-> Zeros]
                  ELSE [key |-> Junk, val |-> Junk]]

Load(t) ==
  LET n == IF kvCnt[t] = Absent THEN 0 ELSE kvCnt[t]
  IN  IF n = 0 \/ GetBlob(t, n) = Absent THEN <<>> ELSE Pad(t, GetBlob(t, n), n)

Restart ==
  /\ resets < MaxResets /\ resets' = resets + 1
  /\ ram' = [t \in Tables |-> Load(t)]
  /\ caller' = [c \in Callers |-> Rest]
  /\ alone' = TRUE /\ durable' = ram' /\ touched' = [t \in Tables |-> {}]
  /\ UNCHANGED <<backend, kvCnt, kvData, changes, failures>>

-----------------------------------------------------------------------------

StoreNext ==
  \/ \E c \in Callers, k \in Keys, v \in Values : LtmSave(c, k, v)
  \/ \E c \in Callers, k \in Keys : LtmDelete(c, k)
  \/ \E k \in Names : CreateSkill(k) \/ DeleteSkill(k)
  \/ \E c \in Callers : SetCnt(c) \/ SetData(c)
  \/ Restart

StoreSpec == StoreInit /\ [][StoreNext]_storeVars

-----------------------------------------------------------------------------
(* Properties *)

StoreTypeOK ==
  /\ backend \in Backends
  /\ ram \in [Tables -> Seq(Facts) \cup Seq(Skills)]
  /\ ram["ltm"] \in Seq(Facts) /\ ram["skill"] \in Seq(Skills)
  /\ kvCnt \in [Tables -> Nat \cup {Absent}]
  /\ \A t \in Tables : kvCnt[t] \in 0..Limit(t) \cup {Absent}
  /\ kvData \in [Tables -> Seq(Facts) \cup Seq(Skills) \cup {Absent}]
  /\ kvData["ltm"] \in Seq(Facts) \cup {Absent} /\ kvData["skill"] \in Seq(Skills) \cup {Absent}
  /\ caller \in [Callers -> [pc : {"idle", "cnt", "data", "bad"}, table : Tables, cnt : Nat]]
  /\ durable \in [Tables -> Seq(Facts) \cup Seq(Skills)]
  /\ durable["ltm"] \in Seq(Facts) /\ durable["skill"] \in Seq(Skills)
  /\ touched \in [Tables -> SUBSET (Keys \cup Names)] /\ alone \in BOOLEAN
  /\ touched["ltm"] \subseteq Keys
  /\ changes \in 0..MaxChanges /\ resets \in 0..MaxResets /\ failures \in 0..MaxFailures

(* What is stored of the keys and names that are too long                  *)
Shortened(t) == {Cut[t][k] : k \in {l \in DOMAIN Cut[t] : Cut[t][l] # l}}

(* No key or name that fits is in a table twice, the entries made up at a  *)
(* start aside.  One that is too long is looked for in full, not found,    *)
(* and added once more each time.                                          *)
Distinct(t, s) ==
  \A i, j \in 1..Len(s) :
    i # j /\ s[i].key = s[j].key => s[i].key \in {Zeros, Junk} \cup Shortened(t)

Entries ==
  \A t \in Tables :
    /\ Len(ram[t]) <= Limit(t) /\ Distinct(t, ram[t])
    /\ kvData[t] # Absent => Distinct(t, kvData[t])
    /\ \A c \in Callers : ~Idle(c) /\ caller[c].table = t => caller[c].cnt <= Limit(t)

(* A table nobody has changed since is in the store as it is in RAM; who   *)
(* saves alone, has the count in hand, and then in the store.              *)
SavesComplete ==
  /\ \A t \in Tables : touched[t] = {} => Load(t) = durable[t] /\ ram[t] = durable[t]
  /\ \A c \in Callers : ~Idle(c) =>
       LET t == caller[c].table
       IN  /\ touched[t] # {}
           /\ alone => /\ \A d \in Callers \ {c} : Idle(d)
                       /\ caller[c].cnt = Len(ram[t])
                       /\ caller[c].pc = "data" => kvCnt[t] = caller[c].cnt

(* The facts besides one, and what a load makes of a place in the blob     *)
Besides(s, k) ==
  IF \E i \in 1..Len(s) : s[i].key = k
  THEN RemoveAt(s, CHOOSE i \in 1..Len(s) : s[i].key = k) ELSE s
Loaded(i) == IF i <= Len(kvData["ltm"]) THEN kvData["ltm"][i] ELSE [key |-> Zeros, val |-> Zeros]

(* While only one fact, under a key that no longer one is cut to, has      *)
(* changed, the others are in RAM as they were,                            *)
(* the counts cover them, and they are among the first in the store.       *)
OneChanged ==
  \A k \in Keys \ Shortened("ltm") : touched["ltm"] \subseteq {k} =>
    LET others == Besides(durable["ltm"], k)
        n == Len(others)
    IN  /\ Besides(ram["ltm"], k) = others
        /\ \A c \in Callers : ~Idle(c) /\ caller[c].table = "ltm" => caller[c].cnt >= n
        /\ n > 0 => /\ kvCnt["ltm"] # Absent /\ kvCnt["ltm"] >= n
                    /\ kvData["ltm"] # Absent
                    /\ \A i \in 1..n : \E j \in 1..(n + 1) : Loaded(j) = others[i]

(* The tables keep within their limits, and no key or name that fits is in *)
(* one twice, whatever a reset left in the store; a table nobody has       *)
(* changed since a save that was complete, and alone, is in the store.     *)
StoreInv == StoreTypeOK /\ Entries /\ SavesComplete /\ OneChanged

(* "Persists across reboots": a reset that hits no save, with the last     *)
(* save complete and no other at the same time, loses nothing and brings   *)
(* nothing back.                                                           *)
TablesSurvive ==
  [][resets' # resets =>
       \A t \in Tables : touched[t] = {} => ram'[t] = durable[t]]_storeVars

(* On files a reset in the middle of a save costs at most one fact besides *)
(* the one the save was about, whose key no longer one is cut to: a torn   *)
(* deletion loses the last fact.  (On NVS it may cost all of them.)        *)
TornLosesAtMostOne ==
  [][resets' # resets /\ backend = "file" =>
       \A k \in Keys \ Shortened("ltm") : touched["ltm"] \subseteq {k} =>
         Cardinality({e \in ToSet(durable["ltm"]) :
                        e.key # k /\ e \notin ToSet(ram'["ltm"])}) <= 1]_storeVars
=============================================================================
