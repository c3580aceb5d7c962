---------------------------------- MODULE Ullc ----------------------------------
(***************************************************************************)
(* The ULLC ring (src/ullc.c): a ring buffer in shared memory that one     *)
(* producer fills and any number of consumers read, each at its own pace.  *)
(* A step is one atomic access of the code to the shared memory (or a      *)
(* group of accesses no other process can tell apart, said where it is     *)
(* used).  A process may stop between any two steps, so a crash of a       *)
(* process that leaves its share of the ring as it was is a behaviour of   *)
(* every specification below.                                              *)
(*                                                                         *)
(* The payload of an item is abstracted to the position it was claimed     *)
(* for, so that a reader can tell which item it is looking at.             *)
(***************************************************************************)
EXTENDS Integers, FiniteSets

CONSTANTS Producer,      \* processes that may open the ring as a producer
          Consumer,      \* processes that may open the ring as a consumer
          Slots,         \* number of slots of the ring
          NumConsumers,  \* consumer cursors the ring was created with
          NumProducers,  \* producer cursors the ring was created with
          SeekPos,       \* positions consumers ask for with set_pos
          MaxSeq,        \* bound: no item is claimed beyond this position
          MaxFree        \* bound: producers leave at most this often

ASSUME UllcConstants ==
  /\ Slots \in Nat \ {0}
  /\ NumConsumers \in Nat \ {0}
  /\ NumProducers \in Nat \ {0}
  /\ SeekPos \subseteq Int
  /\ MaxSeq \in Nat
  /\ MaxFree \in Nat
  /\ IsFiniteSet(Producer)
  /\ Producer \cap Consumer = {}

Proc    == Producer \cup Consumer
Pos     == 0 .. Slots - 1
CSlot   == 0 .. NumConsumers - 1

\* overrun_enabled holds one of two values: -1 and INT64_MAX, of which the code
\* only asks whether it is greater than a position of the ring.
OVERRUN   == -1
INT64_MAX == Slots

MAGIC_HDR == 90  \* 'Z'
VERSION   == 1   \* the version, size, slots and counts every opener asks for
SEMKEY    == 1   \* the checksum of the ring's name, 0 (IPC_PRIVATE) until stored

\* The % of C: the sign of the result is the sign of the dividend.
CRem(a, n) == IF a >= 0 THEN a % n ELSE -((-a) % n)

INA_MAX(a, b) == IF a > b THEN a ELSE b

\* The producer_new loop advances p_offset by the running id each time round
\* (p_offset = &p_offset[id]), so the cursor tried for id is the triangular
\* number of id, not id itself.
POffset(id) == (id * (id + 1)) \div 2
PSlot       == 0 .. POffset(NumProducers - 1)

VARIABLES
  magic,            \* ring->magic
  version,          \* the parameters openers compare: version, size, slots, counts
  semkey,           \* ring->semkey, which names the semaphore of the ring
  cursor,           \* ring->cursor: position of the last committed item
  next_ptr,         \* ring->next_ptr: position of the next item to claim
  overrun_enabled,  \* ring->overrun_enabled
  alive_producers,  \* ring->alive_producers
  c_alive,          \* alive word of each consumer cursor
  c_cursor,         \* cursor word of each consumer cursor
  p_alive,          \* alive word of each producer cursor
  item,             \* payload of each slot: the position it was written for
  pc,               \* where each process is
  id,               \* ctx->id
  claimed,          \* next_ptr as the claim of the producer read it
  slow_consumer,    \* local of ina_ullc_producer_claim
  scan,             \* loop index of ina_ullc_producer_claim
  held,             \* position of the item the consumer was last handed; -1: none
  target            \* <<cursor read, position asked for>> of a pending set_pos

ring  == <<magic, version, semkey, cursor, next_ptr, overrun_enabled, alive_producers>>
table == <<c_alive, c_cursor, p_alive>>
plocal == <<claimed, slow_consumer, scan>>
clocal == <<held, target>>
vars  == <<ring, table, item, pc, id, plocal, clocal>>

Goto(x, label) == pc' = [pc EXCEPT ![x] = label]

\* Before the store of each field of the ring, in the order of the code.
InitLabel ==
  {"init", "init_overrun", "init_cursor", "init_next", "init_alive", "init_params",
   "init_semkey"}

\* Not attached yet, or no longer.
OpeningLabel == InitLabel \cup {"down", "compare"}

ProducerLabel ==
  OpeningLabel \cup
  {"join", "idle", "claim", "scan", "write", "commit", "commit_cursor", "free"}
ConsumerLabel ==
  OpeningLabel \cup
  {"join", "set_cursor", "fix_cursor", "idle", "get_idx", "get_inc", "set_pos_load",
   "set_pos", "free"}

ControlOK ==
  /\ pc \in [Proc -> ProducerLabel \cup ConsumerLabel]
  /\ \A p \in Producer : pc[p] \in ProducerLabel
  /\ \A c \in Consumer : pc[c] \in ConsumerLabel

\* Every word has its type, and the cursors the processes use lie inside the
\* tables the ring was created with.
TypeOK ==
  /\ magic \in {0, MAGIC_HDR}
  /\ version \in {0, VERSION}
  /\ semkey \in {0, SEMKEY}
  /\ cursor \in Int
  /\ next_ptr \in Nat
  /\ overrun_enabled \in {OVERRUN, INT64_MAX}
  /\ alive_producers \in Int
  /\ c_alive \in [CSlot -> {0, 1}]
  /\ c_cursor \in [CSlot -> Int]
  /\ p_alive \in [PSlot -> {0, 1}]
  /\ item \in [Pos -> Int]
  /\ ControlOK
  /\ id \in [Proc -> Nat]
  /\ \A p \in Producer : id[p] < NumProducers
  /\ \A c \in Consumer : id[c] < NumConsumers
  /\ claimed \in [Producer -> Nat]
  /\ slow_consumer \in [Producer -> Int]
  /\ scan \in [Producer -> 0 .. NumConsumers]
  /\ held \in [Consumer -> Int]
  /\ target \in [Consumer -> Int \X Int]

---------------------------------------------------------------------------------
(* Opening the ring: __ina_ullc_ring_create, called by both kinds of context. *)

\* The opener maps the memory and looks at magic.
Open(x) ==
  /\ pc[x] = "down"
  /\ Goto(x, IF magic # MAGIC_HDR THEN "init" ELSE "compare")
  /\ id' = [id EXCEPT ![x] = 0]
  /\ UNCHANGED <<ring, table, item, plocal, clocal>>

\* The initialisation is one store after the other, and everyone else goes on in
\* between: openers, and on a ring that was reset the attached processes too.  After
\* the first store the ring looks initialised to every other opener.  The cursor
\* tables and the slots are not touched.
InitMagic(x) ==
  /\ pc[x] = "init"
  /\ magic' = MAGIC_HDR
  /\ Goto(x, "init_overrun")
  /\ UNCHANGED <<version, semkey, cursor, next_ptr, overrun_enabled, alive_producers,
                 table, item, id, plocal, clocal>>

InitOverrun(x) ==
  /\ pc[x] = "init_overrun"
  /\ overrun_enabled' = OVERRUN
  /\ Goto(x, "init_cursor")
  /\ UNCHANGED <<magic, version, semkey, cursor, next_ptr, alive_producers,
                 table, item, id, plocal, clocal>>

InitCursor(x) ==
  /\ pc[x] = "init_cursor"
  /\ cursor' = -1
  /\ Goto(x, "init_next")
  /\ UNCHANGED <<magic, version, semkey, next_ptr, overrun_enabled, alive_producers,
                 table, item, id, plocal, clocal>>

InitNextPtr(x) ==
  /\ pc[x] = "init_next"
  /\ next_ptr' = 0
  /\ Goto(x, "init_alive")
  /\ UNCHANGED <<magic, version, semkey, cursor, overrun_enabled, alive_producers,
                 table, item, id, plocal, clocal>>

InitAlive(x) ==
  /\ pc[x] = "init_alive"
  /\ alive_producers' = 0
  /\ Goto(x, "init_params")
  /\ UNCHANGED <<magic, version, semkey, cursor, next_ptr, overrun_enabled,
                 table, item, id, plocal, clocal>>

\* version and size, and with them slots and the two counts, which the code stored
\* right after magic: the comparison passes only when all of them are there, so an
\* opener cannot tell the one store from the five.
InitParams(x) ==
  /\ pc[x] = "init_params"
  /\ version' = VERSION
  /\ Goto(x, "init_semkey")
  /\ UNCHANGED <<magic, semkey, cursor, next_ptr, overrun_enabled, alive_producers,
                 table, item, id, plocal, clocal>>

\* __ina_sem_makekey, the last store.  No opener looks at it before it goes on.
InitSemkey(x) ==
  /\ pc[x] = "init_semkey"
  /\ semkey' = SEMKEY
  /\ Goto(x, "compare")
  /\ UNCHANGED <<magic, version, cursor, next_ptr, overrun_enabled, alive_producers,
                 table, item, id, plocal, clocal>>

InitFields(x) ==
  \/ InitOverrun(x) \/ InitCursor(x) \/ InitNextPtr(x) \/ InitAlive(x)
  \/ InitParams(x) \/ InitSemkey(x)

\* Mutant: the parameters stored in the ring are not compared.
Compare_Nothing(x) ==
  /\ pc[x] = "compare"
  /\ Goto(x, "join")
  /\ UNCHANGED <<ring, table, item, id, plocal, clocal>>

\* An opener whose parameters are not those of the ring is refused.
Compare(x) ==
  /\ pc[x] = "compare"
  /\ Goto(x, IF version = VERSION THEN "join" ELSE "down")
  /\ UNCHANGED <<ring, table, item, id, plocal, clocal>>

\* ina_ullc_reset_ring: any process may ask for a re-initialisation by the next
\* opener.
ResetRing ==
  /\ magic = MAGIC_HDR
  /\ magic' = 0
  /\ UNCHANGED <<version, semkey, cursor, next_ptr, overrun_enabled, alive_producers,
                 table, item, pc, id, plocal, clocal>>

---------------------------------------------------------------------------------
(* The producer. *)

\* One round of the loop that looks for a free producer cursor.
ProducerJoin(p) ==
  /\ pc[p] = "join"
  /\ LET off == POffset(id[p]) IN
       \/ /\ p_alive[off] = 0
          /\ p_alive' = [p_alive EXCEPT ![off] = 1]
          /\ Goto(p, "idle")
          /\ UNCHANGED id
       \/ /\ p_alive[off] = 1
          /\ id[p] + 1 < NumProducers
          /\ id' = [id EXCEPT ![p] = @ + 1]
          /\ UNCHANGED <<p_alive, pc>>
       \/ /\ p_alive[off] = 1
          /\ id[p] + 1 = NumProducers
          /\ Goto(p, "down")
          /\ UNCHANGED <<p_alive, id>>
  /\ UNCHANGED <<ring, c_alive, c_cursor, item, plocal, clocal>>

\* Mutant: the slot of the last committed item is claimed.
ProducerClaim_LastCommitted(p) ==
  /\ pc[p] = "idle"
  /\ next_ptr < MaxSeq
  /\ slow_consumer' = [slow_consumer EXCEPT ![p] = overrun_enabled]
  /\ claimed' = [claimed EXCEPT ![p] = INA_MAX(cursor, 0)]
  /\ Goto(p, "claim")
  /\ UNCHANGED <<ring, table, item, id, scan, clocal>>

\* The two loads at the head of claim.  overrun_enabled is read first; a change
\* of it between the two loads is a change just after them.
ProducerClaim(p) ==
  /\ pc[p] = "idle"
  /\ next_ptr < MaxSeq
  /\ slow_consumer' = [slow_consumer EXCEPT ![p] = overrun_enabled]
  /\ claimed' = [claimed EXCEPT ![p] = next_ptr]
  /\ Goto(p, "claim")
  /\ UNCHANGED <<ring, table, item, id, scan, clocal>>

LikeToWrite(p) == claimed[p] % Slots

\* Mutant: >= in the loop condition.
ClaimTest_WaitsOnEqual(p) ==
  /\ pc[p] = "claim"
  /\ \/ /\ slow_consumer[p] >= LikeToWrite(p)
        /\ slow_consumer' = [slow_consumer EXCEPT ![p] = -1]
        /\ scan' = [scan EXCEPT ![p] = 0]
        /\ Goto(p, "scan")
     \/ /\ slow_consumer[p] < LikeToWrite(p)
        /\ Goto(p, "write")
        /\ slow_consumer' = [slow_consumer EXCEPT ![p] = OVERRUN]
        /\ scan' = [scan EXCEPT ![p] = 0]
  /\ UNCHANGED <<ring, table, item, id, claimed, clocal>>

\* while (slow_consumer > like_to_write): go round once more or leave the loop
\* and return (the locals of a call that returned are set to a fixed value).
ClaimTest(p) ==
  /\ pc[p] = "claim"
  /\ \/ /\ slow_consumer[p] > LikeToWrite(p)
        /\ slow_consumer' = [slow_consumer EXCEPT ![p] = -1]
        /\ scan' = [scan EXCEPT ![p] = 0]
        /\ Goto(p, "scan")
     \/ /\ slow_consumer[p] <= LikeToWrite(p)
        /\ Goto(p, "write")
        /\ slow_consumer' = [slow_consumer EXCEPT ![p] = OVERRUN]
        /\ scan' = [scan EXCEPT ![p] = 0]
  /\ UNCHANGED <<ring, table, item, id, claimed, clocal>>

\* One round of the for loop.  The alive word is read before the cursor; a
\* consumer that leaves in between is read at 0 or at its last position, as it
\* would be had it left a little later.
ClaimScan(p) ==
  /\ pc[p] = "scan"
  /\ \/ /\ scan[p] < NumConsumers
        /\ slow_consumer' =
             IF c_alive[scan[p]] = 1
             THEN [slow_consumer EXCEPT ![p] = INA_MAX(@, CRem(c_cursor[scan[p]], Slots))]
             ELSE slow_consumer
        /\ scan' = [scan EXCEPT ![p] = @ + 1]
        /\ UNCHANGED pc
     \/ /\ scan[p] = NumConsumers
        /\ Goto(p, "claim")
        /\ UNCHANGED <<slow_consumer, scan>>
  /\ UNCHANGED <<ring, table, item, id, claimed, clocal>>

\* The caller fills the item claim returned.  While pc[p] = "write" the content
\* of the slot is in flux.
ProducerWrite(p) ==
  /\ pc[p] = "write"
  /\ item' = [item EXCEPT ![LikeToWrite(p)] = claimed[p]]
  /\ Goto(p, "commit")
  /\ UNCHANGED <<ring, table, id, plocal, clocal>>

\* Mutant: the increment works on the value the claim read.
CommitNext_LostUpdate(p) ==
  /\ pc[p] = "commit"
  /\ next_ptr' = claimed[p] + 1
  /\ Goto(p, "commit_cursor")
  /\ UNCHANGED <<magic, version, semkey, cursor, overrun_enabled, alive_producers,
                 table, item, id, plocal, clocal>>

CommitNext(p) ==
  /\ pc[p] = "commit"
  /\ next_ptr' = next_ptr + 1
  /\ Goto(p, "commit_cursor")
  /\ UNCHANGED <<magic, version, semkey, cursor, overrun_enabled, alive_producers,
                 table, item, id, plocal, clocal>>

CommitCursor(p) ==
  /\ pc[p] = "commit_cursor"
  /\ cursor' = cursor + 1
  /\ Goto(p, "idle")
  /\ UNCHANGED <<magic, version, semkey, next_ptr, overrun_enabled, alive_producers,
                 table, item, id, plocal, clocal>>

ProducerFree(p) ==
  /\ pc[p] = "idle"
  /\ alive_producers > -MaxFree
  /\ p_alive' = [p_alive EXCEPT ![POffset(id[p])] = 0]
  /\ Goto(p, "free")
  /\ UNCHANGED <<ring, c_alive, c_cursor, item, id, plocal, clocal>>

\* The decrement returns the old value.
ProducerFreeLast(p) ==
  /\ pc[p] = "free"
  /\ alive_producers' = alive_producers - 1
  /\ magic' = IF alive_producers = 1 THEN 0 ELSE magic
  /\ Goto(p, "down")
  /\ UNCHANGED <<version, semkey, cursor, next_ptr, overrun_enabled, table, item, id,
                 plocal, clocal>>

---------------------------------------------------------------------------------
(* The consumer. *)

\* Mutant: the loop runs one round too many.
ConsumerJoin_OffByOne(c) ==
  /\ pc[c] = "join"
  /\ \/ /\ c_alive[id[c]] = 0
        /\ c_alive' = [c_alive EXCEPT ![id[c]] = 1]
        /\ Goto(c, "set_cursor")
        /\ UNCHANGED id
     \/ /\ c_alive[id[c]] = 1
        /\ id' = [id EXCEPT ![c] = @ + 1]
        /\ UNCHANGED <<c_alive, pc>>
  /\ UNCHANGED <<ring, c_cursor, p_alive, item, plocal, clocal>>

\* Mutant: the cursor is taken with a plain store.
ConsumerJoin_NoSwap(c) ==
  /\ pc[c] = "join"
  /\ c_alive' = [c_alive EXCEPT ![id[c]] = 1]
  /\ Goto(c, "set_cursor")
  /\ UNCHANGED <<ring, id, c_cursor, p_alive, item, plocal, clocal>>

\* One round of the loop that looks for a free consumer cursor.
ConsumerJoin(c) ==
  /\ pc[c] = "join"
  /\ \/ /\ c_alive[id[c]] = 0
        /\ c_alive' = [c_alive EXCEPT ![id[c]] = 1]
        /\ Goto(c, "set_cursor")
        /\ UNCHANGED id
     \/ /\ c_alive[id[c]] = 1
        /\ id[c] + 1 < NumConsumers
        /\ id' = [id EXCEPT ![c] = @ + 1]
        /\ UNCHANGED <<c_alive, pc>>
     \/ /\ c_alive[id[c]] = 1
        /\ id[c] + 1 = NumConsumers
        /\ Goto(c, "down")
        /\ UNCHANGED <<c_alive, id>>
  /\ UNCHANGED <<ring, c_cursor, p_alive, item, plocal, clocal>>

\* Swap 0 for ring->cursor: a new consumer starts at the last committed item,
\* unless the cursor word still holds the position of an earlier owner.
ConsumerSetCursor(c) ==
  /\ pc[c] = "set_cursor"
  /\ c_cursor' = [c_cursor EXCEPT ![id[c]] = IF @ = 0 THEN cursor ELSE @]
  /\ Goto(c, "fix_cursor")
  /\ UNCHANGED <<ring, c_alive, p_alive, item, id, plocal, clocal>>

\* An empty ring has cursor -1; the consumer then starts at 0.
ConsumerFixCursor(c) ==
  /\ pc[c] = "fix_cursor"
  /\ c_cursor' = [c_cursor EXCEPT ![id[c]] = IF @ < 0 THEN 0 ELSE @]
  /\ Goto(c, "idle")
  /\ UNCHANGED <<ring, c_alive, p_alive, item, id, plocal, clocal>>

\* Mutant: the test compares with the position to be claimed next.
ConsumerGet_Uncommitted(c) ==
  /\ pc[c] = "idle"
  /\ \/ /\ next_ptr < c_cursor[id[c]]
        /\ held' = [held EXCEPT ![c] = -1]
        /\ UNCHANGED pc
     \/ /\ next_ptr >= c_cursor[id[c]]
        /\ Goto(c, "get_idx")
        /\ UNCHANGED held
  /\ UNCHANGED <<ring, table, item, id, plocal, target>>

\* ina_ullc_consumer_get, the test: nothing new, or go on.
ConsumerGet(c) ==
  /\ pc[c] = "idle"
  /\ \/ /\ cursor < c_cursor[id[c]]
        /\ held' = [held EXCEPT ![c] = -1]
        /\ UNCHANGED pc
     \/ /\ cursor >= c_cursor[id[c]]
        /\ Goto(c, "get_idx")
        /\ UNCHANGED held
  /\ UNCHANGED <<ring, table, item, id, plocal, target>>

\* The item is computed from a second read of the consumer's cursor ...
ConsumerGetIdx(c) ==
  /\ pc[c] = "get_idx"
  /\ held' = [held EXCEPT ![c] = c_cursor[id[c]]]
  /\ Goto(c, "get_inc")
  /\ UNCHANGED <<ring, table, item, id, plocal, target>>

\* ... and the cursor moves on before the caller has looked at the item.
ConsumerGetInc(c) ==
  /\ pc[c] = "get_inc"
  /\ c_cursor' = [c_cursor EXCEPT ![id[c]] = @ + 1]
  /\ Goto(c, "idle")
  /\ UNCHANGED <<ring, c_alive, p_alive, item, id, plocal, clocal>>

\* Mutant: a position beyond next_ptr is taken as it is.
ConsumerSetPos_NoClamp(c, pos) ==
  /\ pc[c] = "idle"
  /\ target' = [target EXCEPT ![c] = <<c_cursor[id[c]], pos>>]
  /\ Goto(c, IF pos = -1 THEN "set_pos_load" ELSE "set_pos")
  /\ UNCHANGED <<ring, table, item, id, plocal, held>>

\* ina_ullc_consumer_set_pos, the load of the cursor and the test of the
\* position asked for; -1 stands for the latest position.  Nothing keeps the caller
\* from asking for a position below -1, which is taken as it is.
ConsumerSetPos(c, pos) ==
  /\ pc[c] = "idle"
  /\ target' = [target EXCEPT ![c] = <<c_cursor[id[c]], pos>>]
  /\ Goto(c, IF pos = -1 \/ pos > next_ptr THEN "set_pos_load" ELSE "set_pos")
  /\ UNCHANGED <<ring, table, item, id, plocal, held>>

\* ... next_ptr is read once more ...
ConsumerSetPosLoad(c) ==
  /\ pc[c] = "set_pos_load"
  /\ target' = [target EXCEPT ![c] = <<target[c][1], next_ptr>>]
  /\ Goto(c, "set_pos")
  /\ UNCHANGED <<ring, table, item, id, plocal, held>>

\* ... and the swap, which fails when the cursor is no longer the one read.
ConsumerSetPosSwap(c) ==
  /\ pc[c] = "set_pos"
  /\ c_cursor' =
       IF c_cursor[id[c]] = target[c][1]
       THEN [c_cursor EXCEPT ![id[c]] = target[c][2]]
       ELSE c_cursor
  /\ target' = [target EXCEPT ![c] = <<0, 0>>]
  /\ Goto(c, "idle")
  /\ UNCHANGED <<ring, c_alive, p_alive, item, id, plocal, held>>

ConsumerFree(c) ==
  /\ pc[c] = "idle"
  /\ c_alive' = [c_alive EXCEPT ![id[c]] = 0]
  /\ held' = [held EXCEPT ![c] = -1]
  /\ Goto(c, "free")
  /\ UNCHANGED <<ring, c_cursor, p_alive, item, id, plocal, target>>

\* The cursor word is cleared after the alive word was given up.
ConsumerFreeCursor(c) ==
  /\ pc[c] = "free"
  /\ c_cursor' = [c_cursor EXCEPT ![id[c]] = 0]
  /\ Goto(c, "down")
  /\ UNCHANGED <<ring, c_alive, p_alive, item, id, plocal, clocal>>

---------------------------------------------------------------------------------
(* Either kind of context may switch the overrun mode; the swap that finds the *)
(* mode already set fails and changes nothing.                                 *)
OverrunEnable(x) ==
  /\ pc[x] = "idle"
  /\ overrun_enabled = INT64_MAX
  /\ overrun_enabled' = OVERRUN
  /\ UNCHANGED <<magic, version, semkey, cursor, next_ptr, alive_producers, table, item,
                 pc, id, plocal, clocal>>

OverrunDisable(x) ==
  /\ pc[x] = "idle"
  /\ overrun_enabled = OVERRUN
  /\ overrun_enabled' = INT64_MAX
  /\ UNCHANGED <<magic, version, semkey, cursor, next_ptr, alive_producers, table, item,
                 pc, id, plocal, clocal>>

---------------------------------------------------------------------------------
Opening(x) == Open(x) \/ Compare(x) \/ InitMagic(x) \/ InitFields(x)

ProducerStream(p) ==
  \/ ProducerClaim(p) \/ ClaimTest(p) \/ ClaimScan(p) \/ ProducerWrite(p)
  \/ CommitNext(p) \/ CommitCursor(p)

ConsumerStream(c) == ConsumerGet(c) \/ ConsumerGetIdx(c) \/ ConsumerGetInc(c)

ConsumerEnter(c) == ConsumerJoin(c) \/ ConsumerSetCursor(c) \/ ConsumerFixCursor(c)

ProducerLeave(p) == ProducerFree(p) \/ ProducerFreeLast(p)

ConsumerLeave(c) == ConsumerFree(c) \/ ConsumerFreeCursor(c)

ConsumerSeek(c) ==
  \/ \E pos \in SeekPos : ConsumerSetPos(c, pos)
  \/ ConsumerSetPosLoad(c)
  \/ ConsumerSetPosSwap(c)

OverrunSwitch(x) == OverrunEnable(x) \/ OverrunDisable(x)

\* Everything but a reset of the ring.
Next ==
  \/ \E x \in Proc : Opening(x) \/ OverrunSwitch(x)
  \/ \E p \in Producer : ProducerJoin(p) \/ ProducerStream(p) \/ ProducerLeave(p)
  \/ \E c \in Consumer :
       \/ ConsumerEnter(c) \/ ConsumerStream(c) \/ ConsumerSeek(c) \/ ConsumerLeave(c)

NoOneAttached ==
  /\ c_alive = [i \in CSlot |-> 0]
  /\ c_cursor = [i \in CSlot |-> 0]
  /\ p_alive = [i \in PSlot |-> 0]
  /\ item = [i \in Pos |-> -1]
  /\ id = [x \in Proc |-> 0]
  /\ claimed = [p \in Producer |-> 0]
  /\ slow_consumer = [p \in Producer |-> OVERRUN]
  /\ scan = [p \in Producer |-> 0]
  /\ held = [c \in Consumer |-> -1]
  /\ target = [c \in Consumer |-> <<0, 0>>]

\* A ring that its creator has initialised and that everyone opens afterwards.
Init ==
  /\ magic = MAGIC_HDR
  /\ version = VERSION
  /\ semkey = SEMKEY
  /\ cursor = -1
  /\ next_ptr = 0
  /\ overrun_enabled = OVERRUN
  /\ alive_producers = 0
  /\ pc = [x \in Proc |-> "down"]
  /\ NoOneAttached

Spec == Init /\ [][Next]_vars

\* Memory just created by a producer that has not initialised it yet: every word
\* is 0 (a zero overrun_enabled is not above any position, so it acts as OVERRUN,
\* and nobody gets past the comparison before it is stored) and the creator, whose
\* INA_MEM_SHARED_EXCL open succeeded, is about to initialise it whatever magic says.
InitStartup ==
  /\ magic = 0
  /\ version = 0
  /\ semkey = 0
  /\ cursor = 0
  /\ next_ptr = 0
  /\ overrun_enabled = OVERRUN
  /\ alive_producers = 0
  /\ \E creator \in Producer :
       pc = [x \in Proc |-> IF x = creator THEN "init" ELSE "down"]
  /\ NoOneAttached

SpecReset == InitStartup /\ [][Next \/ ResetRing]_vars

\* Everyone attached and nothing but the traffic itself.  Consumers and
\* producer are scheduled: each keeps taking the steps of the call it is in, and
\* each consumer keeps polling, as the loops around ina_ullc_consumer_get do.
InitStreaming ==
  /\ magic = MAGIC_HDR
  /\ version = VERSION
  /\ semkey = SEMKEY
  /\ cursor = -1
  /\ next_ptr = 0
  /\ overrun_enabled \in {OVERRUN, INT64_MAX}
  /\ alive_producers = 0
  /\ c_alive = [i \in CSlot |-> 1]
  /\ c_cursor = [i \in CSlot |-> 0]
  /\ p_alive = [i \in PSlot |-> 1]
  /\ item = [i \in Pos |-> -1]
  /\ pc = [x \in Proc |-> "idle"]
  /\ id \in {f \in [Proc -> CSlot] :
               /\ \A c, d \in Consumer : f[c] = f[d] => c = d
               /\ \A p \in Producer : f[p] = 0}
  /\ claimed = [p \in Producer |-> 0]
  /\ slow_consumer = [p \in Producer |-> OVERRUN]
  /\ scan = [p \in Producer |-> 0]
  /\ held = [c \in Consumer |-> -1]
  /\ target = [c \in Consumer |-> <<0, 0>>]

NextStreaming ==
  \/ \E p \in Producer : ProducerStream(p)
  \/ \E c \in Consumer : ConsumerStream(c)

SpecStreaming ==
  /\ InitStreaming
  /\ [][NextStreaming]_vars
  /\ \A p \in Producer : WF_vars(ProducerStream(p))
  /\ \A c \in Consumer : WF_vars(ConsumerStream(c))

---------------------------------------------------------------------------------
(* What the ring promises. *)

\* The two counters of the ring differ by one plus the number of producers that
\* are between the two increments of commit, whatever the interleaving.
CommitWindow ==
  next_ptr = cursor + 1 + Cardinality({p \in Producer : pc[p] = "commit_cursor"})

\* No consumer that asks for -1 or a position of the ring, whenever it came or
\* left, is ever beyond the next item to be claimed, and none is handed an item
\* that is not committed.  (A consumer that asked for a position below -1 passes the
\* test of consumer_get on an empty ring.)
NeverAhead ==
  /\ \A i \in CSlot : c_cursor[i] <= next_ptr
  /\ \A c \in Consumer : held[c] <= cursor

Owner == {c \in Consumer : pc[c] \notin OpeningLabel \cup {"join", "free"}}

\* Two attached consumers never share a cursor, and the cursor of an attached
\* consumer stays marked as taken.
CursorExclusive ==
  \A c \in Owner :
    /\ c_alive[id[c]] = 1
    /\ \A d \in Owner : id[c] = id[d] => c = d

SoleProducer == \A p, q \in Producer : p = q

\* The producer has come round to the slot of position k again.
Lapped(k) ==
  \/ next_ptr > k + Slots
  \/ next_ptr = k + Slots /\ \E p \in Producer : pc[p] \in {"write", "commit"}

\* With the one producer per ring the design allows, the item a consumer was
\* handed for position k is item k for as long as the producer has not come
\* round to its slot again, and it is never an item from an earlier round.
ItemIntact ==
  SoleProducer =>
    \A c \in Consumer :
      held[c] >= 0 =>
        /\ item[held[c] % Slots] >= held[c]
        /\ ~Lapped(held[c]) => item[held[c] % Slots] = held[c]

\* While everyone stays attached no step takes a counter of the ring back, and with
\* one producer the item that becomes visible to the consumers is in its slot by then.
RingForward ==
  /\ next_ptr' >= next_ptr
  /\ cursor' >= cursor
  /\ SoleProducer /\ cursor' > cursor => item[cursor' % Slots] = cursor'

RingMonotone == [][RingForward]_vars

\* No process gets past the opening of a ring whose parameters nobody stored,
\* although magic is stored first and a reset may come at any time.  The semaphore
\* key is not among them: it is missing for as long as the first initialiser has not
\* made its last store, and only that long; an opener that goes on in this window
\* takes the semaphore of key 0, which is private to it.
AttachedInitialised ==
  (\E x \in Proc : pc[x] \notin OpeningLabel) =>
    /\ version = VERSION
    /\ semkey = SEMKEY \/ \E y \in Proc : pc[y] = "init_semkey"

\* A claim always returns once every attached consumer keeps reading, with
\* overrun switched off too.
ClaimReturns ==
  \A p \in Producer : pc[p] \in {"claim", "scan"} ~> pc[p] = "write"

\* The committed items and the cursors of the consumers.
Log == INSTANCE Broadcast WITH Reader <- Consumer, published <- cursor + 1,
                               next <- [c \in Consumer |-> c_cursor[id[c]]]

\* Seen through commit and consumer_get the ring is a broadcast of the committed
\* positions: every consumer takes each position once and in order, never one
\* that is not committed, and goes on as long as there is one.  What the slot of
\* the position holds by then is ItemIntact's business.
IsBroadcast == Log!Spec

---------------------------------------------------------------------------------
(* The inductive invariant behind the properties above.                        *)

\* Nobody initialises an initialised ring again: nothing clears magic, because
\* alive_producers is never raised and so never drops from 1.
RingUp ==
  /\ magic = MAGIC_HDR
  /\ version = VERSION
  /\ alive_producers <= 0
  /\ \A x \in Proc : pc[x] \notin InitLabel

\* The positions asked for are -1 or positions of the ring.
SeeksForward == SeekPos \subseteq Nat \cup {-1}

\* A cursor word is negative only while its owner is about to correct it.
CursorsSettle ==
  \A i \in CSlot :
    \/ c_cursor[i] >= 0
    \/ c_cursor[i] = -1 /\ \E c \in Consumer : pc[c] = "fix_cursor" /\ id[c] = i

\* What a consumer has established when it is past a test of the code.
ConsumerChecked ==
  \A c \in Consumer :
    /\ pc[c] \in {"get_idx", "get_inc"} => cursor >= 0 /\ c_cursor[id[c]] <= cursor
    /\ pc[c] = "set_pos" => target[c][2] >= 0 /\ target[c][2] <= next_ptr

\* Positions below this one have been written to their slots.
Written == next_ptr + (IF \E p \in Producer : pc[p] = "commit" THEN 1 ELSE 0)

\* The last round of items is in the slots, and no slot holds an item older than
\* the last one written to it.
SlotsHoldLastRound ==
  SoleProducer =>
    /\ \A p \in Producer :
         pc[p] \in {"claim", "scan", "write", "commit"} => claimed[p] = next_ptr
    /\ \A k \in Nat :
         k < Written =>
           /\ item[k % Slots] >= k
           /\ Written <= k + Slots => item[k % Slots] = k

PositionInv ==
  /\ cursor >= -1
  /\ CommitWindow
  /\ NeverAhead
  /\ CursorExclusive
  /\ CursorsSettle
  /\ ConsumerChecked
---------------------------------------------------------------------------------
(* What a comment says of the ring and the code does not do.                    *)

\* ullc.h: "Disable overrun. Producers wait for slow consumers."  No claim
\* returns a slot whose item an attached consumer has not read yet.
NoOverrun ==
  overrun_enabled = INT64_MAX =>
    \A p \in Producer, c \in Owner :
      pc[p] = "write" => claimed[p] < c_cursor[id[c]] + Slots
=================================================================================
