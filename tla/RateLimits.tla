----------------------------- MODULE RateLimits -----------------------------
(***************************************************************************)
(* The rate limiter of one source address: hits are counted in a window; a  *)
(* hit beyond the budget blocks the address, and each block in a row is     *)
(* twice as long as the one before, up to a longest one (BackoffLimiter;    *)
(* its counting is that of FixedWindowLimiter).  The three keys live in     *)
(* Redis, each written by INCR and EXPIRE, and hits overlap.                *)
(***************************************************************************)
EXTENDS Integers

CONSTANTS
  Hits,      \* requests from the address
  Budget,    \* policy.max
  Window,    \* policy.windowSeconds, and so on, in ticks of the clock
  Base,
  Longest,
  Memory,
  Rounds,    \* bound: how often a request of the address is followed by another
  Crashes    \* bound: how often a process dies

ASSUME PolicyAssumption ==
  /\ Budget \in Nat /\ Crashes \in Nat /\ Rounds \in Nat
  /\ Window \in Nat \ {0} /\ Base \in Nat \ {0} /\ Longest \in Nat \ {0} /\ Memory \in Nat \ {0}

VARIABLES
  count,    \* the three keys: value and remaining time
  penalty,
  block,
  hit,      \* how far a request has come
  rounds,
  crashes,
  allowed   \* history: hits let through since the count key was last gone

keys == <<count, penalty, block>>
rateVars == <<keys, hit, rounds, crashes, allowed>>

Forever == -1
Absent  == [value |-> 0, ttl |-> Forever]
Stages  == {"new", "count", "window", "penalty", "memory", "block", "hold",
            "let", "limited", "crashed"}

Lesser(m, n) == IF m < n THEN m ELSE n

(* Doubled with every penalty, up to the longest. *)
Backoff(penalties) == Lesser(Base * 2^(penalties - 1), Longest)

Key(longest) == {k \in [value : Nat, ttl : {Forever} \cup 1..longest] : k.value = 0 => k = Absent}

RatesTypeOK ==
  /\ count \in Key(Window) /\ penalty \in Key(Memory) /\ block \in Key(Longest)
  /\ hit \in [Hits -> [stage : Stages, level : Nat]]
  /\ rounds \in 0..Rounds /\ crashes \in 0..Crashes
  /\ allowed \in Nat

RatesInit ==
  /\ count = Absent /\ penalty = Absent /\ block = Absent
  /\ hit = [h \in Hits |-> [stage |-> "new", level |-> 0]]
  /\ rounds = 0 /\ crashes = 0 /\ allowed = 0

To(h, stage)  == hit' = [hit EXCEPT ![h].stage = stage]
At(h, stage)  == hit[h].stage = stage
Incr(k)       == [k EXCEPT !.value = k.value + 1]
Expiring(k, t) == IF k.value = 0 THEN k ELSE [k EXCEPT !.ttl = t]
Blocked       == block.ttl # Forever

-----------------------------------------------------------------------------
(* A hit *)

CheckBlock(h) ==
  /\ At(h, "new")
  /\ To(h, IF Blocked THEN "limited" ELSE "count")
  /\ UNCHANGED <<keys, rounds, crashes, allowed>>

Count(h) ==
  /\ At(h, "count")
  /\ count' = Incr(count)
  /\ To(h, IF count.value = 0 THEN "window" ELSE IF count.value < Budget THEN "let" ELSE "penalty")
  /\ allowed' = IF count.value < Budget THEN allowed + 1 ELSE allowed
  /\ UNCHANGED <<penalty, block, rounds, crashes>>

(* Mutation: no EXPIRE for a hit within the budget. *)
NoWindow(h) ==
  /\ At(h, "window")
  /\ To(h, IF Budget > 0 THEN "let" ELSE "penalty")
  /\ UNCHANGED <<keys, rounds, crashes, allowed>>

(* The first hit starts the window. *)
StartWindow(h) ==
  /\ At(h, "window")
  /\ count' = Expiring(count, Window)
  /\ To(h, IF Budget > 0 THEN "let" ELSE "penalty")
  /\ UNCHANGED <<penalty, block, rounds, crashes, allowed>>

(* The level is what INCR returned. *)
Penalise(h) ==
  /\ At(h, "penalty")
  /\ penalty' = Incr(penalty)
  /\ hit' = [hit EXCEPT ![h] = [stage |-> IF penalty.value = 0 THEN "memory" ELSE "block",
                                level |-> penalty.value + 1]]
  /\ UNCHANGED <<count, block, rounds, crashes, allowed>>

Remember(h) ==
  /\ At(h, "memory")
  /\ penalty' = Expiring(penalty, Memory)
  /\ To(h, "block")
  /\ UNCHANGED <<count, block, rounds, crashes, allowed>>

Block(h) ==
  /\ At(h, "block")
  /\ block' = Incr(block)
  /\ To(h, "hold")
  /\ UNCHANGED <<count, penalty, rounds, crashes, allowed>>

(* Mutation: the block is not capped. *)
HoldLong(h) ==
  /\ At(h, "hold")
  /\ block' = Expiring(block, Base * hit[h].level)
  /\ hit' = [hit EXCEPT ![h] = [stage |-> "limited", level |-> 0]]
  /\ UNCHANGED <<count, penalty, rounds, crashes, allowed>>

Hold(h) ==
  /\ At(h, "hold")
  /\ block' = Expiring(block, Backoff(hit[h].level))
  /\ hit' = [hit EXCEPT ![h] = [stage |-> "limited", level |-> 0]]
  /\ UNCHANGED <<count, penalty, rounds, crashes, allowed>>

(* The process dies; the caller comes again. *)
Crash(h) ==
  /\ hit[h].stage \notin {"new", "let", "limited", "crashed"} /\ crashes < Crashes
  /\ crashes' = crashes + 1
  /\ hit' = [hit EXCEPT ![h] = [stage |-> "crashed", level |-> 0]]
  /\ UNCHANGED <<keys, rounds, allowed>>

Again(h) ==
  /\ hit[h].stage \in {"let", "limited", "crashed"}
  /\ rounds < Rounds /\ rounds' = rounds + 1
  /\ To(h, "new")
  /\ UNCHANGED <<keys, crashes, allowed>>

-----------------------------------------------------------------------------
(* Time *)

Older(k) == IF k.ttl = Forever THEN k ELSE IF k.ttl = 1 THEN Absent ELSE [k EXCEPT !.ttl = k.ttl - 1]

Tick ==
  /\ \E k \in {count, penalty, block} : k.ttl # Forever
  /\ count' = Older(count) /\ penalty' = Older(penalty) /\ block' = Older(block)
  /\ allowed' = IF count.ttl = 1 THEN 0 ELSE allowed
  /\ UNCHANGED <<hit, rounds, crashes>>

Answer(h) == \/ CheckBlock(h) \/ Count(h) \/ StartWindow(h) \/ Penalise(h)
             \/ Remember(h) \/ Block(h) \/ Hold(h)

RatesNext == (\E h \in Hits : Answer(h) \/ Crash(h) \/ Again(h)) \/ Tick

RatesSpec == RatesInit /\ [][RatesNext]_rateVars

(* Time passes and a hit that was begun is answered. *)
RatesFairSpec == RatesSpec /\ WF_rateVars(Tick) /\ \A h \in Hits : WF_rateVars(~At(h, "new") /\ Answer(h))

Present(k) == CASE k = "count" -> count.value > 0 [] k = "penalty" -> penalty.value > 0
                [] k = "block" -> block.value > 0

-----------------------------------------------------------------------------
(* No more hits than the budget are let through in one window, and no block
   lasts longer than the longest, however hits overlap. *)
RatesInv == RatesTypeOK /\ allowed <= Budget

(* "All three keys carry independent TTLs, none of them can leak forever"
   (limiter.ts, BackoffLimiter): an address leaves no trace, unless a
   process died between the INCR and the EXPIRE of a key. *)
NoTrace == \A k \in {"count", "penalty", "block"} : Present(k) ~> ~Present(k) \/ crashes > 0
=============================================================================
