----------------------------- MODULE ProgramCache -----------------------------
(***************************************************************************)
(* The process-wide cache of lowered encode programs for opaque fields:    *)
(* ProgramCache and inner_program in rust/phon/src/derive.rs.  Every       *)
(* encode of an opaque field looks its inner shape up under the read lock, *)
(* derives and lowers it with no lock held on a miss, and publishes under  *)
(* the write lock with entry().or_insert, so racing threads may build the  *)
(* same program and all but one build is dropped.                          *)
(*                                                                         *)
(* The read guard is a temporary of the `if let' and is dropped at its     *)
(* end, and the caller gets a clone of the Arc, so an encode that reaches  *)
(* a nested opaque field calls inner_program again with no lock held: a    *)
(* nested call is just the thread's next call.                             *)
(***************************************************************************)
EXTENDS Naturals

CONSTANTS
  Thread,      \* threads that encode
  Shape,       \* inner shapes, which are 'static: a key is never reused
  Unsupported, \* shapes that cannot be derived or lowered
  MaxCalls,    \* bound: calls one thread makes
  None, Nobody

(* One Arc<CachedLowered>: what it was lowered from, and which build it is. *)
Program == [shape : Shape, by : Thread, call : 1..MaxCalls]

ASSUME CacheAssumption ==
  /\ Unsupported \subseteq Shape
  /\ MaxCalls \in Nat
  /\ Nobody \notin Thread
  /\ None \notin Program

VARIABLES
  cache,     \* the HashMap: shape -> program, None when absent
  readers,   \* threads holding a read guard
  writer,    \* the thread holding the write guard, or Nobody
  pc,        \* where a thread is in inner_program
  want,      \* the shape of a thread's call, None between calls
  built,     \* the program a thread built and has not published
  calls,     \* how many calls a thread has made
  got,       \* history: per thread and shape, the last program it was given
  builds,    \* history: per thread and shape, how often it was built
  aborted    \* a panic left an extern "C" function: the process is gone

vars == <<cache, readers, writer, pc, want, built, calls, got, builds, aborted>>

Init ==
  /\ cache = [s \in Shape |-> None]
  /\ readers = {} /\ writer = Nobody
  /\ pc = [t \in Thread |-> "idle"]
  /\ want = [t \in Thread |-> None]
  /\ built = [t \in Thread |-> None]
  /\ calls = [t \in Thread |-> 0]
  /\ got = [t \in Thread |-> [s \in Shape |-> None]]
  /\ builds = [t \in Thread |-> [s \in Shape |-> 0]]
  /\ aborted = FALSE

At(t, label) == ~aborted /\ pc[t] = label
Goto(t, label) == pc' = [pc EXCEPT ![t] = label]
Return(t, p) ==
  /\ got' = [got EXCEPT ![t][want[t]] = p]
  /\ want' = [want EXCEPT ![t] = None]
  /\ Goto(t, "idle")

(* opaque_encode meets an opaque field of inner shape s.                    *)
Call(t, s) ==
  /\ At(t, "idle") /\ calls[t] < MaxCalls
  /\ Goto(t, "wantRead")
  /\ want' = [want EXCEPT ![t] = s]
  /\ calls' = [calls EXCEPT ![t] = @ + 1]
  /\ UNCHANGED <<cache, readers, writer, built, got, builds, aborted>>

AcquireRead(t) ==
  /\ At(t, "wantRead") /\ writer = Nobody
  /\ readers' = readers \cup {t}
  /\ Goto(t, "reading")
  /\ UNCHANGED <<cache, writer, want, built, calls, got, builds, aborted>>

(* The key is present: clone the Arc and drop the guard.                    *)
Hit(t) ==
  /\ At(t, "reading") /\ cache[want[t]] # None
  /\ Return(t, cache[want[t]])
  /\ readers' = readers \ {t}
  /\ UNCHANGED <<cache, writer, built, calls, builds, aborted>>

(* Mutant of Miss: the read guard lives on into the build.                  *)
Miss_KeepsGuard(t) ==
  /\ At(t, "reading") /\ cache[want[t]] = None
  /\ Goto(t, "building")
  /\ UNCHANGED <<cache, readers, writer, want, built, calls, got, builds, aborted>>

Miss(t) ==
  /\ At(t, "reading") /\ cache[want[t]] = None
  /\ readers' = readers \ {t}
  /\ Goto(t, "building")
  /\ UNCHANGED <<cache, writer, want, built, calls, got, builds, aborted>>

(* of_shape and lower_typed, with no lock held.                             *)
Build(t) ==
  /\ At(t, "building") /\ want[t] \notin Unsupported
  /\ built' = [built EXCEPT ![t] = [shape |-> want[t], by |-> t, call |-> calls[t]]]
  /\ builds' = [builds EXCEPT ![t][want[t]] = @ + 1]
  /\ Goto(t, "wantWrite")
  /\ UNCHANGED <<cache, readers, writer, want, calls, got, aborted>>

(* An inner shape Phon does not support is a panic inside an extern "C" fn. *)
Panic(t) ==
  /\ At(t, "building") /\ want[t] \in Unsupported
  /\ aborted' = TRUE
  /\ UNCHANGED <<cache, readers, writer, pc, want, built, calls, got, builds>>

AcquireWrite(t) ==
  /\ At(t, "wantWrite") /\ writer = Nobody /\ readers = {}
  /\ writer' = t
  /\ Goto(t, "writing")
  /\ UNCHANGED <<cache, readers, want, built, calls, got, builds, aborted>>

(* Mutants of Publish: insert instead of or_insert; the caller is handed    *)
(* its own build even when another thread's was there first.                *)
Publish_Inserts(t) ==
  /\ At(t, "writing")
  /\ cache' = [cache EXCEPT ![want[t]] = built[t]]
  /\ Return(t, built[t])
  /\ built' = [built EXCEPT ![t] = None]
  /\ writer' = Nobody
  /\ UNCHANGED <<readers, calls, builds, aborted>>
Publish_ReturnsOwn(t) ==
  /\ At(t, "writing")
  /\ cache' = [cache EXCEPT ![want[t]] = IF @ = None THEN built[t] ELSE @]
  /\ Return(t, built[t])
  /\ built' = [built EXCEPT ![t] = None]
  /\ writer' = Nobody
  /\ UNCHANGED <<readers, calls, builds, aborted>>

(* entry(key).or_insert(program), clone, drop the guard.                    *)
Publish(t) ==
  /\ At(t, "writing")
  /\ cache' = [cache EXCEPT ![want[t]] = IF @ = None THEN built[t] ELSE @]
  /\ Return(t, cache'[want[t]])
  /\ built' = [built EXCEPT ![t] = None]
  /\ writer' = Nobody
  /\ UNCHANGED <<readers, calls, builds, aborted>>

Step(t) ==
  \/ AcquireRead(t) \/ Hit(t) \/ Miss(t)
  \/ Build(t) \/ Panic(t)
  \/ AcquireWrite(t) \/ Publish(t)

Next == \E t \in Thread : Step(t) \/ \E s \in Shape : Call(t, s)

Spec == Init /\ [][Next]_vars
FairSpec == Spec /\ \A t \in Thread : WF_vars(Step(t))

-----------------------------------------------------------------------------
TypeOK ==
  /\ cache \in [Shape -> Program \cup {None}]
  /\ readers \subseteq Thread /\ writer \in Thread \cup {Nobody}
  /\ pc \in [Thread -> {"idle", "wantRead", "reading", "building", "wantWrite", "writing"}]
  /\ want \in [Thread -> Shape \cup {None}]
  /\ built \in [Thread -> Program \cup {None}]
  /\ calls \in [Thread -> 0..MaxCalls]
  /\ got \in [Thread -> [Shape -> Program \cup {None}]]
  /\ builds \in [Thread -> [Shape -> Nat]]
  /\ aborted \in BOOLEAN

(* The guards and the code points agree, and the write guard is exclusive.  *)
Locking ==
  /\ \A t \in Thread : t \in readers <=> pc[t] = "reading"
  /\ \A t \in Thread : writer = t <=> pc[t] = "writing"
  /\ writer # Nobody => readers = {}

(* A shape's settled program was made from that shape, and whoever was ever *)
(* given a program for it was given that one.                               *)
Shared ==
  \A s \in Shape :
    /\ cache[s] # None => cache[s].shape = s
    /\ \A t \in Thread : got[t][s] # None => got[t][s] = cache[s]

(* A program on its way to the cache was made from the shape it is for.     *)
Pending == \A t \in Thread :
  /\ pc[t] # "idle" => want[t] \in Shape /\ calls[t] > 0
  /\ pc[t] \in {"wantWrite", "writing"} => built[t] \in Program /\ built[t].shape = want[t]

(* Racing builds are bounded: a thread builds a shape at most once, ever,   *)
(* and what it built is in the cache or in its hands.                       *)
BuiltOnce == \A t \in Thread, s \in Shape :
  /\ builds[t][s] <= 1
  /\ pc[t] = "building" /\ want[t] = s => builds[t][s] = 0
  /\ builds[t][s] = 1 => cache[s] # None \/ (want[t] = s /\ pc[t] \in {"wantWrite", "writing"})

IInv == TypeOK /\ Locking /\ Shared /\ Pending /\ BuiltOnce

MadeFrom(p) == p.shape
Once == INSTANCE OnceMap WITH table <- cache

(* Callers cannot tell the racing cache from a map that is settled once.    *)
SettledOnce == Once!Spec

(* No thread waits for ever: every call returns, unless a panic ended the   *)
(* process.                                                                 *)
CallsReturn == \A t \in Thread : (pc[t] # "idle") ~> (pc[t] = "idle" \/ aborted)
=============================================================================
