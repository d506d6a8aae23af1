----------------------------- MODULE ModelStore ------------------------------
(***************************************************************************)
(* Start-up of the ML engine: every uvicorn worker loads the two models    *)
(* from the shared volume, or trains a model and writes it there when its  *)
(* file does not exist (ml-engine/app/main.py, app/models/*.py).           *)
(*                                                                         *)
(* joblib.dump truncates the file and then writes it; the bytes are the    *)
(* same whoever writes them, the training is seeded.  A file is whole once *)
(* a writer has finished whose bytes nobody truncated meanwhile.  The      *)
(* supervisor restarts a worker that exited.                               *)
(***************************************************************************)
EXTENDS Integers, FiniteSets

CONSTANTS Workers,     (* the worker processes: 2 in the Dockerfile           *)
          MaxCrashes   (* bound: workers killed while they start or serve     *)

ASSUME ModelStoreAssumption == MaxCrashes \in Nat

Models == 1..2   (* lifespan loads isolation_forest first, then xgboost       *)

VARIABLES file,     (* the state of each model's file on the volume           *)
          pc,       (* where each worker stands                               *)
          at,       (* the model a worker is at                               *)
          clean,    (* a writer none of whose bytes were truncated            *)
          crashes   (* workers killed so far                                  *)

storeVars == <<file, pc, at, clean, crashes>>

PCs == {"check", "load", "train", "dump", "serving", "down"}

StoreTypeOK ==
  /\ file \in [Models -> {"absent", "partial", "whole"}]
  /\ pc \in [Workers -> PCs]
  /\ at \in [Workers -> Models]
  /\ clean \in [Workers -> BOOLEAN]
  /\ crashes \in 0..MaxCrashes

StoreInit ==
  /\ file = [m \in Models |-> "absent"]
  /\ pc = [w \in Workers |-> "check"]
  /\ at = [w \in Workers |-> 1]
  /\ clean = [w \in Workers |-> FALSE]
  /\ crashes = 0

Goto(w, l) == pc' = [pc EXCEPT ![w] = l]

NextModel_NoLast(w) == Goto(w, "check") /\ at' = [at EXCEPT ![w] = @ + 1]

(* The model is in memory: go on to the next one, or serve.                *)
NextModel(w) ==
  \/ at[w] < 2 /\ Goto(w, "check") /\ at' = [at EXCEPT ![w] = @ + 1]
  \/ at[w] = 2 /\ Goto(w, "serving") /\ UNCHANGED at
-----------------------------------------------------------------------------
CheckFile_Inverted(w) ==
  /\ pc[w] = "check"
  /\ Goto(w, IF file[at[w]] = "absent" THEN "load" ELSE "train")
  /\ UNCHANGED <<file, at, clean, crashes>>

(* os.path.exists: a file counts as soon as somebody opened it to write.   *)
CheckFile(w) ==
  /\ pc[w] = "check"
  /\ Goto(w, IF file[at[w]] = "absent" THEN "train" ELSE "load")
  /\ UNCHANGED <<file, at, clean, crashes>>

(* joblib.load of an incomplete file raises, and the worker exits.         *)
Load(w) ==
  /\ pc[w] = "load"
  /\ \/ file[at[w]] = "whole" /\ NextModel(w)
     \/ file[at[w]] = "partial" /\ Goto(w, "down") /\ UNCHANGED at
  /\ UNCHANGED <<file, clean, crashes>>

(* The model is trained and its file opened for writing, which truncates   *)
(* what another worker wrote.                                              *)
Train(w) ==
  /\ pc[w] = "train"
  /\ file' = [file EXCEPT ![at[w]] = "partial"]
  /\ clean' = [v \in Workers |-> v = w \/ (clean[v] /\ ~(pc[v] = "dump" /\ at[v] = at[w]))]
  /\ Goto(w, "dump")
  /\ UNCHANGED <<at, crashes>>

Dump_OwnBytes(w) ==
  /\ pc[w] = "dump"
  /\ file' = [file EXCEPT ![at[w]] =
                IF \E v \in Workers \ {w} : pc[v] = "dump" /\ at[v] = at[w]
                THEN "partial" ELSE "whole"]
  /\ clean' = [v \in Workers |-> clean[v] /\ v # w /\ at[v] # at[w]]
  /\ NextModel(w)
  /\ UNCHANGED crashes

(* The writer is done with its file.                                       *)
Dump(w) ==
  /\ pc[w] = "dump"
  /\ file' = [file EXCEPT ![at[w]] = IF clean[w] THEN "whole" ELSE @]
  /\ clean' = [clean EXCEPT ![w] = FALSE]
  /\ NextModel(w)
  /\ UNCHANGED crashes

(* A worker is killed, out of memory or with its container, or its disk    *)
(* is full.                                                                *)
Kill(w) ==
  /\ pc[w] # "down" /\ crashes < MaxCrashes
  /\ crashes' = crashes + 1
  /\ clean' = [clean EXCEPT ![w] = FALSE]
  /\ Goto(w, "down")
  /\ UNCHANGED <<file, at>>

(* External: the supervisor, or the container's restart policy.            *)
Restart(w) ==
  /\ pc[w] = "down"
  /\ Goto(w, "check")
  /\ at' = [at EXCEPT ![w] = 1]
  /\ UNCHANGED <<file, clean, crashes>>

Run(w) == CheckFile(w) \/ Load(w) \/ Train(w) \/ Dump(w) \/ Restart(w)

StoreNext == \E w \in Workers : Run(w) \/ Kill(w)

(* Workers are processes of their own and none waits for another one.      *)
StoreFairness == \A w \in Workers : WF_storeVars(Run(w))

StoreSpec == StoreInit /\ [][StoreNext]_storeVars /\ StoreFairness
-----------------------------------------------------------------------------
(* A file nobody will complete: a writer was killed over it.               *)
Torn(m) ==
  /\ file[m] = "partial"
  /\ ~\E w \in Workers : pc[w] = "dump" /\ at[w] = m /\ clean[w]

(* A crash tears one file at most, and nothing else tears any: concurrent  *)
(* writers never leave a broken file behind, though each truncates what    *)
(* the other wrote.                                                        *)
TornOnlyByCrash == Cardinality({m \in Models : Torn(m)}) =< crashes

(* Every worker serves in the end unless a file is torn: a load that found *)
(* a half-written file is repeated after the restart.                      *)
ServesUnlessTorn ==
  \A w \in Workers : pc[w] = "check" ~> pc[w] = "serving" \/ \E m \in Models : Torn(m)
=============================================================================
