------------------------------- MODULE Pairing -------------------------------
(***************************************************************************)
(* How the scoreboard pairs what the monitors report (Scoreboard.sv): an   *)
(* entry waits in the queue of its key, an exit takes the oldest entry of  *)
(* its key.  The key is all the scoreboard compares: two flits with one    *)
(* key are the same flit to it.                                            *)
(***************************************************************************)
EXTENDS Integers, Sequences, FiniteSets

CONSTANTS
  Terminals,    \* of the mesh, each with a monitor
  Flits,
  Keys,         \* values of key_t
  KeyOf         \* make_key_from_data: the key of each flit

\* Flits and keys are vectors of 40 and 32 bits.
ASSUME KeysAssumption ==
  /\ IsFiniteSet(Terminals) /\ IsFiniteSet(Flits) /\ IsFiniteSet(Keys)
  /\ KeyOf \in [Flits -> Keys]

VARIABLES
  exp_q,      \* per key, the entries without an exit, oldest first
  row,        \* the last row of router_report.csv: <<entry, exit>> (OK) or <<exit>>
  n_in, n_out, n_match, n_miss

scoreboard == <<exp_q, row, n_in, n_out, n_match, n_miss>>

In(f)  == [ev_kind |-> "EV_IN", data |-> f]
Out(f) == [ev_kind |-> "EV_OUT", data |-> f]

ScoreboardInit ==
  /\ exp_q = [k \in Keys |-> <<>>]
  /\ row = <<>>
  /\ n_in = 0 /\ n_out = 0 /\ n_match = 0 /\ n_miss = 0

\* Mutant: an exit is matched only if a second entry is pending.
Matches_Two(k) == Len(exp_q[k]) > 1

Matches(k) == exp_q[k] # <<>>

\* Mutant: the newest entry is put in front.
StoreIn_Front(f) ==
  /\ exp_q' = [exp_q EXCEPT ![KeyOf[f]] = <<f>> \o @]
  /\ n_in' = n_in + 1
  /\ UNCHANGED <<row, n_out, n_match, n_miss>>

\* write, EV_IN: the entry is queued under its key.
StoreIn(f) ==
  /\ exp_q' = [exp_q EXCEPT ![KeyOf[f]] = Append(@, f)]
  /\ n_in' = n_in + 1
  /\ UNCHANGED <<row, n_out, n_match, n_miss>>

\* Mutant: an exit that matches leaves its entry in the queue.
MatchOut_Keep(f) ==
  /\ n_out' = n_out + 1
  /\ IF Matches(KeyOf[f])
     THEN row' = <<Head(exp_q[KeyOf[f]]), f>> /\ n_match' = n_match + 1
                                              /\ UNCHANGED n_miss
     ELSE row' = <<f>> /\ n_miss' = n_miss + 1 /\ UNCHANGED n_match
  /\ UNCHANGED <<n_in, exp_q>>

\* write, EV_OUT: the exit takes the oldest entry of its key, or is a miss.
MatchOut(f) ==
  /\ n_out' = n_out + 1
  /\ IF Matches(KeyOf[f])
     THEN /\ row' = <<Head(exp_q[KeyOf[f]]), f>>
          /\ exp_q' = [exp_q EXCEPT ![KeyOf[f]] = Tail(@)]
          /\ n_match' = n_match + 1
          /\ UNCHANGED n_miss
     ELSE /\ row' = <<f>>
          /\ n_miss' = n_miss + 1
          /\ UNCHANGED <<exp_q, n_match>>
  /\ UNCHANGED n_in

Write(it) == IF it.ev_kind = "EV_IN" THEN StoreIn(it.data) ELSE MatchOut(it.data)
=============================================================================
