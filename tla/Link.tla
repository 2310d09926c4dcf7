---------------------------------- MODULE Link ----------------------------------
(***************************************************************************)
(* The board's end of the 10BASE-T line: the samples stitched into images  *)
(* (RxCarry), one run of an image decoded (EdgeTrack), core 0 waiting for  *)
(* the wire beside the carrier-detect program (CarrierSense), or the words *)
(* of its transmissions going through the FIFO (TxFifo).                   *)
(*                                                                         *)
(* The four share no state in the code.  The decoder reads a run of an     *)
(* image poll_into has finished; the carrier program and the transmit      *)
(* program are separate state machines of PIO0, and core 0 has stopped     *)
(* looking at the one when it writes to the other.  So a behaviour follows *)
(* one of them.                                                            *)
(***************************************************************************)
EXTENDS RxCarry, EdgeTrack, CarrierSense, TxFifo

VARIABLE part   \* the part of the line that is followed

linkVars == <<part, vars, edgeVars, senseVars, fifoVars>>

LinkInit ==
  /\ part \in {"stitch", "decode", "sense", "send"}
  /\ Init /\ EdgeInit /\ SenseInit /\ FifoInit
  \* A run nobody decodes is the same for all.
  /\ part = "decode" \/ (cur.half = 3 /\ header = CHOOSE h \in Headers : TRUE)

LinkNext ==
  /\ UNCHANGED part
  /\ \/ part = "stitch" /\ Next /\ UNCHANGED <<edgeVars, senseVars, fifoVars>>
     \/ part = "decode" /\ EdgeNext /\ UNCHANGED <<vars, senseVars, fifoVars>>
     \/ part = "sense" /\ SenseNext /\ UNCHANGED <<vars, edgeVars, fifoVars>>
     \/ part = "send" /\ FifoNext /\ UNCHANGED <<vars, edgeVars, senseVars>>

\* Core 0 goes on: nothing it does here waits for more than a bounded number of looks.
LinkSpec == LinkInit /\ [][LinkNext]_linkVars /\ WF_senseVars(Wait \/ Acquire \/ Transmit)
================================================================================
