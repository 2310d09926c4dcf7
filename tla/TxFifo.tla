--------------------------------- MODULE TxFifo ---------------------------------
(***************************************************************************)
(* The words src/eth_tx.rs writes to the FIFO of the transmit program, and *)
(* what of them reaches the wire.                                          *)
(*                                                                         *)
(* The program takes a word, eight bits or the end of a frame, whenever it *)
(* is done with the last one, and leaves the line idle without one.  Core  *)
(* 0 writes with interrupts off, much faster than that: in the middle of a *)
(* transmission the program never finds the FIFO empty.  Before each, core *)
(* 0 waits for the wire, as CarrierSense has it: any time may pass.        *)
(*                                                                         *)
(* A word is its place in its frame and the frame's length; a link pulse   *)
(* is a frame of one word.                                                 *)
(***************************************************************************)
EXTENDS Integers, Sequences

CONSTANTS
  FifoDepth,   \* words the FIFO holds, 8
  Pad,         \* idle words after a frame or a link pulse, 12
  FrameWords   \* bound: words of a frame, from the preamble to TP_IDL

ASSUME TxFifoAssumption ==
  /\ {FifoDepth, Pad} \subseteq Nat \ {0}
  /\ FrameWords \subseteq Nat \ {0}

VARIABLES
  words,    \* words core 0 has still to write
  fifo,     \* words in the FIFO
  line,     \* word on the wire
  gap       \* history: idle words on the wire since any other, Pad at most

fifoVars == <<words, fifo, line, gap>>

Idle == [place |-> 0, of |-> 0]
Frame(n) == [i \in 1 .. n |-> [place |-> i, of |-> n]]
Idles == [i \in 1 .. Pad |-> Idle]

--------------------------------------------------------------------------------
\* send_raw_frame and send_udp_broadcast: the words of the frame, TP_IDL and the pad.
SendFrame ==
  /\ words = <<>>
  /\ \E n \in FrameWords : words' = Frame(n) \o Idles
  /\ UNCHANGED <<fifo, line, gap>>

\* send_nlp: the pulse is written once, and lost if the FIFO has no room for it.
SendNlp ==
  /\ words = <<>>
  /\ words' = Idles
  /\ fifo' = IF Len(fifo) < FifoDepth THEN fifo \o Frame(1) ELSE fifo
  /\ UNCHANGED <<line, gap>>

WriteOnce ==
  /\ words # <<>>
  /\ fifo' = IF Len(fifo) < FifoDepth THEN Append(fifo, Head(words)) ELSE fifo
  /\ words' = Tail(words)
  /\ UNCHANGED <<line, gap>>

\* Every other word is written until the FIFO takes it.
Write ==
  /\ words # <<>>
  /\ Len(fifo) < FifoDepth
  /\ fifo' = Append(fifo, Head(words))
  /\ words' = Tail(words)
  /\ UNCHANGED <<line, gap>>

\* The transmit program: the next word, or an idle line while core 0 writes none.
Shift ==
  /\ fifo # <<>> \/ words = <<>>
  /\ line' = IF fifo = <<>> THEN Idle ELSE Head(fifo)
  /\ fifo' = IF fifo = <<>> THEN fifo ELSE Tail(fifo)
  /\ gap' = IF line' # Idle THEN 0 ELSE IF gap < Pad THEN gap + 1 ELSE Pad
  /\ UNCHANGED words

FifoInit == words = <<>> /\ fifo = <<>> /\ line = Idle /\ gap = Pad
FifoNext == SendFrame \/ SendNlp \/ Write \/ Shift

--------------------------------------------------------------------------------
(***************************************************************************)
(* Properties                                                              *)
(***************************************************************************)

(***************************************************************************)
(* "Without it, back-to-back frames fail FCS at the host": a frame or link *)
(* pulse starts on a line that has been idle for the whole pad, and a      *)
(* frame that has started goes on to its last word without a break,        *)
(* whatever fills the FIFO when it is sent.                                *)
(***************************************************************************)
FramesSpaced ==
  [][Shift =>
       /\ line'.place = 1 => gap = Pad
       /\ line.place < line.of \/ line'.place > 1 =>
            line' = [line EXCEPT !.place = @ + 1]]_fifoVars
================================================================================
