-------------------------------- MODULE MCThreads --------------------------------
(***************************************************************************)
(* Small instances of what the connection thread and the user of its       *)
(* connections have in common: the turn that they take (the module that is *)
(* extended) and the rings of a connection's bytes, which each of them     *)
(* fills or empties without a turn.  A behaviour is a behaviour of one of  *)
(* them, `part`; the other rests.                                          *)
(***************************************************************************)
EXTENDS SynNotify, Sequences

CONSTANTS Parts,                                          \* the parts checked
          BlockSize, MaxBlocks, MaxBytes, Lens, Dirs      \* StreamBuffers

VARIABLES part, dir, blocks, link, fillBlk, takeBlk, filler, taker, made, taken     \* StreamBuffers

streamVars == <<dir, blocks, link, fillBlk, takeBlk, filler, taker, made, taken>>

\* Two blocks that fill up, a third to go on in, and reads and messages shorter
\* than, as long as and longer than a block.
Streams == INSTANCE StreamBuffers

AllParts == {"turns", "streams"}
ASSUME PartsAssumption == Parts \subseteq AllParts
ASSUME StreamsAssumption == Streams!SizeAssumption /\ Streams!LensAssumption /\ Streams!DirsAssumption

\* A part that rests has one of its initial states.
PartsInit == /\ part \in Parts
             /\ Init /\ (part = "turns" \/ stopper = "user")
             /\ Streams!Init /\ (part = "streams" \/ dir = "in")

Alone(p) == /\ part = p /\ UNCHANGED part
            /\ p # "turns" => UNCHANGED vars
            /\ p # "streams" => UNCHANGED streamVars

PartsNext == \/ Alone("turns") /\ Next
             \/ Alone("streams") /\ Streams!Next

partVars == <<part, vars, streamVars>>

\* What SynNotify asks of its threads; a part that rests asks nothing.
PartsFairness ==
  /\ WF_vars(part = "turns" /\ Connecting) /\ WF_vars(part = "turns" /\ Call) /\ SF_vars(part = "turns" /\ UserEnds)
  /\ \A t \in Callers : WF_vars(part = "turns" /\ Waiting(t))

PartsSpec == PartsInit /\ [][PartsNext]_partVars /\ PartsFairness

-----------------------------------------------------------------------------
\* No byte of a connection is lost, taken twice or taken out of order, no read comes short, and a
\* package that has come is found (CConnectManager::readFromConnect, writeToConnect,
\* CDataHandler::readData, write).
StreamSound == part = "streams" => /\ Streams!TypeOK /\ Streams!NoneLost /\ Streams!ReceivedInOrder
                                   /\ Streams!NeverShort /\ Streams!TwoBlocksSuffice

=================================================================================
