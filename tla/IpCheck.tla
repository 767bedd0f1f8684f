--------------------------------- MODULE IpCheck ---------------------------------
(***************************************************************************)
(* The white and black lists of peers (CNetMsgComm::reLoadCfg,             *)
(* generateIPList, checkPeerIp): the service thread reads them from files, *)
(* at its start and again whenever the configuration was changed, and the  *)
(* connection thread looks a peer up in them when it connects.             *)
(*                                                                         *)
(* A list is a map from a mask to the addresses listed with it.  Addresses *)
(* have Bits bits (32 in the code) and masks stand for their lengths.  A   *)
(* look-up is one step, the best that can come of two threads in one map.  *)
(***************************************************************************)
EXTENDS Naturals, Sequences, FiniteSets

CONSTANTS Bits,
          Configs,     \* what the files may hold: a mode and a list of <<address, mask length>>
          MaxReloads,  \* bound on the changes of the configuration
          Concurrent   \* do peers connect while the lists are read?

Addresses == 0..(2 ^ Bits - 1)
Modes == {"normal", "white", "black"}

VARIABLES file,              \* the configuration
          old,               \* the one read before it
          pc, at,            \* the service thread in reLoadCfg; `at` is the line of the list it is at
          mode,              \* m_ipAttributeMode
          white, black,      \* m_whiteListIP, m_blackListIP: pairs of a mask and an address
          started,           \* the connection thread runs
          verdict,           \* the last look-up: the peer and whether it was let in
          noMask,            \* what 0xFFFFFFFF << 32 comes to: the mask length it is taken for
          reloads

vars == <<file, old, pc, at, mode, white, black, started, verdict, noMask, reloads>>

NoVerdict == <<>>

Init == /\ file \in Configs /\ old = file
        /\ pc = "clear" /\ at = 1
        /\ mode = "normal" /\ white = {} /\ black = {}
        /\ started = FALSE /\ verdict = NoVerdict
        /\ noMask \in {0, Bits}
        /\ reloads = 0

-----------------------------------------------------------------------------
\* MUTANT of Bitand: the mask is one bit short.
BitandShort(a, m) == LET low == 2 ^ (Bits - m + 1) IN a - (a % low)

\* a & mask, for the mask of length m.
Bitand(a, m) == LET low == 2 ^ (Bits - m) IN a - (a % low)

\* 0xFFFFFFFF << (32 - m), undefined for m = 0.
Mask(m) == IF m = 0 THEN noMask ELSE m

\* MUTANT of ClearWhat: what is read is added to the lists.
ClearWhatNot == <<white, black>>

ClearWhat == <<{}, {}>>

Clear == /\ pc = "clear"
         /\ pc' = "mode"
         /\ white' = ClearWhat[1] /\ black' = ClearWhat[2]
         /\ UNCHANGED <<file, old, at, mode, started, verdict, noMask, reloads>>

SetMode == /\ pc = "mode"
           /\ mode' = file.mode
           /\ pc' = IF file.mode = "normal" THEN "loaded" ELSE "list"
           /\ at' = 1
           /\ UNCHANGED <<file, old, white, black, started, verdict, noMask, reloads>>

\* A line of the file: the address goes into the list as it is written.
ReadLine ==
  /\ pc = "list" /\ at <= Len(file.list)
  /\ LET e == file.list[at]
         entry == {<<Mask(e[2]), e[1]>>}
     IN IF mode = "white" THEN white' = white \cup entry /\ UNCHANGED black
                          ELSE black' = black \cup entry /\ UNCHANGED white
  /\ at' = at + 1
  /\ UNCHANGED <<file, old, pc, mode, started, verdict, noMask, reloads>>

Loaded == /\ \/ pc = "loaded"
             \/ pc = "list" /\ at > Len(file.list)
          /\ pc' = "run" /\ started' = TRUE /\ old' = file
          /\ UNCHANGED <<file, at, mode, white, black, verdict, noMask, reloads>>

\* The files are changed and the service is told.
Update == /\ pc = "run" /\ reloads < MaxReloads
          /\ file' \in Configs \ {file}
          /\ pc' = "clear" /\ reloads' = reloads + 1 /\ verdict' = NoVerdict
          /\ UNCHANGED <<old, at, mode, white, black, started, noMask>>

Listed(list, peer) == \E e \in list : Bitand(peer, e[1]) = e[2]

\* A peer connects.
CheckPeerIp(peer) ==
  /\ started /\ (Concurrent \/ pc = "run")
  /\ verdict' = <<peer, \/ mode = "normal"
                        \/ /\ peer # 0
                           /\ IF mode = "white" THEN Listed(white, peer) ELSE ~Listed(black, peer)>>
  /\ UNCHANGED <<file, old, pc, at, mode, white, black, started, noMask, reloads>>

Next == Clear \/ SetMode \/ ReadLine \/ Loaded \/ Update \/ \E peer \in Addresses : CheckPeerIp(peer)

Spec == Init /\ [][Next]_vars

-----------------------------------------------------------------------------
TypeOK == /\ file \in Configs /\ old \in Configs /\ mode \in Modes
          /\ white \subseteq (0..Bits) \X Addresses /\ black \subseteq (0..Bits) \X Addresses
          /\ pc = "list" => at \in 1..(Len(file.list) + 1)

\* The network an entry names: the addresses that share its first bits.
Network(e) == LET low == 2 ^ (Bits - e[2]) IN {a \in Addresses : a \div low = e[1] \div low}
Networks(cfg) == UNION {Network(cfg.list[i]) : i \in DOMAIN cfg.list}
Admitted(cfg, peer) == CASE cfg.mode = "normal" -> TRUE
                         [] cfg.mode = "white" -> peer # 0 /\ peer \in Networks(cfg)
                         [] cfg.mode = "black" -> peer # 0 /\ peer \notin Networks(cfg)

\* A peer is let in as the lists of the files say: those read last or, while
\* they are read again, those read before or those in the files now.
AsListed == verdict # NoVerdict =>
              \E cfg \in {file, old} : verdict[2] = Admitted(cfg, verdict[1])

=============================================================================
