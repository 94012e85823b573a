--------------------------- MODULE ClosingProofs ---------------------------
(***************************************************************************)
(* Proofs about Closing: an io.EOF is clean at both sides and a session    *)
(* that ends as reset by its peer was, for every number of carriers and of *)
(* bytes and every plan.  ClosingRedial builds on it.  What a frame        *)
(* on its way may say of its sender is the set Frame(s), which only grows  *)
(* as the sender goes on: a frame stays true while it is delayed,          *)
(* whichever carrier it comes in on.                                       *)
(***************************************************************************)
EXTENDS Closing, TLAPS

-----------------------------------------------------------------------------
(* The inductive invariant.                                                *)

\* The frames that may be on their way to s, given what its peer has done
Frame(s) ==
    [t : {"DATA"}, off : {n \in Nat : n < wrote[Peer(s)]}]
    \cup [t : {"FIN"}, off : {fin[Peer(s)]} \ {None}]
    \cup [t : {"ACK"}, del : Nat, fin : {b \in BOOLEAN : b => FinDelivered(Peer(s))},
          done : {b \in BOOLEAN : b => doneSent[Peer(s)]}]
    \cup [t : {"JOIN", "JOIN_ACK"}, rx : Nat]
    \cup [t : {"UNKNOWN"}, code : {b \in BOOLEAN : b => rst[Peer(s)] # "no"}]
    \cup [t : {x \in {"RST", "GOAWAY"} : rst[Peer(s)] # "no"} \cup {"CLOSE"}]

LaneState == {"none", "joining", "up", "retired", "closed", "dead"}

Ends == {"no", "EOF", "Remote", "Abort", "Exhausted", "Closed", "Linger", "Idle", "Shutdown",
         "NoPath", "Lost"}

\* net is a function of the side and the carrier.
NetShape == DOMAIN net = Side /\ \A s \in Side : DOMAIN net[s] = Carrier

TypeOK ==
    /\ wrote \in [Side -> Nat] /\ fin \in [Side -> Nat \cup {None}]
    /\ closed \in [Side -> BOOLEAN] /\ aborted \in [Side -> BOOLEAN]
    /\ exhausted \in [Side -> BOOLEAN]
    /\ sNext \in [Side -> Nat] /\ sBase \in [Side -> Nat] /\ finAcked \in [Side -> BOOLEAN]
    /\ rTail \in [Side -> Nat] /\ rRead \in [Side -> Nat]
    /\ peerFin \in [Side -> Nat \cup {None}] /\ discarded \in [Side -> BOOLEAN]
    /\ finDelivSent \in [Side -> BOOLEAN] /\ doneSent \in [Side -> BOOLEAN]
    /\ peerDone \in [Side -> BOOLEAN] /\ rstIn \in [Side -> BOOLEAN]
    /\ rst \in [Side -> {"no", "rst", "goaway"}] /\ ended \in [Side -> Ends]
    /\ lane \in [Side -> [Carrier -> LaneState]]
    /\ peerGoAway \in [Side -> SUBSET Carrier]
    /\ NetShape

\* Every frame on its way is true of its sender.
FramesInv == \A s \in Side, c \in Carrier : net[s][c] \in Seq(Frame(s))

\* How far s has got, compared with its peer: what it received its peer wrote,
\* and what it knows of the FINs and the DONEs has happened.
KnowInv ==
    \A s \in Side :
        /\ fin[s] # None => fin[s] = wrote[s]
        /\ rRead[s] <= rTail[s] /\ rTail[s] <= wrote[Peer(s)]
        /\ peerFin[s] # None => peerFin[s] = fin[Peer(s)]
        /\ finAcked[s] => FinDelivered(Peer(s))
        /\ finDelivSent[s] => FinDelivered(s)
        /\ doneSent[s] => finAcked[s] /\ FinDelivered(s)

\* How s ended, or will: never clean without its DONE, and reset only by an RST of
\* its peer, which is decided once and stays.
EndInv ==
    \A s \in Side :
        /\ ended[s] = "EOF" => doneSent[s]
        /\ doneSent[s] => ended[s] \in {"no", "EOF", "Abort", "Exhausted", "Shutdown"}
        /\ rst[s] # "no" => ended[s] # "no"
        /\ rstIn[s] \/ peerGoAway[s] # {} \/ ended[s] = "Remote" => rst[Peer(s)] # "no"

IInv == TypeOK /\ FramesInv /\ KnowInv /\ EndInv

-----------------------------------------------------------------------------
(* Lemmas about frames and the network.                                    *)

LEMMA PeerSide ==
    /\ \A s \in Side : Peer(s) \in Side /\ Peer(s) # s /\ Peer(Peer(s)) = s
    /\ \A s, t \in Side : t = s \/ t = Peer(s)
  BY DEF Side, Peer

LEMMA SeqGrows ==
    ASSUME NEW S, NEW T, S \subseteq T
    PROVE  Seq(S) \subseteq Seq(T)
  OBVIOUS

LEMMA Empty == \A S : <<>> \in Seq(S)
  OBVIOUS

LEMMA Concat ==
    ASSUME NEW S, NEW s \in Seq(S), NEW t \in Seq(S)
    PROVE  s \o t \in Seq(S)
  OBVIOUS

LEMMA Single ==
    ASSUME NEW S, NEW x \in S
    PROVE  <<x>> \in Seq(S)
  OBVIOUS

\* The last frames of a carrier are frames.
LEMMA LastFrames ==
    ASSUME NEW fs \in {<<>>, <<"RST">>, <<"GOAWAY", "RST">>, <<"RST", "GOAWAY">>}, NEW S,
           [t |-> "CLOSE"] \in S,
           fs # <<>> => [t |-> "RST"] \in S /\ [t |-> "GOAWAY"] \in S
    PROVE  [i \in DOMAIN fs |-> [t |-> fs[i]]] \o <<[t |-> "CLOSE"]>> \in Seq(S)
  <1>1. fs \in Seq({"RST", "GOAWAY"})
    <2>1. CASE fs = <<>>
      BY <2>1
    <2>2. CASE fs = <<"RST">>
      BY <2>2
    <2>3. CASE fs = <<"GOAWAY", "RST">>
      BY <2>3
    <2>4. CASE fs = <<"RST", "GOAWAY">>
      BY <2>4
    <2> QED BY <2>1, <2>2, <2>3, <2>4
  <1>2. \A i \in DOMAIN fs : [t |-> fs[i]] \in S
    BY <1>1
  <1>3. [i \in DOMAIN fs |-> [t |-> fs[i]]] \in Seq(S)
    BY <1>1, <1>2
  <1>4. <<[t |-> "CLOSE"]>> \in Seq(S)
    BY Single
  <1> QED BY <1>3, <1>4, Concat

LEMMA Except2 ==
    ASSUME NEW f, NEW S, NEW T, DOMAIN f = S, \A x \in S : DOMAIN f[x] = T,
           NEW a \in S, NEW b \in T, NEW v
    PROVE  LET g == [f EXCEPT ![a][b] = v] IN
           /\ DOMAIN g = S /\ \A x \in S : DOMAIN g[x] = T
           /\ \A x \in S, y \in T : g[x][y] = IF x = a /\ y = b THEN v ELSE f[x][y]
  OBVIOUS

\* What a step may do to what the frames on their way say of their sender
Grows ==
    \A p \in Side :
        /\ wrote[p] <= wrote'[p] /\ (fin[p] # None => fin'[p] = fin[p])
        /\ FinDelivered(p) => FinDelivered(p)'
        /\ doneSent[p] => doneSent'[p]
        /\ rst[p] # "no" => rst'[p] # "no"

\* A frame that was true of its sender stays true.
LEMMA FrameGrows ==
    ASSUME TypeOK, TypeOK', Grows, NEW s \in Side
    PROVE  Frame(s) \subseteq Frame(s)'
  <1> DEFINE p == Peer(s)
  <1>1. /\ p \in Side /\ wrote[p] \in Nat /\ wrote'[p] \in Nat
        /\ wrote[p] <= wrote'[p] /\ (fin[p] # None => fin'[p] = fin[p])
        /\ FinDelivered(p) => FinDelivered(p)'
        /\ doneSent[p] => doneSent'[p]
        /\ rst[p] # "no" => rst'[p] # "no"
    BY PeerSide DEF Grows, TypeOK
  <1>2. [t : {"DATA"}, off : {n \in Nat : n < wrote[p]}]
            \subseteq [t : {"DATA"}, off : {n \in Nat : n < wrote'[p]}]
    BY <1>1
  <1>3. [t : {"FIN"}, off : {fin[p]} \ {None}] \subseteq [t : {"FIN"}, off : {fin'[p]} \ {None}]
    BY <1>1
  <1>4. [t : {"ACK"}, del : Nat, fin : {b \in BOOLEAN : b => FinDelivered(p)},
         done : {b \in BOOLEAN : b => doneSent[p]}]
            \subseteq [t : {"ACK"}, del : Nat, fin : {b \in BOOLEAN : b => FinDelivered(p)'},
                       done : {b \in BOOLEAN : b => doneSent'[p]}]
    BY <1>1
  <1>5. [t : {"UNKNOWN"}, code : {b \in BOOLEAN : b => rst[p] # "no"}]
            \subseteq [t : {"UNKNOWN"}, code : {b \in BOOLEAN : b => rst'[p] # "no"}]
    BY <1>1
  <1>6. [t : {x \in {"RST", "GOAWAY"} : rst[p] # "no"} \cup {"CLOSE"}]
            \subseteq [t : {x \in {"RST", "GOAWAY"} : rst'[p] # "no"} \cup {"CLOSE"}]
    BY <1>1
  <1>7. (FinDelivered(Peer(s)))' = FinDelivered(p)'
    OBVIOUS
  <1> QED BY <1>2, <1>3, <1>4, <1>5, <1>6, <1>7 DEF Frame

LEMMA FrameSame ==
    ASSUME UNCHANGED <<wrote, fin, peerFin, rRead, doneSent, rst>>
    PROVE  \A s \in Side : Frame(s)' = Frame(s)
  BY DEF Frame, FinDelivered

LEMMA SendShape ==
    ASSUME NetShape, NEW s \in Side, NEW c \in Carrier, NEW fs, Send(s, c, fs)
    PROVE  NetShape'
  BY PeerSide DEF NetShape, Send

LEMMA TakeShape ==
    ASSUME NetShape, NEW s \in Side, NEW c \in Carrier, Take(s, c)
    PROVE  NetShape'
  BY DEF NetShape, Take

\* A step that leaves the network alone keeps its frames true ...
LEMMA NetQuiet ==
    ASSUME TypeOK, TypeOK', FramesInv, Grows, UNCHANGED net
    PROVE  FramesInv'
  <1>1. \A s \in Side : Seq(Frame(s)) \subseteq Seq(Frame(s)')
    BY FrameGrows, SeqGrows
  <1> QED BY <1>1 DEF FramesInv

\* ... and so does one that sends true frames ...
LEMMA NetSend ==
    ASSUME TypeOK, TypeOK', FramesInv, Grows, NEW s \in Side, NEW c \in Carrier, NEW fs,
           Send(s, c, fs), fs \in Seq(Frame(Peer(s))')
    PROVE  FramesInv'
  <1>1. \A t \in Side : Seq(Frame(t)) \subseteq Seq(Frame(t)')
    BY FrameGrows, SeqGrows
  <1>2. \A t \in Side, k \in Carrier :
            \/ net'[t][k] = net[t][k]
            \/ t = Peer(s) /\ k = c /\ net'[t][k] = net[t][k] \o fs
    <2>1. DOMAIN net = Side /\ \A t \in Side : DOMAIN net[t] = Carrier
      BY DEF TypeOK, NetShape
    <2>2. CASE net' = net
      BY <2>2
    <2>3. CASE net' = [net EXCEPT ![Peer(s)][c] = @ \o fs]
      <3> DEFINE v == net[Peer(s)][c] \o fs
      <3> HIDE DEF v
      <3>1. Peer(s) \in Side
        BY PeerSide
      <3>2. net' = [net EXCEPT ![Peer(s)][c] = v]
        BY <2>3 DEF v
      <3>3. \A t \in Side, k \in Carrier : net'[t][k] = IF t = Peer(s) /\ k = c THEN v ELSE net[t][k]
        BY <2>1, <3>1, <3>2, Except2
      <3> QED BY <3>3, ZenonT(30) DEF v
    <2> QED BY <2>2, <2>3, ZenonT(30) DEF Send
  <1>3. ASSUME NEW t \in Side, NEW k \in Carrier PROVE net'[t][k] \in Seq(Frame(t)')
    <2>1. net[t][k] \in Seq(Frame(t)')
      BY <1>1 DEF FramesInv
    <2>2. CASE t = Peer(s) /\ k = c /\ net'[t][k] = net[t][k] \o fs
      BY <2>1, <2>2
    <2> QED BY <1>2, <2>1, <2>2
  <1> QED BY <1>3 DEF FramesInv

\* ... or takes one in.
LEMMA NetTake ==
    ASSUME TypeOK, TypeOK', FramesInv, Grows, NEW s \in Side, NEW c \in Carrier,
           Take(s, c), net[s][c] # <<>>
    PROVE  FramesInv'
  <1>1. \A t \in Side : Seq(Frame(t)) \subseteq Seq(Frame(t)')
    BY FrameGrows, SeqGrows
  <1>2. \A t \in Side, k \in Carrier :
            \/ net'[t][k] = net[t][k]
            \/ t = s /\ k = c /\ net'[t][k] = Tail(net[t][k])
    BY DEF TypeOK, NetShape, Take
  <1>3. ASSUME NEW t \in Side, NEW k \in Carrier PROVE net'[t][k] \in Seq(Frame(t)')
    <2>1. net[t][k] \in Seq(Frame(t)')
      BY <1>1 DEF FramesInv
    <2>2. CASE t = s /\ k = c /\ net'[t][k] = Tail(net[t][k])
      BY <2>1, <2>2
    <2> QED BY <1>2, <2>1, <2>2
  <1> QED BY <1>3 DEF FramesInv

\* The frame that a reader hands over is true of the peer.
LEMMA HeadTrue ==
    ASSUME FramesInv, NEW s \in Side, NEW c \in Carrier, net[s][c] # <<>>
    PROVE  Head(net[s][c]) \in Frame(s)
  BY DEF FramesInv

-----------------------------------------------------------------------------
(* The actions preserve the invariant.                                     *)

LEMMA InitIInv == Init => IInv
  <1> SUFFICES ASSUME Init PROVE IInv
    OBVIOUS
  <1>1. TypeOK
    BY ConstAssumption DEF Init, TypeOK, NetShape, LaneState, Ends
  <1>2. FramesInv
    <2>1. \A s \in Side, c \in Carrier : net[s][c] = <<>>
      BY ZenonT(30) DEF Init
    <2>2. \A S : <<>> \in Seq(S)
      BY Empty
    <2> QED BY <2>1, <2>2, ZenonT(30) DEF FramesInv
  <1>3. KnowInv
    BY PeerSide DEF Init, KnowInv, FinDelivered
  <1>4. EndInv
    BY DEF Init, EndInv
  <1> QED BY <1>1, <1>2, <1>3, <1>4 DEF IInv

\* A FIN that was delivered stays so: all its sender wrote was consumed.
LEMMA Delivered ==
    ASSUME IInv, NEW s \in Side, FinDelivered(s)
    PROVE  /\ peerFin[s] \in Nat /\ fin[Peer(s)] = peerFin[s] /\ wrote[Peer(s)] = peerFin[s]
           /\ rTail[s] = peerFin[s] /\ rRead[s] = peerFin[s]
  <1>1. /\ wrote[Peer(s)] \in Nat /\ rTail[s] \in Nat /\ rRead[s] \in Nat
        /\ peerFin[s] \in Nat \cup {None}
    BY PeerSide DEF IInv, TypeOK
  <1>2. /\ fin[Peer(s)] # None => fin[Peer(s)] = wrote[Peer(s)]
        /\ rRead[s] <= rTail[s] /\ rTail[s] <= wrote[Peer(s)]
        /\ peerFin[s] # None => peerFin[s] = fin[Peer(s)]
    BY PeerSide DEF IInv, KnowInv
  <1> QED BY <1>1, <1>2 DEF FinDelivered

\* A step that leaves alone what the invariant relates keeps it.
LEMMA KnowStill ==
    ASSUME IInv, UNCHANGED <<wrote, fin, rTail, rRead, peerFin, finAcked, finDelivSent, doneSent, rst>>
    PROVE  KnowInv' /\ Grows
  <1>1. \A p \in Side : FinDelivered(p)' = FinDelivered(p) /\ wrote[p] \in Nat
    BY DEF FinDelivered, IInv, TypeOK
  <1>2. KnowInv'
    BY <1>1, PeerSide DEF IInv, KnowInv
  <1>3. Grows
    BY <1>1 DEF Grows
  <1> QED BY <1>2, <1>3

LEMMA EndStill ==
    ASSUME IInv, UNCHANGED <<ended, doneSent, rst, rstIn, peerGoAway>>
    PROVE  EndInv'
  BY DEF IInv, EndInv

\* The application's calls
LEMMA AppIInv ==
    ASSUME IInv, NEW s \in Side, App(s), UNCHANGED plan
    PROVE  IInv'
  <1>0. /\ TypeOK /\ KnowInv /\ FramesInv
        /\ wrote \in [Side -> Nat] /\ fin \in [Side -> Nat \cup {None}]
        /\ rTail \in [Side -> Nat] /\ rRead \in [Side -> Nat] /\ None \notin Nat
    BY ConstAssumption DEF IInv, TypeOK
  <1>1. CASE Write(s)
    <2>1. TypeOK'
      BY <1>0, <1>1 DEF Write, TypeOK, NetShape, appVars, sendVars, recvVars, ackVars, endVars, laneVars
    <2>0. /\ UNCHANGED <<fin, rTail, rRead, peerFin, finAcked, finDelivSent, doneSent, ended, rst,
                         rstIn, peerGoAway, net>>
          /\ fin[s] = None /\ wrote' = [wrote EXCEPT ![s] = wrote[s] + 1]
      BY <1>1 DEF Write, appVars, sendVars, recvVars, ackVars, endVars, laneVars
    <2>2. KnowInv' /\ Grows
      <3>1. \A p \in Side : /\ FinDelivered(p)' = FinDelivered(p)
                            /\ wrote[p] <= wrote'[p] /\ (fin[p] # None => wrote'[p] = wrote[p])
        BY <1>0, <2>0 DEF FinDelivered
      <3>2. \A p \in Side : rTail[p] \in Nat /\ wrote[p] \in Nat /\ wrote'[p] \in Nat
        BY <1>0, <2>0
      <3>3. Grows
        BY <2>0, <3>1 DEF Grows
      <3>4. KnowInv'
        BY <1>0, <2>0, <3>1, <3>2, PeerSide DEF KnowInv
      <3> QED BY <3>3, <3>4
    <2>3. FramesInv'
      BY <1>0, <2>0, <2>1, <2>2, NetQuiet
    <2>4. EndInv'
      BY <2>0, EndStill
    <2> QED BY <2>1, <2>2, <2>3, <2>4 DEF IInv
  <1>2. CASE Exhaust(s) \/ Abort(s)
    <2>1. TypeOK'
      BY <1>0, <1>2, ZenonT(30) DEF Exhaust, Abort, TypeOK, NetShape, sendVars, recvVars, ackVars, endVars, laneVars
    <2>0. UNCHANGED <<wrote, fin, rTail, rRead, peerFin, finAcked, finDelivSent, doneSent, ended,
                      rst, rstIn, peerGoAway, net>>
      BY <1>2 DEF Exhaust, Abort, sendVars, recvVars, ackVars, endVars, laneVars
    <2>2. KnowInv' /\ Grows
      BY <2>0, KnowStill
    <2>3. FramesInv'
      BY <1>0, <2>0, <2>1, <2>2, NetQuiet
    <2>4. EndInv'
      BY <2>0, EndStill
    <2> QED BY <2>1, <2>2, <2>3, <2>4 DEF IInv
  <1>3. CASE CloseWrite(s) \/ Read(s) \/ Close(s)
    <2>1. TypeOK'
      <3>1. CASE CloseWrite(s)
        BY <1>0, <3>1 DEF CloseWrite, TypeOK, NetShape, sendVars, recvVars, ackVars, endVars, laneVars
      <3>2. CASE Read(s)
        BY <1>0, <3>2 DEF Read, TypeOK, NetShape, appVars, sendVars, endVars, laneVars
      <3>3. CASE Close(s)
        BY <1>0, <3>3 DEF Close, TypeOK, NetShape, sendVars, endVars, laneVars
      <3> QED BY <1>3, <3>1, <3>2, <3>3
    <2>0. UNCHANGED <<wrote, peerFin, rTail, finAcked, finDelivSent, doneSent, ended, rst, rstIn,
                      peerGoAway, net>>
      BY <1>3 DEF CloseWrite, Read, Close, appVars, sendVars, recvVars, ackVars, endVars, laneVars
    <2>5. \A p \in Side : /\ fin'[p] = fin[p] \/ (fin[p] = None /\ fin'[p] = wrote[p])
                          /\ rRead'[p] \in {rRead[p], rTail[p]}
      BY <1>0, <1>3 DEF CloseWrite, Read, Close, appVars, recvVars
    <2>2. KnowInv' /\ Grows
      <3>0. \A p \in Side : fin[p] # None => fin'[p] = fin[p]
        BY <2>5
      <3>1. ASSUME NEW p \in Side, FinDelivered(p) PROVE FinDelivered(p)'
        <4>1. rTail[p] = peerFin[p] /\ rRead[p] = peerFin[p] /\ peerFin[p] # None
          BY <3>1, Delivered DEF FinDelivered
        <4>2. rRead'[p] = peerFin[p] /\ peerFin' = peerFin
          BY <2>0, <2>5, <4>1
        <4> QED BY <4>1, <4>2 DEF FinDelivered
      <3>2. \A p \in Side : wrote[p] <= wrote'[p]
        BY <1>0, <2>0
      <3>3. Grows
        BY <2>0, <3>0, <3>1, <3>2 DEF Grows
      <3>4. ASSUME NEW p \in Side
            PROVE  /\ fin'[p] # None => fin'[p] = wrote'[p]
                   /\ rRead'[p] <= rTail'[p] /\ rTail'[p] <= wrote'[Peer(p)]
                   /\ peerFin'[p] # None => peerFin'[p] = fin'[Peer(p)]
        <4>1. /\ fin[p] # None => fin[p] = wrote[p]
              /\ rRead[p] <= rTail[p] /\ rTail[p] <= wrote[Peer(p)]
              /\ peerFin[p] # None => peerFin[p] = fin[Peer(p)]
              /\ rRead[p] \in Nat /\ rTail[p] \in Nat /\ wrote[p] \in Nat /\ Peer(p) \in Side
          BY <1>0, PeerSide DEF KnowInv
        <4> QED BY <2>0, <2>5, <3>0, <4>1
      <3>5. ASSUME NEW p \in Side
            PROVE  /\ finAcked'[p] => FinDelivered(Peer(p))'
                   /\ finDelivSent'[p] => FinDelivered(p)'
                   /\ doneSent'[p] => finAcked'[p] /\ FinDelivered(p)'
        BY <1>0, <2>0, <3>1, PeerSide DEF KnowInv
      <3> QED BY <3>3, <3>4, <3>5 DEF KnowInv
    <2>3. FramesInv'
      BY <1>0, <2>0, <2>1, <2>2, NetQuiet
    <2>4. EndInv'
      BY <2>0, EndStill
    <2> QED BY <2>1, <2>2, <2>3, <2>4 DEF IInv
  <1> QED BY <1>1, <1>2, <1>3 DEF App

\* The writers: a frame says what its sender knows.
LEMMA FillIInv ==
    ASSUME IInv, NEW s \in Side, NEW c \in Carrier, Fill(s, c), UNCHANGED plan
    PROVE  IInv'
  <1>0. /\ TypeOK /\ KnowInv /\ FramesInv /\ NetShape
        /\ wrote \in [Side -> Nat] /\ fin \in [Side -> Nat \cup {None}]
        /\ sNext \in [Side -> Nat] /\ rRead \in [Side -> Nat]
        /\ finDelivSent \in [Side -> BOOLEAN] /\ doneSent \in [Side -> BOOLEAN]
    BY DEF IInv, TypeOK
  <1>00. Peer(s) \in Side /\ Peer(Peer(s)) = s
    BY PeerSide
  <1>1. CASE FillData(s, c)
    <2> DEFINE f == [t |-> "DATA", off |-> sNext[s]]
    <2>0. /\ UNCHANGED <<appVars, finAcked, recvVars, ackVars, endVars, peerGoAway>>
          /\ Send(s, c, <<f>>) /\ sNext[s] < wrote[s]
      BY <1>1 DEF FillData, laneVars
    <2>3. f \in Frame(Peer(s))'
      <3>1. sNext[s] \in Nat /\ sNext[s] < wrote'[s]
        BY <1>0, <2>0 DEF appVars
      <3> QED BY <1>00, <3>1 DEF Frame
    <2> HIDE DEF f
    <2>1. TypeOK'
      <3>1. NetShape'
        BY <1>0, <2>0, SendShape
      <3> QED BY <1>0, <1>1, <3>1 DEF FillData, TypeOK, appVars, recvVars, ackVars, endVars, laneVars
    <2>2. KnowInv' /\ Grows
      BY <2>0, KnowStill, ZenonT(30) DEF appVars, recvVars, ackVars, endVars
    <2>4. FramesInv'
      BY <1>0, <2>0, <2>1, <2>2, <2>3, Single, NetSend, ZenonT(30)
    <2>5. EndInv'
      BY <2>0, EndStill, ZenonT(30) DEF ackVars, endVars
    <2> QED BY <2>1, <2>2, <2>4, <2>5 DEF IInv
  <1>2. CASE FillFin(s, c)
    <2> DEFINE f == [t |-> "FIN", off |-> fin[s]]
    <2>0. /\ UNCHANGED <<appVars, sNext, sBase, finAcked, recvVars, ackVars, endVars, laneVars>>
          /\ Send(s, c, <<f>>) /\ fin[s] # None
      BY <1>2, ZenonT(30) DEF FillFin, FinDue
    <2>3. f \in Frame(Peer(s))'
      <3>1. fin'[s] = fin[s] /\ fin[s] # None
        BY <2>0 DEF appVars
      <3> QED BY <1>00, <3>1 DEF Frame
    <2> HIDE DEF f
    <2>1. TypeOK'
      <3>1. NetShape'
        BY <1>0, <2>0, SendShape
      <3> QED BY <1>0, <2>0, <3>1 DEF TypeOK, appVars, recvVars, ackVars, endVars, laneVars
    <2>2. KnowInv' /\ Grows
      BY <2>0, KnowStill DEF appVars, recvVars, ackVars, endVars
    <2>4. FramesInv'
      BY <1>0, <2>0, <2>1, <2>2, <2>3, Single, NetSend, ZenonT(30)
    <2>5. EndInv'
      BY <2>0, EndStill DEF ackVars, endVars, laneVars
    <2> QED BY <2>1, <2>2, <2>4, <2>5 DEF IInv
  <1>3. CASE FillAck(s, c)
    <2> DEFINE f == [t |-> "ACK", del |-> rRead[s], fin |-> FinDelivered(s), done |-> DoneQueued(s)]
    <2>0. FinDelivered(s) \in BOOLEAN /\ DoneQueued(s) \in BOOLEAN
      BY DEF FinDelivered, DoneQueued
    <2>6. /\ UNCHANGED <<appVars, sendVars, recvVars, peerDone, endVars, laneVars>>
          /\ Send(s, c, <<f>>) /\ Live(s)
          /\ finDelivSent' = [finDelivSent EXCEPT ![s] = finDelivSent[s] \/ FinDelivered(s)]
          /\ doneSent' = [doneSent EXCEPT ![s] = doneSent[s] \/ DoneQueued(s)]
      BY <1>3 DEF FillAck
    <2>7. finDelivSent' \in [Side -> BOOLEAN] /\ doneSent' \in [Side -> BOOLEAN]
      BY <1>0, <2>0, <2>6
    <2>8. \A p \in Side : /\ doneSent[p] => doneSent'[p]
                          /\ doneSent'[p] => doneSent[p] \/ (p = s /\ DoneQueued(p))
                          /\ finDelivSent'[p] => finDelivSent[p] \/ (p = s /\ FinDelivered(p))
      BY <1>0, <2>6
    <2>9. DoneQueued(s) => doneSent'[s]
      BY <1>0, <2>6, ZenonT(30)
    <2>10. \A p \in Side : FinDelivered(p)' = FinDelivered(p) /\ finAcked'[p] = finAcked[p]
      BY <2>6 DEF FinDelivered, recvVars, sendVars
    <2>3. f \in Frame(Peer(s))'
      <3>1. rRead[s] \in Nat
        BY <1>0
      <3> QED BY <1>00, <2>0, <2>9, <2>10, <3>1 DEF Frame
    <2> HIDE DEF f
    <2>1. TypeOK'
      <3>1. NetShape'
        BY <1>0, <2>6, SendShape
      <3> QED BY <1>0, <2>6, <2>7, <3>1 DEF TypeOK, appVars, sendVars, recvVars, endVars, laneVars
    <2>2. KnowInv' /\ Grows
      <3>1. UNCHANGED <<wrote, fin, rTail, rRead, peerFin, rst>>
        BY <2>6 DEF appVars, recvVars, endVars
      <3>0. \A p \in Side : wrote[p] <= wrote'[p]
        BY <1>0, <3>1
      <3>2. Grows
        BY <2>8, <2>10, <3>0, <3>1, Zenon DEF Grows
      <3>3. \A p \in Side : DoneQueued(p) => finAcked[p] /\ FinDelivered(p)
        BY ZenonT(30) DEF DoneQueued
      <3>4. ASSUME NEW p \in Side
            PROVE  /\ finAcked'[p] => FinDelivered(Peer(p))'
                   /\ finDelivSent'[p] => FinDelivered(p)'
                   /\ doneSent'[p] => finAcked'[p] /\ FinDelivered(p)'
        <4>1. /\ Peer(p) \in Side /\ (finAcked[p] => FinDelivered(Peer(p)))
              /\ finDelivSent[p] => FinDelivered(p)
              /\ doneSent[p] => finAcked[p] /\ FinDelivered(p)
          BY <1>0, PeerSide DEF KnowInv
        <4> QED BY <2>8, <2>10, <3>3, <4>1
      <3>5. KnowInv'
        BY <1>0, <3>1, <3>4 DEF KnowInv
      <3> QED BY <3>2, <3>5
    <2>4. FramesInv'
      BY <1>0, <2>1, <2>2, <2>3, <2>6, Single, NetSend, ZenonT(30)
    <2>5. EndInv'
      <3>1. UNCHANGED <<ended, rst, rstIn, peerGoAway>> /\ ended[s] = "no"
        BY <2>6 DEF endVars, laneVars, Live
      <3> QED BY <2>8, <3>1 DEF IInv, EndInv
    <2> QED BY <2>1, <2>2, <2>4, <2>5 DEF IInv
  <1>4. ASSUME NEW fs \in {<<>>, <<"RST">>, <<"GOAWAY", "RST">>, <<"RST", "GOAWAY">>},
               FillClose(s, c, fs)
        PROVE  IInv'
    <2> DEFINE gs == [i \in DOMAIN fs |-> [t |-> fs[i]]] \o <<[t |-> "CLOSE"]>>
    <2>0. /\ UNCHANGED <<appVars, sendVars, recvVars, ackVars, endVars, peerGoAway>>
          /\ Send(s, c, gs) /\ (fs = <<>> \/ rst[s] # "no")
          /\ lane' = [lane EXCEPT ![s][c] = "closed"]
      BY <1>4 DEF FillClose
    <2>3. gs \in Seq(Frame(Peer(s))')
      <3>1. fs = <<>> \/ rst'[s] # "no"
        BY <2>0 DEF endVars
      <3>2. /\ [t |-> "CLOSE"] \in Frame(Peer(s))'
            /\ fs # <<>> => /\ [t |-> "RST"] \in Frame(Peer(s))'
                            /\ [t |-> "GOAWAY"] \in Frame(Peer(s))'
        BY <1>00, <3>1 DEF Frame
      <3> QED BY <3>2, LastFrames, ZenonT(30)
    <2> HIDE DEF gs
    <2>1. TypeOK'
      <3>1. NetShape'
        BY <1>0, <2>0, SendShape
      <3> QED BY <1>0, <2>0, <3>1 DEF TypeOK, LaneState, appVars, sendVars, recvVars, ackVars, endVars
    <2>2. KnowInv' /\ Grows
      BY <2>0, KnowStill DEF appVars, sendVars, recvVars, ackVars, endVars
    <2>4. FramesInv'
      BY <1>0, <2>0, <2>1, <2>2, <2>3, NetSend
    <2>5. EndInv'
      BY <2>0, EndStill DEF ackVars, endVars
    <2> QED BY <2>1, <2>2, <2>4, <2>5 DEF IInv
  <1> QED BY <1>1, <1>2, <1>3, <1>4 DEF Fill

\* What a frame says, by its kind
LEMMA FrameSays ==
    ASSUME NEW s \in Side, NEW f \in Frame(s)
    PROVE  /\ f.t = "DATA" => f.off \in Nat /\ f.off < wrote[Peer(s)]
           /\ f.t = "FIN" => f.off = fin[Peer(s)] /\ f.off # None
           /\ f.t = "ACK" => /\ f.del \in Nat /\ f.fin \in BOOLEAN /\ f.done \in BOOLEAN
                             /\ f.fin => FinDelivered(Peer(s))
                             /\ f.done => doneSent[Peer(s)]
           /\ f.t \in {"JOIN", "JOIN_ACK"} => f.rx \in Nat
           /\ f.t = "UNKNOWN" => f.code \in BOOLEAN /\ (f.code => rst[Peer(s)] # "no")
           /\ f.t \in {"RST", "GOAWAY"} => rst[Peer(s)] # "no"
  BY DEF Frame

\* The readers: s learns what is true of its peer.
LEMMA RecvIInv ==
    ASSUME IInv, NEW s \in Side, NEW c \in Carrier, Recv(s, c), UNCHANGED plan
    PROVE  IInv'
  <1> DEFINE f == Head(net[s][c])
  <1>0. net[s][c] # <<>> /\ Take(s, c)
    BY ZenonT(30) DEF Recv, Reads, RecvData, RecvFin, RecvAck, RecvRst, RecvGoAway, RecvClose
  <1>00. f \in Frame(s)
    BY <1>0, HeadTrue DEF IInv
  <1> HIDE DEF f
  <1>a. /\ TypeOK /\ KnowInv /\ FramesInv /\ NetShape
        /\ wrote \in [Side -> Nat] /\ fin \in [Side -> Nat \cup {None}]
        /\ rTail \in [Side -> Nat] /\ rRead \in [Side -> Nat] /\ None \notin Nat
        /\ finAcked \in [Side -> BOOLEAN] /\ Peer(s) \in Side
    BY PeerSide, ConstAssumption DEF IInv, TypeOK
  <1>b. NetShape'
    BY <1>0, <1>a, TakeShape, ZenonT(30)
  <1>c. TypeOK' /\ Grows => FramesInv'
    BY <1>0, <1>a, NetTake
  <1>1. CASE RecvData(s, c)
    <2>1. f.off \in Nat /\ f.off < wrote[Peer(s)]
      <3>1. f.t = "DATA"
        BY <1>1 DEF RecvData, Reads, f
      <3> QED BY <1>00, <3>1, FrameSays
    <2>2. TypeOK'
      BY <1>1, <1>a, <1>b DEF RecvData, TypeOK, appVars, sendVars, endVars, laneVars
    <2>0. UNCHANGED <<wrote, fin, peerFin, finAcked, finDelivSent, doneSent, rst, ended, rstIn, peerGoAway>>
      BY <1>1 DEF RecvData, appVars, sendVars, endVars, laneVars
    <2>3. \/ rTail' = rTail /\ rRead' = rRead
          \/ /\ rTail[s] < wrote[Peer(s)] /\ rTail' = [rTail EXCEPT ![s] = rTail[s] + 1]
             /\ rRead' = rRead \/ rRead' = [rRead EXCEPT ![s] = rTail[s] + 1]
      BY <1>1, <2>1 DEF RecvData, f
    <2>4. ASSUME NEW p \in Side
          PROVE  \/ rTail'[p] = rTail[p] /\ rRead'[p] = rRead[p]
                 \/ /\ rTail[p] < wrote[Peer(p)] /\ rTail'[p] = rTail[p] + 1
                    /\ rRead'[p] = rRead[p] \/ rRead'[p] = rTail[p] + 1
      BY <1>a, <2>3
    <2>5. ASSUME NEW p \in Side, FinDelivered(p) PROVE FinDelivered(p)'
      <3>1. rTail[p] = wrote[Peer(p)] /\ wrote[Peer(p)] \in Nat
        BY <2>5, Delivered, ZenonT(30)
      <3>2. ~(rTail[p] < wrote[Peer(p)])
        BY <3>1
      <3>3. rRead'[p] = rRead[p]
        BY <2>4, <3>2, Zenon
      <3> QED BY <2>0, <2>5, <3>3, ZenonT(30) DEF FinDelivered
    <2>60. \A p \in Side : wrote[p] <= wrote'[p]
      BY <1>a, <2>0
    <2>6. Grows
      BY <2>0, <2>5, <2>60, Zenon DEF Grows
    <2>7. KnowInv'
      <3>1. ASSUME NEW p \in Side PROVE rRead'[p] <= rTail'[p] /\ rTail'[p] <= wrote[Peer(p)]
        <4>1. /\ rRead[p] \in Nat /\ rTail[p] \in Nat /\ wrote[Peer(p)] \in Nat
              /\ rRead[p] <= rTail[p] /\ rTail[p] <= wrote[Peer(p)]
          BY <1>a, PeerSide DEF KnowInv
        <4> QED BY <2>4, <4>1
      <3>2. ASSUME NEW p \in Side
            PROVE  /\ finAcked[p] => FinDelivered(Peer(p))'
                   /\ finDelivSent[p] => FinDelivered(p)'
                   /\ doneSent[p] => finAcked[p] /\ FinDelivered(p)'
        BY <1>a, <2>5, PeerSide DEF KnowInv
      <3> QED BY <1>a, <2>0, <3>1, <3>2 DEF KnowInv
    <2>8. EndInv'
      BY <2>0, EndStill
    <2> QED BY <1>c, <2>2, <2>6, <2>7, <2>8 DEF IInv
  <1>2. CASE RecvFin(s, c)
    <2>1. f.off = fin[Peer(s)] /\ f.off # None
      <3>1. f.t = "FIN"
        BY <1>2, ZenonT(30) DEF RecvFin, Reads, f
      <3> QED BY <1>00, <3>1, FrameSays
    <2>0. /\ UNCHANGED <<wrote, fin, rTail, rRead, finAcked, finDelivSent, doneSent, rst, ended, rstIn,
                         peerGoAway>>
          /\ peerFin' = [peerFin EXCEPT ![s] = fin[Peer(s)]] /\ fin[Peer(s)] # None
      BY <1>2, <2>1, ZenonT(30) DEF RecvFin, appVars, sendVars, endVars, laneVars, f
    <2>2. TypeOK'
      <3>1. peerFin' \in [Side -> Nat \cup {None}]
        BY <1>a, <2>0 DEF TypeOK
      <3> QED BY <1>2, <1>a, <1>b, <3>1 DEF RecvFin, TypeOK, appVars, sendVars, endVars, laneVars
    <2>3. \A p \in Side : peerFin'[p] = peerFin[p] \/ (peerFin'[p] = fin[Peer(p)] /\ fin[Peer(p)] # None)
      BY <1>a, <2>0 DEF TypeOK
    <2>4. ASSUME NEW p \in Side, FinDelivered(p) PROVE FinDelivered(p)'
      <3>1. fin[Peer(p)] = peerFin[p]
        BY <2>4, Delivered, ZenonT(30)
      <3>2. peerFin'[p] = peerFin[p]
        BY <2>3, <3>1
      <3> QED BY <2>0, <2>4, <3>2, ZenonT(30) DEF FinDelivered
    <2>50. \A p \in Side : wrote[p] <= wrote'[p]
      BY <1>a, <2>0
    <2>5. Grows
      BY <2>0, <2>4, <2>50, Zenon DEF Grows
    <2>6. KnowInv'
      <3>1. ASSUME NEW p \in Side
            PROVE  /\ peerFin'[p] # None => peerFin'[p] = fin[Peer(p)]
                   /\ finAcked[p] => FinDelivered(Peer(p))'
                   /\ finDelivSent[p] => FinDelivered(p)'
                   /\ doneSent[p] => finAcked[p] /\ FinDelivered(p)'
        BY <1>a, <2>3, <2>4, PeerSide DEF KnowInv
      <3> QED BY <1>a, <2>0, <3>1 DEF KnowInv
    <2>7. EndInv'
      BY <2>0, EndStill
    <2> QED BY <1>c, <2>2, <2>5, <2>6, <2>7 DEF IInv
  <1>3. CASE RecvAck(s, c)
    <2>1. /\ f.del \in Nat /\ f.fin \in BOOLEAN /\ f.done \in BOOLEAN
          /\ f.fin => FinDelivered(Peer(s))
      <3>1. f.t = "ACK"
        BY <1>3 DEF RecvAck, Reads, f
      <3> QED BY <1>00, <3>1, FrameSays
    <2>0. /\ UNCHANGED <<wrote, fin, rTail, rRead, peerFin, finDelivSent, doneSent, rst, ended, rstIn,
                         peerGoAway>>
          /\ finAcked' = [finAcked EXCEPT ![s] = finAcked[s] \/ f.fin]
          /\ peerDone' = [peerDone EXCEPT ![s] = peerDone[s] \/ f.done]
          /\ Advance(s, f.del)
      BY <1>3, ZenonT(30) DEF RecvAck, appVars, recvVars, endVars, laneVars, f
    <2>2. TypeOK'
      <3>1. finAcked' \in [Side -> BOOLEAN] /\ peerDone' \in [Side -> BOOLEAN]
        BY <1>a, <2>0, <2>1 DEF TypeOK
      <3>2. sNext' \in [Side -> Nat] /\ sBase' \in [Side -> Nat]
        BY <1>a, <2>0, <2>1 DEF TypeOK, Advance
      <3> QED BY <1>3, <1>a, <1>b, <3>1, <3>2 DEF RecvAck, TypeOK, appVars, recvVars, endVars, laneVars
    <2>3. \A p \in Side : finAcked'[p] => finAcked[p] \/ (p = s /\ f.fin)
      BY <1>a, <2>0
    <2>4. \A p \in Side : finAcked[p] => finAcked'[p]
      BY <1>a, <2>0
    <2>5. \A p \in Side : FinDelivered(p)' = FinDelivered(p)
      BY <2>0 DEF FinDelivered
    <2>60. \A p \in Side : wrote[p] <= wrote'[p]
      BY <1>a, <2>0
    <2>6. Grows
      BY <2>0, <2>5, <2>60, Zenon DEF Grows
    <2>7. KnowInv'
      <3>1. ASSUME NEW p \in Side
            PROVE  /\ finAcked'[p] => FinDelivered(Peer(p))'
                   /\ finDelivSent[p] => FinDelivered(p)'
                   /\ doneSent[p] => finAcked'[p] /\ FinDelivered(p)'
        BY <1>a, <2>1, <2>3, <2>4, <2>5, PeerSide DEF KnowInv
      <3> QED BY <1>a, <2>0, <3>1, ZenonT(30) DEF KnowInv
    <2>8. EndInv'
      BY <2>0, EndStill
    <2> QED BY <1>c, <2>2, <2>6, <2>7, <2>8 DEF IInv
  <1>4. CASE RecvRst(s, c) \/ RecvGoAway(s, c) \/ RecvClose(s, c)
    <2>1. RecvRst(s, c) \/ RecvGoAway(s, c) => rst[Peer(s)] # "no"
      <3>1. RecvRst(s, c) \/ RecvGoAway(s, c) => f.t \in {"RST", "GOAWAY"}
        BY DEF RecvRst, RecvGoAway, Reads, f
      <3> QED BY <1>00, <3>1, FrameSays, ZenonT(30)
    <2>0. UNCHANGED <<appVars, sendVars, recvVars, ackVars, rst, ended, lane>>
      BY <1>4 DEF RecvRst, RecvGoAway, RecvClose, endVars, laneVars
    <2>5. \/ rstIn' = rstIn /\ peerGoAway' = peerGoAway
          \/ RecvRst(s, c) /\ rstIn' = [rstIn EXCEPT ![s] = TRUE] /\ peerGoAway' = peerGoAway
          \/ /\ RecvGoAway(s, c) /\ rstIn' = rstIn
             /\ peerGoAway' = [peerGoAway EXCEPT ![s] = peerGoAway[s] \cup {c}]
      BY <1>4 DEF RecvRst, RecvGoAway, RecvClose, endVars, laneVars
    <2>2. TypeOK'
      <3>1. rstIn' \in [Side -> BOOLEAN] /\ peerGoAway' \in [Side -> SUBSET Carrier]
        <4>1. /\ rstIn \in [Side -> BOOLEAN] /\ peerGoAway \in [Side -> SUBSET Carrier]
              /\ peerGoAway[s] \cup {c} \in SUBSET Carrier
          BY <1>a DEF TypeOK
        <4>2. rstIn' \in [Side -> BOOLEAN]
          BY <2>5, <4>1, ZenonT(30)
        <4>3. peerGoAway' \in [Side -> SUBSET Carrier]
          BY <2>5, <4>1
        <4> QED BY <4>2, <4>3
      <3> QED BY <1>a, <1>b, <2>0, <3>1 DEF TypeOK, appVars, sendVars, recvVars, ackVars
    <2>3. KnowInv' /\ Grows
      BY <2>0, KnowStill DEF appVars, sendVars, recvVars, ackVars
    <2>4. EndInv'
      <3>1. \A p \in Side : rstIn'[p] \/ peerGoAway'[p] # {} =>
                rstIn[p] \/ peerGoAway[p] # {} \/ (p = s /\ (RecvRst(s, c) \/ RecvGoAway(s, c)))
        <4>1. rstIn \in [Side -> BOOLEAN] /\ DOMAIN peerGoAway = Side
          BY <1>a DEF TypeOK
        <4>2. \A p \in Side : rstIn'[p] = rstIn[p] \/ (p = s /\ RecvRst(s, c))
          BY <2>5, <4>1
        <4>3. \A p \in Side : peerGoAway'[p] = peerGoAway[p] \/ (p = s /\ RecvGoAway(s, c))
          BY <2>5, <4>1
        <4> QED BY <4>2, <4>3, Zenon
      <3>2. \A p \in Side : rstIn'[p] \/ peerGoAway'[p] # {} => rst[Peer(p)] # "no"
        BY <2>1, <3>1 DEF IInv, EndInv
      <3> QED BY <2>0, <3>2 DEF IInv, EndInv, ackVars
    <2> QED BY <1>c, <2>2, <2>3, <2>4 DEF IInv
  <1> QED BY <1>1, <1>2, <1>3, <1>4 DEF Recv

\* terminateLocked keeps the invariant, for an end that what s knows justifies.
LEMMA TerminateIInv ==
    ASSUME IInv, NEW s \in Side, Live(s), NEW err \in Ends \ {"no"},
           NEW r \in {"no", "rst", "goaway"}, Terminate(s, err, r),
           err = "EOF" => doneSent[s],
           doneSent[s] => err \in {"EOF", "Abort", "Exhausted", "Shutdown"},
           err = "Remote" => rst[Peer(s)] # "no"
    PROVE  IInv'
  <1> USE PeerSide, ConstAssumption DEF IInv, appVars, sendVars, recvVars, endVars
  <1>1. /\ UNCHANGED <<appVars, sendVars, recvVars, finDelivSent, doneSent, peerDone, rstIn, peerGoAway>>
        /\ ended' \in [Side -> Ends] /\ rst' \in [Side -> {"no", "rst", "goaway"}]
        /\ ended'[s] = err /\ rst'[s] = r
        /\ \A t \in Side \ {s} : ended'[t] = ended[t] /\ rst'[t] = rst[t]
    BY DEF Terminate, TypeOK
  <1>2. /\ DOMAIN net' = Side /\ \A t \in Side : DOMAIN net'[t] = Carrier
        /\ \A t \in Side, c \in Carrier : net'[t][c] \in {net[t][c], <<>>}
    BY DEF Terminate, TypeOK, NetShape
  <1>3. lane' \in [Side -> [Carrier -> LaneState]]
    BY DEF Terminate, TypeOK, LaneState
  <1>4. TypeOK'
    BY <1>1, <1>2, <1>3, ZenonT(30) DEF TypeOK, NetShape
  <1>5. rst[s] = "no" /\ ended[s] = "no"
    BY DEF Live, EndInv, TypeOK
  <1>6. Grows /\ KnowInv'
    <2>1. \A p \in Side : FinDelivered(p)' = FinDelivered(p)
      BY <1>1 DEF FinDelivered
    <2>2. KnowInv'
      BY <1>1, <2>1, ZenonT(30) DEF KnowInv
    <2>3. \A p \in Side : wrote[p] <= wrote'[p] /\ (rst[p] # "no" => rst'[p] # "no")
      BY <1>1, <1>5 DEF TypeOK
    <2> QED BY <1>1, <2>1, <2>2, <2>3 DEF Grows
  <1>7. FramesInv'
    <2>1. \A t \in Side : Seq(Frame(t)) \subseteq Seq(Frame(t)')
      BY <1>4, <1>6, FrameGrows, SeqGrows, ZenonT(30)
    <2>3. ASSUME NEW t \in Side, NEW c \in Carrier PROVE net'[t][c] \in Seq(Frame(t)')
      <3>1. net[t][c] \in Seq(Frame(t)')
        BY <2>1 DEF FramesInv
      <3>2. <<>> \in Seq(Frame(t)')
        BY Empty
      <3>3. net'[t][c] = net[t][c] \/ net'[t][c] = <<>>
        BY <1>2
      <3> QED BY <3>1, <3>2, <3>3, ZenonT(30)
    <2> QED BY <2>3, ZenonT(30) DEF FramesInv
  <1>8. EndInv'
    BY <1>1, <1>5, ZenonT(30) DEF EndInv
  <1> QED BY <1>4, <1>6, <1>7, <1>8

\* doneOr gives an end that is justified whatever the error would be.
LEMMA DoneOrIInv ==
    ASSUME IInv, NEW s \in Side, Live(s), NEW err \in {"Remote", "NoPath", "Lost"},
           Terminate(s, DoneOr(s, err), "no"), err = "Remote" => rst[Peer(s)] # "no"
    PROVE  IInv'
  <1>1. /\ DoneOr(s, err) \in Ends \ {"no"} /\ DoneOr(s, err) \in {err, "EOF"}
        /\ doneSent[s] => DoneOr(s, err) = "EOF"
        /\ DoneOr(s, err) = "EOF" => doneSent[s]
    BY DEF DoneOr, Ends
  <1> QED BY <1>1, TerminateIInv

\* So do the rules that wait for no deadline.
LEMMA EndDueIInv ==
    ASSUME IInv, NEW s \in Side, Live(s), EndDue(s).err # "no",
           Terminate(s, EndDue(s).err, EndDue(s).rst)
    PROVE  IInv'
  <1> DEFINE err == EndDue(s).err
             r == EndDue(s).rst
  <1>1. rstIn[s] => rst[Peer(s)] # "no"
    BY ZenonT(30) DEF IInv, EndInv
  <1>2. doneSent[s] => peerFin[s] # None
    BY DEF IInv, KnowInv, FinDelivered
  <1>3. /\ err \in Ends \ {"no"} /\ r \in {"no", "rst", "goaway"}
        /\ err = "EOF" => doneSent[s]
        /\ doneSent[s] => err \in {"EOF", "Abort", "Exhausted", "Shutdown"}
        /\ err = "Remote" => rst[Peer(s)] # "no"
    BY <1>1, <1>2, ZenonT(30) DEF EndDue, DoneOr, Ends
  <1> HIDE DEF err, r
  <1> QED BY <1>3, TerminateIInv DEF err, r

\* The steps that change nothing that the frames speak of, and no frame
LEMMA QuietIInv ==
    ASSUME IInv, UNCHANGED <<appVars, recvVars, finAcked, finDelivSent, doneSent, peerDone, endVars,
                             peerGoAway>>,
           sNext' \in [Side -> Nat], sBase' \in [Side -> Nat],
           lane' \in [Side -> [Carrier -> LaneState]],
           NetShape', \A s \in Side, c \in Carrier : net'[s][c] \in Seq(Frame(s))
    PROVE  IInv'
  <1> USE DEF IInv, appVars, recvVars, endVars
  <1>1. TypeOK'
    BY DEF TypeOK
  <1>2. KnowInv' /\ EndInv'
    BY ZenonT(30) DEF KnowInv, EndInv, FinDelivered
  <1>3. \A s \in Side : Frame(s)' = Frame(s)
    BY FrameSame
  <1>4. FramesInv'
    BY <1>3 DEF FramesInv
  <1> QED BY <1>1, <1>2, <1>4

\* The same where the network is left alone
LEMMA StillIInv ==
    ASSUME IInv, UNCHANGED <<appVars, recvVars, finAcked, finDelivSent, doneSent, peerDone, endVars,
                             peerGoAway, net>>,
           sNext' \in [Side -> Nat], sBase' \in [Side -> Nat],
           lane' \in [Side -> [Carrier -> LaneState]]
    PROVE  IInv'
  <1>1. NetShape' /\ \A s \in Side, c \in Carrier : net'[s][c] \in Seq(Frame(s))
    BY DEF IInv, TypeOK, NetShape, FramesInv
  <1> QED BY <1>1, QuietIInv

\* The actor's steps and the deadlines
LEMMA ActIInv ==
    ASSUME IInv, NEW s \in Side, Act(s) \/ Deadline(s) \/ Shutdown(s)
    PROVE  IInv'
  <1>0. /\ \A c \in Carrier : c \in peerGoAway[s] => rst[Peer(s)] # "no"
        /\ rstIn[s] => rst[Peer(s)] # "no"
    BY ZenonT(30) DEF IInv, EndInv
  <1>1. CASE End(s)
    <2>1. Live(s)
      BY <1>1 DEF End
    <2>2. CASE Terminate(s, DoneOr(s, "Remote"), "no") /\ \E c \in peerGoAway[s] : lane[s][c] # "dead"
      <3>1. rst[Peer(s)] # "no"
        BY <2>2, ZenonT(30) DEF IInv, EndInv
      <3> QED BY <2>1, <2>2, <3>1, DoneOrIInv, ZenonT(30)
    <2>3. CASE EndDue(s).err # "no" /\ Terminate(s, EndDue(s).err, EndDue(s).rst)
      BY <2>1, <2>3, EndDueIInv
    <2> QED BY <1>1, <2>2, <2>3 DEF End
  <1>2. CASE PeerCloses(s)
    <2>1. UNCHANGED <<appVars, recvVars, finAcked, finDelivSent, doneSent, peerDone, endVars,
                      peerGoAway, net>>
      BY <1>2, ZenonT(30) DEF PeerCloses, ackVars
    <2>2. /\ sNext' \in [Side -> Nat] /\ sBase' \in [Side -> Nat]
          /\ lane' \in [Side -> [Carrier -> LaneState]]
      BY <1>2, ZenonT(30) DEF PeerCloses, Unroute, IInv, TypeOK, LaneState
    <2> QED BY <2>1, <2>2, StillIInv
  <1>3. ASSUME NEW c \in Carrier, Reap(s, c) PROVE IInv'
    <2>1. Live(s)
      BY <1>3 DEF Reap
    <2>2. CASE c \in peerGoAway[s] /\ Terminate(s, DoneOr(s, "Remote"), "no")
      BY <1>0, <2>1, <2>2, DoneOrIInv
    <2>3. CASE PeerEnded(s) /\ Terminate(s, EndDue(s).err, EndDue(s).rst)
      <3>1. EndDue(s).err # "no"
        BY <2>3, ZenonT(30) DEF PeerEnded, EndDue, DoneOr
      <3> QED BY <2>1, <2>3, <3>1, EndDueIInv
    <2>4. CASE ~PeerEnded(s) /\ c \notin peerGoAway[s]
      <3>1. /\ UNCHANGED <<appVars, recvVars, finAcked, finDelivSent, doneSent, peerDone, endVars,
                           peerGoAway, net, sBase>>
            /\ lane' = [lane EXCEPT ![s][c] = "dead"] /\ Unroute(s, {c})
        BY <1>3, <2>4 DEF Reap
      <3>2. /\ sNext' \in [Side -> Nat] /\ sBase' \in [Side -> Nat]
            /\ lane' \in [Side -> [Carrier -> LaneState]]
        BY <3>1 DEF Unroute, IInv, TypeOK, LaneState
      <3> QED BY <3>1, <3>2, StillIInv
    <2> QED BY <1>3, <2>2, <2>3, <2>4 DEF Reap
  <1>4. CASE Linger(s)
    <2>1. Live(s) /\ {"EOF", "Linger"} \subseteq Ends \ {"no"}
      BY <1>4 DEF Linger, Waits, Ends
    <2>2. CASE doneSent[s] /\ Terminate(s, "EOF", "no")
      BY <2>1, <2>2, TerminateIInv
    <2>3. CASE ~doneSent[s] /\ Terminate(s, "Linger", "rst")
      BY <2>1, <2>3, TerminateIInv
    <2> QED BY <1>4, <2>2, <2>3, ZenonT(30) DEF Linger
  <1>5. CASE Idle(s)
    <2>1. Live(s) /\ "Idle" \in Ends \ {"no"} /\ ~doneSent[s] /\ Terminate(s, "Idle", "rst")
      BY <1>5 DEF Idle, Waits, Ends
    <2> QED BY <2>1, TerminateIInv
  <1>6. CASE NoPath(s)
    <2>1. Live(s) /\ Terminate(s, DoneOr(s, "NoPath"), "no")
      BY <1>6 DEF NoPath, Waits
    <2> QED BY <2>1, DoneOrIInv
  <1>7. CASE Shutdown(s)
    <2>1. Live(s) /\ "Shutdown" \in Ends \ {"no"} /\ Terminate(s, "Shutdown", "goaway")
      BY <1>7 DEF Shutdown, Ends
    <2> QED BY <2>1, TerminateIInv
  <1> QED BY <1>1, <1>2, <1>3, <1>4, <1>5, <1>6, <1>7 DEF Act, Deadline

\* A JOIN, its answers and its failure, and the end of a link
LEMMA DialIInv ==
    ASSUME IInv, NEW c \in Carrier, Dial(c) \/ Break(c) \/ FinishRetire(c)
    PROVE  IInv'
  <1>0. /\ Side = {"dialer", "passive"} /\ Peer("dialer") = "passive" /\ Peer("passive") = "dialer"
        /\ DOMAIN net = Side /\ \A s \in Side : DOMAIN net[s] = Carrier
        /\ \A s \in Side, k \in Carrier : net[s][k] \in Seq(Frame(s))
        /\ sNext \in [Side -> Nat] /\ sBase \in [Side -> Nat] /\ rRead \in [Side -> Nat]
        /\ lane \in [Side -> [Carrier -> LaneState]]
        /\ \A S : <<>> \in Seq(S)
    BY Empty DEF Side, Peer, IInv, TypeOK, NetShape, FramesInv
  <1>00. \A s \in Side : net[s][c] # <<>> => Head(net[s][c]) \in Frame(s)
    BY HeadTrue DEF IInv
  <1>1. CASE Join(c)
    <2> DEFINE f == [t |-> "JOIN", rx |-> rRead["dialer"]]
    <2>1. f \in Frame("passive")
      BY <1>0, ZenonT(30) DEF Frame
    <2>2. /\ UNCHANGED <<appVars, recvVars, sendVars, ackVars, endVars, peerGoAway>>
          /\ lane' = [lane EXCEPT !["dialer"][c] = "joining"]
          /\ net' = [net EXCEPT !["passive"][c] = <<f>>]
      BY <1>1 DEF Join
    <2> HIDE DEF f
    <2>3. <<f>> \in Seq(Frame("passive"))
      BY <2>1, Single
    <2>4. NetShape' /\ \A s \in Side, k \in Carrier : net'[s][k] \in Seq(Frame(s))
      BY <1>0, <2>2, <2>3 DEF NetShape
    <2>5. lane' \in [Side -> [Carrier -> LaneState]]
      BY <1>0, <2>2 DEF LaneState
    <2> QED BY <1>0, <2>2, <2>4, <2>5, QuietIInv DEF sendVars, ackVars
  <1>2. CASE Adopt(c)
    <2> DEFINE rx == Head(net["passive"][c]).rx
               f == [t |-> "JOIN_ACK", rx |-> rRead["passive"]]
    <2>1. rx \in Nat
      BY <1>0, <1>00, <1>2, FrameSays DEF Adopt, Reads
    <2>2. f \in Frame("dialer")
      BY <1>0 DEF Frame
    <2>3. /\ Gains("passive", c, rx)
          /\ net' = [net EXCEPT !["passive"][c] = <<>>,
                                !["dialer"][c] = IF link[c] = "up" THEN <<f>> ELSE @]
      BY <1>2 DEF Adopt
    <2> HIDE DEF f, rx
    <2>4. <<f>> \in Seq(Frame("dialer"))
      BY <2>2, Single
    <2>5. NetShape' /\ \A s \in Side, k \in Carrier : net'[s][k] \in Seq(Frame(s))
      BY <1>0, <2>3, <2>4, ZenonT(30) DEF NetShape
    <2>6. /\ sNext' \in [Side -> Nat] /\ sBase' \in [Side -> Nat]
          /\ lane' \in [Side -> [Carrier -> LaneState]]
      BY <1>0, <2>1, <2>3 DEF Gains, Advance, LaneState
    <2>7. UNCHANGED <<appVars, recvVars, finAcked, finDelivSent, doneSent, peerDone, endVars, peerGoAway>>
      BY <2>3 DEF Gains
    <2> QED BY <2>5, <2>6, <2>7, QuietIInv
  <1>3. CASE Refuse(c)
    <2> DEFINE f == [t |-> "UNKNOWN", code |-> EndCode]
    <2>1. f \in Frame("dialer")
      BY <1>0, ZenonT(30) DEF Frame, EndCode
    <2>2. /\ UNCHANGED <<appVars, recvVars, sendVars, ackVars, endVars, laneVars>>
          /\ net' = [net EXCEPT !["passive"][c] = <<>>,
                                !["dialer"][c] = IF link[c] = "up" THEN <<f>> ELSE @]
      BY <1>3 DEF Refuse
    <2> HIDE DEF f
    <2>3. <<f>> \in Seq(Frame("dialer"))
      BY <2>1, Single
    <2>4. NetShape' /\ \A s \in Side, k \in Carrier : net'[s][k] \in Seq(Frame(s))
      BY <1>0, <2>2, <2>3, ZenonT(30) DEF NetShape
    <2> QED BY <1>0, <2>2, <2>4, QuietIInv DEF sendVars, ackVars, laneVars
  <1>4. CASE Attach(c)
    <2> DEFINE rx == Head(net["dialer"][c]).rx
    <2>1. rx \in Nat /\ net["dialer"][c] # <<>>
      BY <1>0, <1>00, <1>4, FrameSays, ZenonT(30) DEF Attach, Reads
    <2>2. Gains("dialer", c, rx) /\ net' = [net EXCEPT !["dialer"][c] = Tail(net["dialer"][c])]
      BY <1>4 DEF Attach, Take
    <2>3. Tail(net["dialer"][c]) \in Seq(Frame("dialer"))
      BY <1>0, <2>1
    <2> HIDE DEF rx
    <2>5. NetShape' /\ \A s \in Side, k \in Carrier : net'[s][k] \in Seq(Frame(s))
      BY <1>0, <2>2, <2>3 DEF NetShape
    <2>6. /\ sNext' \in [Side -> Nat] /\ sBase' \in [Side -> Nat]
          /\ lane' \in [Side -> [Carrier -> LaneState]]
      BY <1>0, <2>1, <2>2 DEF Gains, Advance, LaneState
    <2>7. UNCHANGED <<appVars, recvVars, finAcked, finDelivSent, doneSent, peerDone, endVars, peerGoAway>>
      BY <2>2 DEF Gains
    <2> QED BY <2>5, <2>6, <2>7, QuietIInv
  <1>5. CASE JoinRefused(c)
    <2> DEFINE f == Head(net["dialer"][c])
               err == IF f.code THEN "Remote" ELSE "Lost"
    <2>1. f.code \in BOOLEAN /\ (f.code => rst["passive"] # "no")
      BY <1>0, <1>00, <1>5, FrameSays DEF JoinRefused, Reads
    <2>2. err \in {"Remote", "Lost"} /\ (err = "Remote" => rst[Peer("dialer")] # "no")
      BY <1>0, <2>1
    <2>3. Live("dialer") /\ Terminate("dialer", DoneOr("dialer", err), "no")
      BY <1>5 DEF JoinRefused, Reads
    <2> HIDE DEF err
    <2> QED BY <1>0, <2>2, <2>3, DoneOrIInv
  <1>6. CASE AttemptFailed(c)
    <2>1. /\ UNCHANGED <<appVars, recvVars, sendVars, ackVars, endVars, peerGoAway>>
          /\ lane' = [lane EXCEPT !["dialer"][c] = "dead"]
          /\ net' = [net EXCEPT !["dialer"][c] = <<>>]
      BY <1>6 DEF AttemptFailed
    <2>2. NetShape' /\ \A s \in Side, k \in Carrier : net'[s][k] \in Seq(Frame(s))
      BY <1>0, <2>1 DEF NetShape
    <2>3. lane' \in [Side -> [Carrier -> LaneState]]
      BY <1>0, <2>1 DEF LaneState
    <2> QED BY <1>0, <2>1, <2>2, <2>3, QuietIInv DEF sendVars, ackVars
  <1>7. CASE Break(c)
    <2>1. PICK kept \in [Side -> 0..(NetMax + 3)] :
              /\ \A s \in Side : kept[s] <= Len(net[s][c])
              /\ net' = [s \in Side |-> [net[s] EXCEPT ![c] = SubSeq(@, 1, kept[s])]]
      BY <1>7, ZenonT(30) DEF Break
    <2>2. \A s \in Side : kept[s] \in 0 .. Len(net[s][c])
      <3> SUFFICES ASSUME NEW s \in Side PROVE kept[s] \in 0 .. Len(net[s][c])
        OBVIOUS
      <3>1. kept[s] \in Nat
        BY ConstAssumption
      <3>2. Len(net[s][c]) \in Nat
        BY <1>0
      <3>3. kept[s] <= Len(net[s][c])
        BY <2>1, Zenon
      <3> QED BY <3>1, <3>2, <3>3
    <2>3. \A s \in Side : SubSeq(net[s][c], 1, kept[s]) \in Seq(Frame(s))
      <3> SUFFICES ASSUME NEW s \in Side PROVE SubSeq(net[s][c], 1, kept[s]) \in Seq(Frame(s))
        OBVIOUS
      <3>1. net[s][c] \in Seq(Frame(s)) /\ kept[s] \in 0 .. Len(net[s][c])
        BY <1>0, <2>2, Zenon
      <3> QED BY <3>1
    <2>4. NetShape' /\ \A s \in Side, k \in Carrier : net'[s][k] \in Seq(Frame(s))
      BY <1>0, <2>1, <2>3, ZenonT(30) DEF NetShape
    <2>5. UNCHANGED <<appVars, sendVars, recvVars, ackVars, endVars, laneVars>>
      BY <1>7 DEF Break
    <2> QED BY <1>0, <2>4, <2>5, QuietIInv, ZenonT(30) DEF sendVars, ackVars, laneVars
  <1>8. CASE FinishRetire(c)
    BY <1>0, <1>8, StillIInv DEF FinishRetire, sendVars, ackVars, laneVars
  <1> QED BY <1>1, <1>2, <1>3, <1>4, <1>5, <1>6, <1>7, <1>8 DEF Dial

-----------------------------------------------------------------------------
(* The theorems.                                                           *)

LEMMA Invariance == Spec => []IInv
  <1>1. IInv /\ [Next]_vars => IInv'
    <2> SUFFICES ASSUME IInv, [Next]_vars PROVE IInv'
      OBVIOUS
    <2>1. CASE Next
      BY <2>1, AppIInv, FillIInv, RecvIInv, ActIInv, DialIInv, Zenon DEF Next
    <2>2. CASE UNCHANGED vars
      <3>1. /\ UNCHANGED <<appVars, sendVars, recvVars, ackVars, endVars, laneVars, net>>
            /\ sNext \in [Side -> Nat] /\ sBase \in [Side -> Nat]
            /\ lane \in [Side -> [Carrier -> LaneState]]
        BY <2>2 DEF vars, IInv, TypeOK
      <3> QED BY <3>1, StillIInv DEF sendVars, ackVars, laneVars
    <2> QED BY <2>1, <2>2
  <1> QED BY <1>1, InitIInv, PTL DEF Spec

\* D4 and doneOr: io.EOF means that both directions are complete, and nothing
\* but the own application or Runtime spoils a session whose DONE went out.
THEOREM CleanEndHolds == Spec => []CleanEnd
  <1>1. IInv => CleanEnd
    <2> SUFFICES ASSUME IInv, NEW s \in Side
                 PROVE  /\ ended[s] = "EOF" =>
                            /\ fin[s] = wrote[s] /\ rRead[Peer(s)] = fin[s]
                            /\ fin[Peer(s)] = wrote[Peer(s)] /\ rRead[s] = fin[Peer(s)]
                        /\ doneSent[s] => ended[s] \in {"no", "EOF", "Abort", "Exhausted", "Shutdown"}
      BY DEF CleanEnd
    <2>1. ended[s] = "EOF" => FinDelivered(s) /\ FinDelivered(Peer(s))
      BY DEF IInv, KnowInv, EndInv
    <2>2. doneSent[s] => ended[s] \in {"no", "EOF", "Abort", "Exhausted", "Shutdown"}
      BY DEF IInv, EndInv
    <2>3. Peer(s) \in Side /\ Peer(Peer(s)) = s
      BY PeerSide
    <2>4. \A p \in Side : FinDelivered(p) => fin[Peer(p)] = wrote[Peer(p)] /\ rRead[p] = fin[Peer(p)]
      BY Delivered
    <2> QED BY <2>1, <2>2, <2>3, <2>4, Zenon
  <1> QED BY <1>1, Invariance, PTL

\* rstLocked and the tombstone's code: a session that ends as reset by its peer
\* was reset by it, on whatever carrier and however late it learns so.
THEOREM RemoteHasCauseHolds == Spec => []RemoteHasCause
  <1>1. IInv => RemoteHasCause
    BY DEF IInv, EndInv, RemoteHasCause
  <1> QED BY <1>1, Invariance, PTL
=============================================================================
