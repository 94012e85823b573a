--------------------------- MODULE ClosingRedial ---------------------------
(***************************************************************************)
(* NoRedial of Closing, for every number of carriers and every plan: after *)
(* both DONEs went out, and as long as no carrier broke by itself, the     *)
(* dialer starts no failover.  The argument follows the passive's DONE: on *)
(* a whole carrier it reaches the dialer's reader before the CLOSE, and    *)
(* neither the death step (awaitReaderLocked) nor the peer's CLOSE takes   *)
(* the carrier away from a dialer that has sent its own before it is read. *)
(***************************************************************************)
EXTENDS ClosingProofs

\* No carrier broke by itself.
Whole == \A c \in Carrier : link[c] # "broken"

\* Frames that neither close a carrier nor bring one in
Clear(q) == \A i \in 1..Len(q) : q[i].t \notin {"CLOSE", "JOIN"}

\* No JOIN is answered.
Unanswered(q) == \A i \in 1..Len(q) : q[i].t # "JOIN_ACK"

IsDone(f) == f.t = "ACK" /\ f.done

\* A DONE that no CLOSE comes before
Carries(q) == \E i \in 1..Len(q) : IsDone(q[i]) /\ \A j \in 1..(i - 1) : q[j].t # "CLOSE"

\* The types TypeOK leaves out.  A carrier that the dialer never used has no link;
\* the passive never joins, and has had the first carrier.
Laid ==
    /\ link \in [Carrier -> {"none", "up", "broken", "closed"}]
    /\ peerClosed \in [Side -> SUBSET Carrier]
    /\ lane["passive"][First] # "none"
    /\ \A c \in Carrier :
           /\ lane["dialer"][c] = "none" => link[c] = "none"
           /\ lane["passive"][c] # "joining"

\* While both sides live on whole carriers they have the first one and no other.
Joint ==
    /\ link[First] = "up"
    /\ \A s \in Side :
           /\ lane[s][First] = "up" /\ peerClosed[s] = {}
           /\ \A c \in Carrier : Clear(net[s][c])

\* A dialer that lives on: the carriers it tries after the first are not taken in.
Lone ==
    /\ lane["dialer"][First] \notin {"none", "joining"}
    /\ \A c \in Carrier :
           /\ Unanswered(net["dialer"][c])
           /\ c # First => lane["dialer"][c] \in {"none", "joining"} /\ lane["passive"][c] = "none"

\* The passive's DONE is on its way, and the dialer will read it before it gives the
\* carrier up, if its own DONE went out.
Coming ==
    /\ Carries(net["dialer"][First]) /\ First \notin peerClosed["dialer"]
    /\ \/ lane["dialer"][First] = "up"
       \/ lane["dialer"][First] = "dead" /\ ~doneSent["dialer"]

RedialInv ==
    /\ Laid
    /\ Whole /\ Live("dialer") =>
           /\ Lone
           /\ Live("passive") => Joint
           /\ doneSent["passive"] => peerDone["dialer"] \/ Coming

-----------------------------------------------------------------------------
(* Lemmas about frames in a row.                                           *)

LEMMA ClearCat ==
    ASSUME NEW S, NEW q \in Seq(S), NEW r \in Seq(S)
    PROVE  /\ Clear(q) /\ Clear(r) => Clear(q \o r)
           /\ Unanswered(q) /\ Unanswered(r) => Unanswered(q \o r)
           /\ Carries(q) => Carries(q \o r)
  <1>1. /\ Len(q) \in Nat /\ Len(r) \in Nat /\ Len(q \o r) = Len(q) + Len(r)
        /\ \A i \in 1..Len(q) : (q \o r)[i] = q[i]
        /\ \A i \in (Len(q) + 1)..Len(q \o r) : (q \o r)[i] = r[i - Len(q)] /\ i - Len(q) \in 1..Len(r)
    OBVIOUS
  <1>2. \A i \in 1..Len(q \o r) :
            \/ i \in 1..Len(q) /\ (q \o r)[i] = q[i]
            \/ \E j \in 1..Len(r) : (q \o r)[i] = r[j]
    <2> SUFFICES ASSUME NEW i \in 1..Len(q \o r)
                 PROVE  \/ i \in 1..Len(q) /\ (q \o r)[i] = q[i]
                        \/ \E j \in 1..Len(r) : (q \o r)[i] = r[j]
      OBVIOUS
    <2>1. i \in 1..Len(q) \/ i \in (Len(q) + 1)..Len(q \o r)
      BY <1>1
    <2> QED BY <1>1, <2>1, ZenonT(30)
  <1>3. Clear(q) /\ Clear(r) => Clear(q \o r)
    BY <1>2, ZenonT(30) DEF Clear
  <1>4. Unanswered(q) /\ Unanswered(r) => Unanswered(q \o r)
    BY <1>2, ZenonT(30) DEF Unanswered
  <1>5. ASSUME Carries(q) PROVE Carries(q \o r)
    <2>1. PICK i \in 1..Len(q) : IsDone(q[i]) /\ \A j \in 1..(i - 1) : q[j].t # "CLOSE"
      BY <1>5 DEF Carries
    <2>2. i \in 1..Len(q \o r) /\ \A j \in 1..(i - 1) : j \in 1..Len(q)
      BY <1>1
    <2>3. IsDone((q \o r)[i]) /\ \A j \in 1..(i - 1) : (q \o r)[j].t # "CLOSE"
      BY <1>1, <2>1, <2>2, ZenonT(30)
    <2> QED BY <2>2, <2>3 DEF Carries
  <1> QED BY <1>3, <1>4, <1>5

LEMMA ClearDone ==
    ASSUME NEW S, NEW q \in Seq(S), NEW f \in S, Clear(q), IsDone(f)
    PROVE  Carries(q \o <<f>>)
  <1>1. /\ Len(q) \in Nat /\ Len(q \o <<f>>) = Len(q) + 1
        /\ \A i \in 1..Len(q) : (q \o <<f>>)[i] = q[i]
        /\ (q \o <<f>>)[Len(q) + 1] = f
    OBVIOUS
  <1> DEFINE n == Len(q) + 1
  <1>2. n \in 1..Len(q \o <<f>>) /\ \A j \in 1..(n - 1) : j \in 1..Len(q)
    BY <1>1
  <1>3. IsDone((q \o <<f>>)[n]) /\ \A j \in 1..(n - 1) : (q \o <<f>>)[j].t # "CLOSE"
    BY <1>1, <1>2 DEF Clear
  <1> QED BY <1>2, <1>3 DEF Carries

LEMMA ClearTail ==
    ASSUME NEW S, NEW q \in Seq(S), q # <<>>
    PROVE  /\ Clear(q) => Clear(Tail(q)) /\ Head(q).t \notin {"CLOSE", "JOIN"}
           /\ Unanswered(q) => Unanswered(Tail(q)) /\ Head(q).t # "JOIN_ACK"
           /\ Carries(q) => IsDone(Head(q)) \/ (Head(q).t # "CLOSE" /\ Carries(Tail(q)))
  <1>1. /\ Len(q) \in Nat \ {0} /\ Head(q) = q[1] /\ Len(Tail(q)) = Len(q) - 1
        /\ \A i \in 1..Len(Tail(q)) : Tail(q)[i] = q[i + 1]
    OBVIOUS
  <1>2. 1 \in 1..Len(q) /\ \A i \in 1..Len(Tail(q)) : i + 1 \in 1..Len(q)
    BY <1>1
  <1>3. Clear(q) => Clear(Tail(q)) /\ Head(q).t \notin {"CLOSE", "JOIN"}
    BY <1>1, <1>2, ZenonT(30) DEF Clear
  <1>4. Unanswered(q) => Unanswered(Tail(q)) /\ Head(q).t # "JOIN_ACK"
    BY <1>1, <1>2, ZenonT(30) DEF Unanswered
  <1>5. ASSUME Carries(q), ~IsDone(Head(q)) PROVE Head(q).t # "CLOSE" /\ Carries(Tail(q))
    <2>1. PICK i \in 1..Len(q) : IsDone(q[i]) /\ \A j \in 1..(i - 1) : q[j].t # "CLOSE"
      BY <1>5 DEF Carries
    <2>2. i # 1
      BY <1>1, <1>5, <2>1, ZenonT(30)
    <2>3. /\ i - 1 \in 1..Len(Tail(q)) /\ 1 \in 1..(i - 1) /\ (i - 1) + 1 = i
          /\ \A j \in 1..((i - 1) - 1) : j \in 1..Len(Tail(q)) /\ j + 1 \in 1..(i - 1)
      BY <1>1, <2>2
    <2>4. /\ Head(q).t # "CLOSE" /\ IsDone(Tail(q)[i - 1])
          /\ \A j \in 1..((i - 1) - 1) : Tail(q)[j].t # "CLOSE"
      BY <1>1, <2>1, <2>3, ZenonT(30)
    <2> QED BY <2>3, <2>4 DEF Carries
  <1> QED BY <1>3, <1>4, <1>5

LEMMA NothingHeld == Clear(<<>>) /\ Unanswered(<<>>) /\ ~Carries(<<>>)
  BY DEF Clear, Unanswered, Carries

\* Where the frames of a Send go
LEMMA SentTo ==
    ASSUME IInv, NEW s \in Side, NEW c \in Carrier, NEW fs, Send(s, c, fs)
    PROVE  /\ \A t \in Side, k \in Carrier : net'[t][k] = net[t][k] \/ net'[t][k] = net[t][k] \o fs
           /\ link[c] = "up" /\ Live(Peer(s)) => net'[Peer(s)][c] = net[Peer(s)][c] \o fs
  <1>1. DOMAIN net = Side /\ \A t \in Side : DOMAIN net[t] = Carrier
    BY DEF IInv, TypeOK, NetShape
  <1>2. CASE net' = net /\ ~(link[c] = "up" /\ Live(Peer(s)))
    BY <1>2, ZenonT(30)
  <1>3. CASE net' = [net EXCEPT ![Peer(s)][c] = @ \o fs]
    <2> DEFINE v == net[Peer(s)][c] \o fs
    <2> HIDE DEF v
    <2>1. Peer(s) \in Side
      BY PeerSide
    <2>2. net' = [net EXCEPT ![Peer(s)][c] = v]
      BY <1>3 DEF v
    <2>3. \A t \in Side, k \in Carrier : net'[t][k] = IF t = Peer(s) /\ k = c THEN v ELSE net[t][k]
      BY <1>1, <2>1, <2>2, Except2
    <2> QED BY <2>1, <2>3, ZenonT(30) DEF v
  <1> QED BY <1>2, <1>3, ZenonT(30) DEF Send

LEMMA RowKeeps ==
    ASSUME NEW S, NEW r \in Seq(S), NEW q \in Seq(S), NEW q1, q1 = q \/ q1 = q \o r
    PROVE  /\ Clear(q) /\ Clear(r) => Clear(q1)
           /\ Unanswered(q) /\ Unanswered(r) => Unanswered(q1)
           /\ Carries(q) => Carries(q1)
  <1>1. /\ Clear(q) /\ Clear(r) => Clear(q \o r)
        /\ Unanswered(q) /\ Unanswered(r) => Unanswered(q \o r)
        /\ Carries(q) => Carries(q \o r)
    BY ClearCat, ZenonT(30)
  <1> QED BY <1>1, ZenonT(30)

LEMMA SentKeeps ==
    ASSUME IInv, NEW s \in Side, NEW c \in Carrier, NEW r, Send(s, c, r)
    PROVE  \A S :
               r \in Seq(S) /\ (\A t \in Side, k \in Carrier : net[t][k] \in Seq(S)) =>
               \A t \in Side, k \in Carrier :
                   /\ Clear(net[t][k]) /\ Clear(r) => Clear(net'[t][k])
                   /\ Unanswered(net[t][k]) /\ Unanswered(r) => Unanswered(net'[t][k])
                   /\ Carries(net[t][k]) => Carries(net'[t][k])
  <1>1. \A t \in Side, k \in Carrier : net'[t][k] = net[t][k] \/ net'[t][k] = net[t][k] \o r
    BY SentTo, ZenonT(60)
  <1> SUFFICES ASSUME NEW S, r \in Seq(S), NEW t \in Side, NEW k \in Carrier, net[t][k] \in Seq(S)
               PROVE  /\ Clear(net[t][k]) /\ Clear(r) => Clear(net'[t][k])
                      /\ Unanswered(net[t][k]) /\ Unanswered(r) => Unanswered(net'[t][k])
                      /\ Carries(net[t][k]) => Carries(net'[t][k])
    BY ZenonT(60)
  <1>2. net'[t][k] = net[t][k] \/ net'[t][k] = net[t][k] \o r
    BY <1>1, ZenonT(30)
  <1> QED BY <1>2, RowKeeps, ZenonT(60)

LEMMA TakenFrom ==
    ASSUME IInv, NEW s \in Side, NEW c \in Carrier, Take(s, c)
    PROVE  \A t \in Side, k \in Carrier :
               net'[t][k] = IF t = s /\ k = c THEN Tail(net[s][c]) ELSE net[t][k]
  <1>1. DOMAIN net = Side /\ \A t \in Side : DOMAIN net[t] = Carrier
    BY DEF IInv, TypeOK, NetShape
  <1> DEFINE v == Tail(net[s][c])
  <1>2. net' = [net EXCEPT ![s][c] = v]
    BY DEF Take
  <1> HIDE DEF v
  <1>3. \A t \in Side, k \in Carrier : net'[t][k] = IF t = s /\ k = c THEN v ELSE net[t][k]
    BY <1>1, <1>2, Except2
  <1> QED BY <1>3 DEF v

-----------------------------------------------------------------------------
(* The actions preserve RedialInv.                                         *)

LEMMA QuietRedial ==
    ASSUME RedialInv, UNCHANGED <<ended, lane, link, net, peerClosed, doneSent, peerDone>>
    PROVE  RedialInv'
  <1>1. Laid' = Laid /\ Lone' = Lone /\ Joint' = Joint /\ Coming' = Coming /\ Whole' = Whole
    BY DEF Laid, Lone, Joint, Coming, Whole
  <1>2. Live("dialer")' = Live("dialer") /\ Live("passive")' = Live("passive")
    BY DEF Live
  <1> QED BY <1>1, <1>2, ZenonT(30) DEF RedialInv

\* DATA, FIN and ACK: the ACK that carries a DONE is on the first carrier.
LEMMA SendRedial ==
    ASSUME IInv, RedialInv, NEW s \in Side, NEW c \in Carrier, NEW f,
           Send(s, c, <<f>>), f.t \notin {"CLOSE", "JOIN", "JOIN_ACK"},
           UNCHANGED <<ended, lane, link, peerClosed, peerDone>>,
           doneSent'["dialer"] => \/ doneSent["dialer"]
                                  \/ s = "dialer" /\ lane[s][c] \in {"up", "retired"},
           doneSent'["passive"] => \/ doneSent["passive"]
                                   \/ /\ s = "passive" /\ lane[s][c] \in {"up", "retired"}
                                      /\ Live(s) /\ IsDone(f)
    PROVE  RedialInv'
  <1>0. "dialer" \in Side /\ "passive" \in Side /\ Peer("passive") = "dialer" /\ First \in Carrier
    BY ConstAssumption DEF Side, Peer
  <1>1. Laid'
    BY DEF RedialInv, Laid
  <1>2. PICK S : f \in S /\ \A t \in Side, k \in Carrier : net[t][k] \in Seq(S)
    <2> DEFINE T == Frame("dialer") \cup Frame("passive") \cup {f}
    <2>1. /\ Seq(Frame("dialer")) \subseteq Seq(T) /\ Seq(Frame("passive")) \subseteq Seq(T)
      BY SeqGrows
    <2>2. \A t \in Side, k \in Carrier : net[t][k] \in Seq(T)
      BY <2>1, ZenonT(30) DEF IInv, FramesInv, Side
    <2>3. f \in T
      OBVIOUS
    <2> HIDE DEF T
    <2> QED BY <2>2, <2>3
  <1>3. PICK fs : fs = <<f>> /\ fs \in Seq(S) /\ Clear(fs) /\ Unanswered(fs) /\ Send(s, c, fs)
    <2>1. <<f>> \in Seq(S) /\ Clear(<<f>>) /\ Unanswered(<<f>>)
      BY <1>2 DEF Clear, Unanswered
    <2> QED BY <2>1, ZenonT(30)
  <1>4. \A t \in Side, k \in Carrier :
            /\ Clear(net[t][k]) => Clear(net'[t][k])
            /\ Unanswered(net[t][k]) => Unanswered(net'[t][k])
            /\ Carries(net[t][k]) => Carries(net'[t][k])
    BY <1>2, <1>3, SentKeeps, ZenonT(30)
  <1>5. SUFFICES ASSUME Whole', Live("dialer")'
                 PROVE  /\ Lone' /\ (Live("passive")' => Joint')
                        /\ doneSent'["passive"] => peerDone'["dialer"] \/ Coming'
    BY <1>1 DEF RedialInv
  <1>6. /\ Whole /\ Live("dialer") /\ Lone /\ (Live("passive") => Joint)
        /\ doneSent["passive"] => peerDone["dialer"] \/ Coming
    BY <1>5 DEF RedialInv, Whole, Live
  <1>7. Lone'
    BY <1>0, <1>4, <1>6, ZenonT(30) DEF Lone
  <1>8. Live("passive")' => Joint'
    BY <1>4, <1>6, ZenonT(30) DEF Joint, Live
  <1>9. ASSUME doneSent'["passive"], ~peerDone["dialer"] PROVE Coming'
    <2>1. CASE doneSent["passive"]
      <3>1. Coming
        BY <1>6, <1>9, <2>1
      <3>2. Carries(net'["dialer"][First])
        BY <1>0, <1>4, <3>1 DEF Coming
      <3>3. doneSent'["dialer"] => doneSent["dialer"] \/ lane["dialer"][First] # "dead"
        BY <1>6 DEF Lone
      <3> QED BY <3>1, <3>2, <3>3 DEF Coming
    <2>2. CASE ~doneSent["passive"]
      <3>1. s = "passive" /\ lane["passive"][c] \in {"up", "retired"} /\ Live("passive") /\ IsDone(f)
        BY <1>9, <2>2
      <3>2. c = First
        BY <1>6, <3>1 DEF Lone
      <3>3. /\ link[First] = "up" /\ lane["dialer"][First] = "up" /\ peerClosed["dialer"] = {}
            /\ Clear(net["dialer"][First])
        BY <1>0, <1>6, <3>1 DEF Joint
      <3>4. net'["dialer"][First] = net["dialer"][First] \o <<f>>
        <4>1. link[c] = "up" /\ Live(Peer(s)) => net'[Peer(s)][c] = net[Peer(s)][c] \o fs
          BY <1>3, SentTo, ZenonT(30)
        <4> QED BY <1>0, <1>3, <1>6, <3>1, <3>2, <3>3, <4>1
      <3>5. Carries(net'["dialer"][First])
        BY <1>0, <1>2, <3>1, <3>3, <3>4, ClearDone
      <3> QED BY <3>3, <3>5 DEF Coming
    <2> QED BY <2>1, <2>2
  <1> QED BY <1>7, <1>8, <1>9

\* The last frames of a carrier come after the DONE, and from a side that ended.
LEMMA FillCloseRedial ==
    ASSUME IInv, RedialInv, NEW s \in Side, NEW c \in Carrier,
           NEW fs \in {<<>>, <<"RST">>, <<"GOAWAY", "RST">>, <<"RST", "GOAWAY">>},
           FillClose(s, c, fs)
    PROVE  RedialInv'
  <1> DEFINE r == [i \in DOMAIN fs |-> [t |-> fs[i]]] \o <<[t |-> "CLOSE"]>>
  <1>0. /\ "dialer" \in Side /\ "passive" \in Side /\ Side = {"dialer", "passive"} /\ First \in Carrier
        /\ lane \in [Side -> [Carrier -> LaneState]]
    BY ConstAssumption DEF Side, IInv, TypeOK
  <1>1. /\ Send(s, c, r) /\ lane[s][c] = "retired" /\ lane' = [lane EXCEPT ![s][c] = "closed"]
        /\ UNCHANGED <<ended, link, peerClosed, doneSent, peerDone>>
    BY DEF FillClose, ackVars, endVars
  <1>2. PICK S : r \in Seq(S) /\ Unanswered(r) /\ \A t \in Side, k \in Carrier : net[t][k] \in Seq(S)
    <2> DEFINE U == [t : {"RST", "GOAWAY", "CLOSE"}]
               T == Frame("dialer") \cup Frame("passive") \cup U
    <2>1. /\ Seq(Frame("dialer")) \subseteq Seq(T) /\ Seq(Frame("passive")) \subseteq Seq(T)
          /\ Seq(U) \subseteq Seq(T)
      BY SeqGrows
    <2>2. \A t \in Side, k \in Carrier : net[t][k] \in Seq(T)
      BY <1>0, <2>1, ZenonT(30) DEF IInv, FramesInv
    <2>3. [t |-> "CLOSE"] \in U /\ [t |-> "RST"] \in U /\ [t |-> "GOAWAY"] \in U
      OBVIOUS
    <2>4. \A x \in U : x.t # "JOIN_ACK"
      OBVIOUS
    <2> HIDE DEF T, U
    <2>5. r \in Seq(U)
      BY <2>3, LastFrames
    <2> HIDE DEF r
    <2>6. Unanswered(r)
      BY <2>4, <2>5 DEF Unanswered
    <2> QED BY <2>1, <2>2, <2>5, <2>6
  <1> HIDE DEF r
  <1>3. \A t \in Side, k \in Carrier :
            /\ Unanswered(net[t][k]) => Unanswered(net'[t][k])
            /\ Carries(net[t][k]) => Carries(net'[t][k])
    BY <1>1, <1>2, SentKeeps, ZenonT(30)
  <1>4. \A t \in Side, k \in Carrier :
            \/ lane'[t][k] = lane[t][k]
            \/ t = s /\ k = c /\ lane'[t][k] = "closed" /\ lane[t][k] = "retired"
    BY <1>0, <1>1
  <1>5. Laid'
    BY <1>0, <1>1, <1>4 DEF RedialInv, Laid
  <1>6. SUFFICES ASSUME Whole', Live("dialer")'
                 PROVE  /\ Lone' /\ (Live("passive")' => Joint')
                        /\ doneSent'["passive"] => peerDone'["dialer"] \/ Coming'
    BY <1>5 DEF RedialInv
  <1>7. /\ Whole /\ Live("dialer") /\ Lone /\ (Live("passive") => Joint)
        /\ doneSent["passive"] => peerDone["dialer"] \/ Coming
    BY <1>1, <1>6 DEF RedialInv, Whole, Live
  <1>8. Lone'
    BY <1>0, <1>3, <1>4, <1>7 DEF Lone
  <1>9. ~Live("passive")'
    <2>1. Live("passive") => lane[s][First] = "up" /\ (c # First => lane[s][c] # "retired")
      BY <1>0, <1>7, ZenonT(30) DEF Joint, Lone
    <2>2. ~Live("passive")
      BY <1>1, <2>1, ZenonT(30)
    <2> QED BY <1>1, <2>2 DEF Live
  <1>10. Coming => Coming'
    BY <1>0, <1>1, <1>3, <1>4, ZenonT(30) DEF Coming
  <1> QED BY <1>1, <1>7, <1>8, <1>9, <1>10, ZenonT(30)

\* A frame other than CLOSE is read: the DONE is read, or it still comes.
LEMMA TakeRedial ==
    ASSUME IInv, RedialInv, NEW s \in Side, NEW c \in Carrier,
           Take(s, c), net[s][c] # <<>>, Head(net[s][c]).t # "CLOSE",
           UNCHANGED <<ended, lane, link, peerClosed, doneSent>>,
           peerDone["dialer"] => peerDone'["dialer"],
           s = "dialer" /\ IsDone(Head(net[s][c])) => peerDone'["dialer"]
    PROVE  RedialInv'
  <1>0. "dialer" \in Side /\ "passive" \in Side /\ First \in Carrier
    BY ConstAssumption DEF Side
  <1>1. Laid'
    BY DEF RedialInv, Laid
  <1>2. net[s][c] \in Seq(Frame(s))
    BY DEF IInv, FramesInv
  <1>3. /\ Clear(net[s][c]) => Clear(Tail(net[s][c]))
        /\ Unanswered(net[s][c]) => Unanswered(Tail(net[s][c]))
        /\ Carries(net[s][c]) => IsDone(Head(net[s][c])) \/ Carries(Tail(net[s][c]))
    BY <1>2, ClearTail, ZenonT(30)
  <1>4. \A t \in Side, k \in Carrier :
            \/ net'[t][k] = net[t][k]
            \/ t = s /\ k = c /\ net'[t][k] = Tail(net[s][c])
    BY TakenFrom
  <1>5. \A t \in Side, k \in Carrier :
            /\ Clear(net[t][k]) => Clear(net'[t][k])
            /\ Unanswered(net[t][k]) => Unanswered(net'[t][k])
    BY <1>3, <1>4, ZenonT(30)
  <1>6. Carries(net["dialer"][First]) => Carries(net'["dialer"][First]) \/ peerDone'["dialer"]
    BY <1>0, <1>3, <1>4, ZenonT(30)
  <1>7. SUFFICES ASSUME Whole', Live("dialer")'
                 PROVE  /\ Lone' /\ (Live("passive")' => Joint')
                        /\ doneSent'["passive"] => peerDone'["dialer"] \/ Coming'
    BY <1>1 DEF RedialInv
  <1>8. /\ Whole /\ Live("dialer") /\ Lone /\ (Live("passive") => Joint)
        /\ doneSent["passive"] => peerDone["dialer"] \/ Coming
    BY <1>7 DEF RedialInv, Whole, Live
  <1>9. Lone'
    BY <1>0, <1>5, <1>8, ZenonT(30) DEF Lone
  <1>10. Live("passive")' => Joint'
    BY <1>5, <1>8, ZenonT(30) DEF Joint, Live
  <1>11. Coming => Coming' \/ peerDone'["dialer"]
    BY <1>6, ZenonT(30) DEF Coming
  <1> QED BY <1>8, <1>9, <1>10, <1>11, ZenonT(30)

\* A CLOSE is read: the DONE was before it.
LEMMA RecvCloseRedial ==
    ASSUME IInv, RedialInv, NEW s \in Side, NEW c \in Carrier, RecvClose(s, c)
    PROVE  RedialInv'
  <1>0. "dialer" \in Side /\ "passive" \in Side /\ Side = {"dialer", "passive"} /\ First \in Carrier
    BY ConstAssumption DEF Side
  <1>1. /\ Live(s) /\ net[s][c] # <<>> /\ Head(net[s][c]).t = "CLOSE" /\ Take(s, c)
        /\ peerClosed' = [peerClosed EXCEPT ![s] = @ \cup {c}]
        /\ UNCHANGED <<ended, lane, link, doneSent, peerDone>>
    BY DEF RecvClose, Reads, ackVars, endVars
  <1>2. Laid /\ peerClosed \in [Side -> SUBSET Carrier]
    BY DEF RedialInv, Laid
  <1>3. /\ peerClosed' \in [Side -> SUBSET Carrier]
        /\ \A t \in Side : t # s => peerClosed'[t] = peerClosed[t]
        /\ peerClosed'[s] = peerClosed[s] \cup {c}
    BY <1>0, <1>1, <1>2
  <1>4. Laid'
    BY <1>1, <1>2, <1>3, ZenonT(30) DEF Laid
  <1>5. net[s][c] \in Seq(Frame(s))
    BY DEF IInv, FramesInv
  <1>6. /\ ~Clear(net[s][c])
        /\ Unanswered(net[s][c]) => Unanswered(Tail(net[s][c]))
        /\ ~Carries(net[s][c])
    <2>1. ~IsDone(Head(net[s][c]))
      BY <1>1 DEF IsDone
    <2> QED BY <1>1, <1>5, <2>1, ClearTail, ZenonT(30)
  <1>7. \A t \in Side, k \in Carrier :
            \/ net'[t][k] = net[t][k]
            \/ t = s /\ k = c /\ net'[t][k] = Tail(net[s][c])
    BY <1>1, TakenFrom
  <1>8. SUFFICES ASSUME Whole', Live("dialer")'
                 PROVE  /\ Lone' /\ (Live("passive")' => Joint')
                        /\ doneSent'["passive"] => peerDone'["dialer"] \/ Coming'
    BY <1>4 DEF RedialInv
  <1>9. /\ Whole /\ Live("dialer") /\ Lone /\ (Live("passive") => Joint)
        /\ doneSent["passive"] => peerDone["dialer"] \/ Coming
    BY <1>1, <1>8 DEF RedialInv, Whole, Live
  <1>10. Lone'
    BY <1>0, <1>1, <1>6, <1>7, <1>9, ZenonT(30) DEF Lone
  <1>11. ~Live("passive")'
    BY <1>1, <1>6, <1>9, ZenonT(30) DEF Joint, Live
  <1>12. Coming => Coming'
    <2>1. ASSUME Coming PROVE ~(s = "dialer" /\ c = First)
      BY <1>6, <2>1, ZenonT(30) DEF Coming
    <2>2. ASSUME Coming PROVE net'["dialer"][First] = net["dialer"][First]
      BY <1>0, <1>7, <2>1, <2>2, ZenonT(30)
    <2>3. ASSUME Coming PROVE First \notin peerClosed'["dialer"]
      BY <1>0, <1>3, <2>1, <2>3 DEF Coming
    <2> QED BY <1>1, <2>2, <2>3, ZenonT(30) DEF Coming
  <1> QED BY <1>1, <1>9, <1>10, <1>11, <1>12, ZenonT(30)

\* The dialer's end is the end of the matter; the passive's leaves the DONE alone.
LEMMA TerminateRedial ==
    ASSUME IInv, RedialInv, NEW s \in Side, NEW err, err # "no", NEW r, Terminate(s, err, r)
    PROVE  RedialInv'
  <1>0. /\ "dialer" \in Side /\ "passive" \in Side /\ Side = {"dialer", "passive"} /\ First \in Carrier
        /\ lane \in [Side -> [Carrier -> LaneState]] /\ ended \in [Side -> Ends]
        /\ DOMAIN net = Side /\ Laid
    BY ConstAssumption DEF Side, IInv, TypeOK, NetShape, RedialInv
  <1>1. /\ ended' = [ended EXCEPT ![s] = err]
        /\ lane' = [lane EXCEPT ![s] = [k \in Carrier |->
               CASE @[k] = "up" -> "retired" [] @[k] = "joining" -> "dead" [] OTHER -> @[k]]]
        /\ link' = [k \in Carrier |-> IF lane[s][k] = "joining" THEN "broken" ELSE link[k]]
        /\ net' = [net EXCEPT ![s] = [k \in Carrier |-> IF lane[s][k] = "none" THEN @[k] ELSE <<>>]]
        /\ UNCHANGED <<doneSent, peerDone, peerClosed>>
    BY DEF Terminate
  <1>2. /\ ended'[s] = err /\ \A t \in Side : t # s => ended'[t] = ended[t] /\ net'[t] = net[t]
    BY <1>0, <1>1
  <1>3. /\ \A t \in Side : t # s => lane'[t] = lane[t]
        /\ \A k \in Carrier : lane'[s][k] # "joining" /\ (lane'[s][k] = "none" <=> lane[s][k] = "none")
    BY <1>0, <1>1
  <1>4. /\ \A k \in Carrier : link'[k] = IF lane[s][k] = "joining" THEN "broken" ELSE link[k]
        /\ link' \in [Carrier -> {"none", "up", "broken", "closed"}]
    BY <1>0, <1>1 DEF Laid
  <1>5. Laid'
    <2>1. /\ lane'["passive"][First] # "none" /\ \A k \in Carrier : lane'["passive"][k] # "joining"
      BY <1>0, <1>3, ZenonT(30) DEF Laid
    <2>2. \A k \in Carrier : lane'["dialer"][k] = "none" => lane["dialer"][k] = "none"
      BY <1>0, <1>3, ZenonT(30)
    <2>3. \A k \in Carrier : lane["dialer"][k] = "none" => lane[s][k] # "joining" /\ link[k] = "none"
      BY <1>0 DEF Laid
    <2> QED BY <1>0, <1>1, <1>4, <2>1, <2>2, <2>3, ZenonT(30) DEF Laid
  <1>6. CASE s = "dialer"
    BY <1>2, <1>5, <1>6 DEF RedialInv, Live
  <1>7. CASE s = "passive"
    <2>1. \A k \in Carrier : link'[k] = link[k]
      BY <1>0, <1>4, <1>7 DEF Laid
    <2>2. /\ ~Live("passive")' /\ (Live("dialer")' <=> Live("dialer")) /\ net'["dialer"] = net["dialer"]
          /\ lane'["dialer"] = lane["dialer"]
      BY <1>0, <1>2, <1>3, <1>7 DEF Live
    <2>3. SUFFICES ASSUME Whole', Live("dialer")'
                 PROVE  /\ Lone' /\ (Live("passive")' => Joint')
                        /\ doneSent'["passive"] => peerDone'["dialer"] \/ Coming'
      BY <1>5 DEF RedialInv
    <2>4. /\ Whole /\ Live("dialer") /\ Lone /\ (Live("passive") => Joint)
          /\ doneSent["passive"] => peerDone["dialer"] \/ Coming
      BY <2>1, <2>2, <2>3, ZenonT(30) DEF RedialInv, Whole
    <2>5. Lone'
      BY <1>3, <1>7, <2>2, <2>4, ZenonT(30) DEF Lone
    <2>6. Coming => Coming'
      BY <1>1, <2>2, ZenonT(30) DEF Coming
    <2> QED BY <1>1, <2>2, <2>4, <2>5, <2>6, ZenonT(30)
  <1> QED BY <1>0, <1>6, <1>7

\* awaitReaderLocked: the death step does not take the carrier of a DONE to come.
LEMMA DeadRedial ==
    ASSUME IInv, RedialInv, NEW s \in Side, NEW c \in Carrier,
           Live(s), lane[s][c] \in {"up", "retired", "closed"}, Ended(c), ~AwaitReader(s, c),
           lane' = [lane EXCEPT ![s][c] = "dead"],
           UNCHANGED <<ended, link, net, peerClosed, doneSent, peerDone>>
    PROVE  RedialInv'
  <1>0. /\ "dialer" \in Side /\ "passive" \in Side /\ Side = {"dialer", "passive"} /\ First \in Carrier
        /\ lane \in [Side -> [Carrier -> LaneState]] /\ Laid
    BY ConstAssumption DEF Side, IInv, TypeOK, RedialInv
  <1>1. \A t \in Side, k \in Carrier :
            lane'[t][k] = IF t = s /\ k = c THEN "dead" ELSE lane[t][k]
    BY <1>0
  <1>2. Laid'
    BY <1>0, <1>1, ZenonT(30) DEF Laid
  <1>3. SUFFICES ASSUME Whole', Live("dialer")'
                 PROVE  /\ Lone' /\ (Live("passive")' => Joint')
                        /\ doneSent'["passive"] => peerDone'["dialer"] \/ Coming'
    BY <1>2 DEF RedialInv
  <1>4. /\ Whole /\ Live("dialer") /\ Lone /\ (Live("passive") => Joint)
        /\ doneSent["passive"] => peerDone["dialer"] \/ Coming
    BY <1>3 DEF RedialInv, Whole, Live
  <1>5. c = First
    <2>1. c # First => lane[s][c] \in {"none", "joining"}
      BY <1>0, <1>4, ZenonT(30) DEF Lone
    <2> QED BY <2>1
  <1>6. ~Live("passive") /\ s = "dialer"
    BY <1>0, <1>4, <1>5 DEF Joint, Ended
  <1>7. Lone'
    BY <1>0, <1>1, <1>4, <1>5, ZenonT(30) DEF Lone
  <1>8. Coming /\ ~peerDone["dialer"] => Coming'
    <2> SUFFICES ASSUME Coming, ~peerDone["dialer"] PROVE Coming'
      OBVIOUS
    <2>1. net["dialer"][First] # <<>>
      BY NothingHeld DEF Coming
    <2>2. ~doneSent["dialer"]
      BY <1>5, <1>6, <2>1 DEF AwaitReader
    <2>3. lane'["dialer"][First] = "dead"
      BY <1>0, <1>1, <1>5, <1>6
    <2> QED BY <2>2, <2>3 DEF Coming
  <1> QED BY <1>4, <1>6, <1>7, <1>8, ZenonT(30) DEF Live

\* peerClosedLocked comes after the peer's CLOSE, so after its DONE.
LEMMA PeerClosesRedial ==
    ASSUME IInv, RedialInv, NEW s \in Side, PeerCloses(s)
    PROVE  RedialInv'
  <1> DEFINE S == Up(s) \cap peerClosed[s]
  <1>0. /\ "dialer" \in Side /\ "passive" \in Side /\ Side = {"dialer", "passive"} /\ First \in Carrier
        /\ lane \in [Side -> [Carrier -> LaneState]] /\ Laid
    BY ConstAssumption DEF Side, IInv, TypeOK, RedialInv
  <1>1. /\ Live(s) /\ S # {} /\ S \subseteq peerClosed[s] /\ \A k \in S : lane[s][k] = "up"
        /\ lane' = [lane EXCEPT ![s] = [k \in Carrier |-> IF k \in S THEN "retired" ELSE @[k]]]
        /\ UNCHANGED <<ended, link, net, peerClosed, doneSent, peerDone>>
    BY ZenonT(30) DEF PeerCloses, Waits, Up, endVars, ackVars
  <1> HIDE DEF S
  <1>2. \A t \in Side, k \in Carrier :
            \/ lane'[t][k] = lane[t][k]
            \/ t = s /\ k \in S /\ lane[t][k] = "up" /\ lane'[t][k] = "retired"
    BY <1>0, <1>1
  <1>3. Laid'
    BY <1>0, <1>1, <1>2 DEF Laid
  <1>4. SUFFICES ASSUME Whole', Live("dialer")'
                 PROVE  /\ Lone' /\ (Live("passive")' => Joint')
                        /\ doneSent'["passive"] => peerDone'["dialer"] \/ Coming'
    BY <1>3 DEF RedialInv
  <1>5. /\ Whole /\ Live("dialer") /\ Lone /\ (Live("passive") => Joint)
        /\ doneSent["passive"] => peerDone["dialer"] \/ Coming
    BY <1>1, <1>4 DEF RedialInv, Whole, Live
  <1>6. ~Live("passive")'
    BY <1>0, <1>1, <1>5, ZenonT(30) DEF Joint, Live
  <1>7. Lone'
    BY <1>0, <1>1, <1>2, <1>5 DEF Lone
  <1>8. Coming => Coming'
    BY <1>0, <1>1, <1>2, ZenonT(30) DEF Coming
  <1> QED BY <1>1, <1>5, <1>6, <1>7, <1>8, ZenonT(30)

\* The actor's steps and the deadlines
LEMMA ActRedial ==
    ASSUME IInv, RedialInv, NEW s \in Side, Act(s) \/ Deadline(s) \/ Shutdown(s)
    PROVE  RedialInv'
  <1>0. \A e \in {"Remote", "NoPath", "Lost"} : DoneOr(s, e) # "no"
    BY DEF DoneOr
  <1>1. CASE End(s)
    BY <1>0, <1>1, TerminateRedial, ZenonT(30) DEF End
  <1>2. ASSUME NEW c \in Carrier, Reap(s, c) PROVE RedialInv'
    <2>1. PeerEnded(s) => EndDue(s).err # "no"
      BY ZenonT(30) DEF PeerEnded, EndDue, DoneOr
    <2>2. CASE \/ Terminate(s, DoneOr(s, "Remote"), "no")
               \/ PeerEnded(s) /\ Terminate(s, EndDue(s).err, EndDue(s).rst)
      BY <1>0, <2>1, <2>2, TerminateRedial, ZenonT(30)
    <2>3. CASE ~PeerEnded(s) /\ c \notin peerGoAway[s]
      <3>1. /\ Live(s) /\ lane[s][c] \in {"up", "retired", "closed"} /\ Ended(c) /\ ~AwaitReader(s, c)
            /\ lane' = [lane EXCEPT ![s][c] = "dead"]
            /\ UNCHANGED <<ended, link, net, peerClosed, doneSent, peerDone>>
        BY <1>2, <2>3 DEF Reap, endVars
      <3> QED BY <3>1, DeadRedial
    <2> QED BY <1>2, <2>2, <2>3, ZenonT(30) DEF Reap
  <1>3. CASE Linger(s) \/ Idle(s) \/ NoPath(s) \/ Shutdown(s)
    BY <1>0, <1>3, TerminateRedial, ZenonT(30) DEF Linger, Idle, NoPath, Shutdown
  <1> QED BY <1>1, <1>2, <1>3, PeerClosesRedial, ZenonT(30) DEF Act, Deadline

\* The writers and the readers
LEMMA CarrierRedial ==
    ASSUME IInv, RedialInv, NEW s \in Side, NEW c \in Carrier, Fill(s, c) \/ Recv(s, c)
    PROVE  RedialInv'
  <1> USE DEF ackVars, endVars, laneVars
  <1>1. CASE FillData(s, c)
    <2> DEFINE f == [t |-> "DATA", off |-> sNext[s]]
    <2>1. /\ Send(s, c, <<f>>) /\ f.t \notin {"CLOSE", "JOIN", "JOIN_ACK"}
          /\ UNCHANGED <<ended, lane, link, peerClosed, peerDone, doneSent>>
      BY <1>1 DEF FillData
    <2> HIDE DEF f
    <2> QED BY <2>1, SendRedial
  <1>2. CASE FillFin(s, c)
    <2> DEFINE f == [t |-> "FIN", off |-> fin[s]]
    <2>1. /\ Send(s, c, <<f>>) /\ f.t \notin {"CLOSE", "JOIN", "JOIN_ACK"}
          /\ UNCHANGED <<ended, lane, link, peerClosed, peerDone, doneSent>>
      BY <1>2 DEF FillFin
    <2> HIDE DEF f
    <2> QED BY <2>1, SendRedial
  <1>3. CASE FillAck(s, c)
    <2> DEFINE f == [t |-> "ACK", del |-> rRead[s], fin |-> FinDelivered(s), done |-> DoneQueued(s)]
    <2>1. /\ Send(s, c, <<f>>) /\ f.t = "ACK" /\ Live(s) /\ lane[s][c] \in {"up", "retired"}
          /\ UNCHANGED <<ended, lane, link, peerClosed, peerDone>>
          /\ doneSent' = [doneSent EXCEPT ![s] = @ \/ f.done]
      BY <1>3 DEF FillAck
    <2> HIDE DEF f
    <2>2. doneSent \in [Side -> BOOLEAN]
      BY DEF IInv, TypeOK
    <2>3. \A t \in Side : doneSent'[t] => doneSent[t] \/ (t = s /\ IsDone(f))
      BY <2>1, <2>2, ZenonT(30) DEF IsDone
    <2>4. "dialer" \in Side /\ "passive" \in Side /\ "ACK" \notin {"CLOSE", "JOIN", "JOIN_ACK"}
      BY DEF Side
    <2> QED BY <2>1, <2>3, <2>4, SendRedial, ZenonT(30)
  <1>4. CASE RecvAck(s, c)
    <2> DEFINE f == Head(net[s][c])
    <2>1. /\ Take(s, c) /\ net[s][c] # <<>> /\ f.t # "CLOSE"
          /\ UNCHANGED <<ended, lane, link, peerClosed, doneSent>>
          /\ peerDone' = [peerDone EXCEPT ![s] = @ \/ f.done]
      BY <1>4 DEF RecvAck, Reads
    <2>2. peerDone \in [Side -> BOOLEAN] /\ "dialer" \in Side
      BY DEF IInv, TypeOK, Side
    <2>3. /\ peerDone["dialer"] => peerDone'["dialer"]
          /\ s = "dialer" /\ IsDone(f) => peerDone'["dialer"]
      BY <2>1, <2>2, ZenonT(30) DEF IsDone
    <2> QED BY <2>1, <2>3, TakeRedial
  <1>5. CASE RecvData(s, c) \/ RecvFin(s, c) \/ RecvRst(s, c) \/ RecvGoAway(s, c)
    <2>1. /\ Take(s, c) /\ net[s][c] # <<>> /\ Head(net[s][c]).t \in {"DATA", "FIN", "RST", "GOAWAY"}
          /\ UNCHANGED <<ended, lane, link, peerClosed, doneSent, peerDone>>
      BY <1>5 DEF RecvData, RecvFin, RecvRst, RecvGoAway, Reads
    <2>2. ~IsDone(Head(net[s][c])) /\ Head(net[s][c]).t # "CLOSE"
      BY <2>1 DEF IsDone
    <2> QED BY <2>1, <2>2, TakeRedial
  <1> QED BY <1>1, <1>2, <1>3, <1>4, <1>5, FillCloseRedial, RecvCloseRedial, ZenonT(30) DEF Fill, Recv

\* A failover starts only after the passive ended, and no answer takes it in.
LEMMA DialRedial ==
    ASSUME IInv, RedialInv, NEW c \in Carrier, Dial(c) \/ Break(c) \/ FinishRetire(c)
    PROVE  RedialInv'
  <1> USE DEF ackVars, endVars, laneVars
  <1>0. /\ "dialer" \in Side /\ "passive" \in Side /\ Side = {"dialer", "passive"} /\ First \in Carrier
        /\ lane \in [Side -> [Carrier -> LaneState]] /\ Laid
        /\ link \in [Carrier -> {"none", "up", "broken", "closed"}]
        /\ DOMAIN net = Side /\ \A s \in Side : DOMAIN net[s] = Carrier
    BY ConstAssumption DEF Side, IInv, TypeOK, NetShape, RedialInv, Laid
  <1>00. /\ \A k \in Carrier : (lane["dialer"][k] = "none" => link[k] = "none") /\ lane["passive"][k] # "joining"
         /\ lane["passive"][First] # "none" /\ peerClosed \in [Side -> SUBSET Carrier]
    BY <1>0 DEF Laid
  <1>000. \A s \in Side, k \in Carrier : net[s][k] # <<>> =>
              /\ Clear(net[s][k]) => Head(net[s][k]).t # "JOIN"
              /\ Unanswered(net[s][k]) => Head(net[s][k]).t # "JOIN_ACK"
    <2> SUFFICES ASSUME NEW s \in Side, NEW k \in Carrier, net[s][k] # <<>>
                 PROVE  /\ Clear(net[s][k]) => Head(net[s][k]).t # "JOIN"
                        /\ Unanswered(net[s][k]) => Head(net[s][k]).t # "JOIN_ACK"
      BY ZenonT(30)
    <2>1. net[s][k] \in Seq(Frame(s))
      BY DEF IInv, FramesInv
    <2> QED BY <2>1, ClearTail, ZenonT(30)
  <1>1. CASE Join(c)
    <2>1. /\ lane["dialer"][c] = "none" /\ lane["dialer"][First] # "up"
          /\ lane' = [lane EXCEPT !["dialer"][c] = "joining"] /\ link' = [link EXCEPT ![c] = "up"]
          /\ net' = [net EXCEPT !["passive"][c] = <<[t |-> "JOIN", rx |-> rRead["dialer"]]>>]
          /\ UNCHANGED <<ended, peerClosed, doneSent, peerDone>>
      BY <1>0, <1>1 DEF Join
    <2>2. /\ lane'["passive"] = lane["passive"] /\ lane'["dialer"][c] = "joining"
          /\ \A k \in Carrier : k # c => lane'["dialer"][k] = lane["dialer"][k] /\ link'[k] = link[k]
          /\ link' \in [Carrier -> {"none", "up", "broken", "closed"}] /\ net'["dialer"] = net["dialer"]
      BY <1>0, <2>1
    <2>3. Laid'
      BY <1>0, <1>00, <2>1, <2>2 DEF Laid
    <2>4. SUFFICES ASSUME Whole', Live("dialer")'
                 PROVE  /\ Lone' /\ (Live("passive")' => Joint')
                        /\ doneSent'["passive"] => peerDone'["dialer"] \/ Coming'
      BY <2>3 DEF RedialInv
    <2>5. /\ Whole /\ Live("dialer") /\ Lone /\ (Live("passive") => Joint)
          /\ doneSent["passive"] => peerDone["dialer"] \/ Coming
      <3>1. Whole
        BY <1>00, <2>1, <2>2, <2>4 DEF Whole
      <3>2. Live("dialer")
        BY <2>1, <2>4 DEF Live
      <3> QED BY <3>1, <3>2 DEF RedialInv
    <2>6. c # First /\ ~Live("passive")
      BY <1>0, <2>1, <2>5, ZenonT(30) DEF Lone, Joint
    <2>7. Lone'
      <3>1. \A k \in Carrier : k # First =>
                lane'["dialer"][k] \in {"none", "joining"} /\ lane'["passive"][k] = "none"
        BY <2>2, <2>5 DEF Lone
      <3> QED BY <1>0, <2>2, <2>5, <2>6, <3>1, ZenonT(30) DEF Lone
    <2>8. Coming => Coming'
      BY <1>0, <2>1, <2>2, <2>6, ZenonT(30) DEF Coming
    <2> QED BY <2>1, <2>5, <2>6, <2>7, <2>8, ZenonT(30) DEF Live
  <1>2. CASE Adopt(c)
    <2>1. /\ Live("passive") /\ net["passive"][c] # <<>> /\ Head(net["passive"][c]).t = "JOIN"
          /\ lane' = [lane EXCEPT !["passive"][c] = "up"]
          /\ UNCHANGED <<link, ended, peerClosed>>
      BY <1>2 DEF Adopt, Reads, Gains
    <2>2. lane'["dialer"] = lane["dialer"] /\ \A k \in Carrier : lane'["passive"][k] \in {"up", lane["passive"][k]}
      BY <1>0, <2>1
    <2>3. Laid'
      BY <1>0, <1>00, <2>1, <2>2 DEF Laid
    <2>4. ~(Whole' /\ Live("dialer")')
      BY <1>0, <1>000, <2>1, ZenonT(30) DEF RedialInv, Whole, Live, Joint
    <2> QED BY <2>3, <2>4, ZenonT(30) DEF RedialInv
  <1>3. CASE Refuse(c)
    <2> DEFINE f == [t |-> "UNKNOWN", code |-> EndCode]
               v == IF link[c] = "up" THEN <<f>> ELSE net["dialer"][c]
    <2>1. /\ ~Live("passive") /\ lane["passive"][c] = "none"
          /\ net' = [net EXCEPT !["passive"][c] = <<>>, !["dialer"][c] = v]
          /\ link' = IF link[c] = "up" THEN [link EXCEPT ![c] = "closed"] ELSE link
          /\ UNCHANGED <<ended, lane, peerClosed, doneSent, peerDone>>
      BY <1>0, <1>3 DEF Refuse
    <2>2. Unanswered(net["dialer"][c]) => Unanswered(v)
      <3>1. Unanswered(<<f>>)
        BY DEF Unanswered
      <3> HIDE DEF f
      <3> QED BY <3>1
    <2> HIDE DEF f, v
    <2>3. c # First
      BY <1>00, <2>1
    <2>4. /\ net'["dialer"][c] = v /\ \A k \in Carrier : k # c => net'["dialer"][k] = net["dialer"][k]
      BY <1>0, <2>1
    <2>5. /\ \A k \in Carrier : link'[k] = link[k] \/ (link[k] = "up" /\ link'[k] = "closed")
          /\ link' \in [Carrier -> {"none", "up", "broken", "closed"}]
      BY <1>0, <2>1
    <2>6. Laid'
      BY <1>0, <1>00, <2>1, <2>5 DEF Laid
    <2>7. SUFFICES ASSUME Whole', Live("dialer")'
                 PROVE  /\ Lone' /\ (Live("passive")' => Joint')
                        /\ doneSent'["passive"] => peerDone'["dialer"] \/ Coming'
      BY <2>6 DEF RedialInv
    <2>8. /\ Whole /\ Live("dialer") /\ Lone /\ (Live("passive") => Joint)
          /\ doneSent["passive"] => peerDone["dialer"] \/ Coming
      <3>1. Whole
        BY <2>5, <2>7 DEF Whole
      <3>2. Live("dialer")
        BY <2>1, <2>7 DEF Live
      <3> QED BY <3>1, <3>2 DEF RedialInv
    <2>9. Lone'
      BY <2>1, <2>2, <2>4, <2>8, ZenonT(30) DEF Lone
    <2>10. Coming => Coming'
      BY <1>0, <2>1, <2>3, <2>4, ZenonT(30) DEF Coming
    <2> QED BY <2>1, <2>8, <2>9, <2>10, ZenonT(30) DEF Live
  <1>4. CASE Attach(c)
    <2>1. /\ Live("dialer") /\ net["dialer"][c] # <<>> /\ Head(net["dialer"][c]).t = "JOIN_ACK"
          /\ lane' = [lane EXCEPT !["dialer"][c] = "up"]
          /\ UNCHANGED <<link, ended, peerClosed>>
      BY <1>4 DEF Attach, Reads, Gains
    <2>2. lane'["passive"] = lane["passive"] /\ \A k \in Carrier : lane'["dialer"][k] \in {"up", lane["dialer"][k]}
      BY <1>0, <2>1
    <2>3. Laid'
      BY <1>0, <1>00, <2>1, <2>2 DEF Laid
    <2>4. ~Whole'
      BY <1>0, <1>000, <2>1, ZenonT(30) DEF RedialInv, Whole, Lone
    <2> QED BY <2>3, <2>4, ZenonT(30) DEF RedialInv
  <1>5. CASE JoinRefused(c)
    <2> DEFINE err == DoneOr("dialer", IF Head(net["dialer"][c]).code THEN "Remote" ELSE "Lost")
    <2>1. err # "no"
      BY DEF DoneOr
    <2>2. Terminate("dialer", err, "no")
      BY <1>5 DEF JoinRefused
    <2> HIDE DEF err
    <2> QED BY <1>0, <2>1, <2>2, TerminateRedial
  <1>6. CASE AttemptFailed(c)
    <2>1. /\ link[c] = "broken" /\ lane' = [lane EXCEPT !["dialer"][c] = "dead"]
          /\ UNCHANGED <<link, peerClosed>>
      BY <1>6 DEF AttemptFailed
    <2>2. lane'["passive"] = lane["passive"] /\ \A k \in Carrier : lane'["dialer"][k] \in {"dead", lane["dialer"][k]}
      BY <1>0, <2>1
    <2>3. Laid'
      BY <1>0, <1>00, <2>1, <2>2 DEF Laid
    <2>4. ~Whole'
      BY <2>1 DEF Whole
    <2> QED BY <2>3, <2>4, ZenonT(30) DEF RedialInv
  <1>7. CASE Break(c)
    <2>1. link[c] = "up" /\ link' = [link EXCEPT ![c] = "broken"] /\ UNCHANGED <<lane, peerClosed>>
      BY <1>7 DEF Break
    <2>2. Laid' /\ ~Whole'
      BY <1>0, <1>00, <2>1 DEF Laid, Whole
    <2> QED BY <2>2, ZenonT(30) DEF RedialInv
  <1>8. CASE FinishRetire(c)
    <2>1. /\ link[c] = "up" /\ link' = [link EXCEPT ![c] = "closed"] /\ \E s \in Side : lane[s][c] = "closed"
          /\ UNCHANGED <<lane, peerClosed, net, ended, doneSent, peerDone>>
      BY <1>8 DEF FinishRetire
    <2>2. Laid' /\ (Whole' => Whole)
      BY <1>0, <1>00, <2>1 DEF Laid, Whole
    <2>3. SUFFICES ASSUME Whole', Live("dialer")'
                 PROVE  /\ Lone' /\ (Live("passive")' => Joint')
                        /\ doneSent'["passive"] => peerDone'["dialer"] \/ Coming'
      BY <2>2 DEF RedialInv
    <2>4. /\ Whole /\ Live("dialer") /\ Lone /\ (Live("passive") => Joint)
          /\ doneSent["passive"] => peerDone["dialer"] \/ Coming
      BY <2>1, <2>2, <2>3 DEF RedialInv, Live
    <2>5. ~Live("passive")
      <3>1. Live("passive") => \A s \in Side : lane[s][c] # "closed"
        BY <1>0, <2>4 DEF Joint, Lone
      <3> QED BY <2>1, <3>1, ZenonT(30)
    <2>6. Lone' /\ (Coming => Coming')
      BY <2>1, <2>4 DEF Lone, Coming
    <2> QED BY <2>1, <2>4, <2>5, <2>6, ZenonT(30) DEF Live
  <1> QED BY <1>1, <1>2, <1>3, <1>4, <1>5, <1>6, <1>7, <1>8 DEF Dial

-----------------------------------------------------------------------------
(* The theorem about failovers.                                            *)

LEMMA InitRedial == Init => RedialInv
  <1> SUFFICES ASSUME Init PROVE RedialInv
    OBVIOUS
  <1>0. "dialer" \in Side /\ "passive" \in Side /\ First \in Carrier
    BY ConstAssumption DEF Side
  <1>1. /\ \A s \in Side : /\ peerClosed[s] = {} /\ lane[s][First] = "up" /\ ~doneSent[s]
                           /\ \A c \in Carrier : net[s][c] = <<>> /\ (c # First => lane[s][c] = "none")
        /\ link = [c \in Carrier |-> IF c = First THEN "up" ELSE "none"]
        /\ peerClosed \in [Side -> SUBSET Carrier]
    BY <1>0 DEF Init
  <1>2. Laid
    BY <1>0, <1>1 DEF Laid
  <1>3. Lone
    BY <1>0, <1>1, NothingHeld, ZenonT(30) DEF Lone
  <1>4. Joint
    <2>1. link[First] = "up"
      BY <1>0, <1>1
    <2> QED BY <1>1, <2>1, NothingHeld, ZenonT(30) DEF Joint
  <1> QED BY <1>0, <1>1, <1>2, <1>3, <1>4, ZenonT(30) DEF RedialInv

LEMMA StepRedial ==
    ASSUME IInv, RedialInv, [Next]_vars
    PROVE  RedialInv'
  <1>1. ASSUME NEW s \in Side, App(s) PROVE RedialInv'
    <2>1. UNCHANGED <<ended, lane, link, net, peerClosed, doneSent, peerDone>>
      BY <1>1 DEF App, Write, Exhaust, CloseWrite, Read, Close, Abort, ackVars, endVars, laneVars
    <2> QED BY <2>1, QuietRedial
  <1>2. CASE UNCHANGED vars
    <2>1. UNCHANGED <<ended, lane, link, net, peerClosed, doneSent, peerDone>>
      BY <1>2 DEF vars, ackVars, endVars, laneVars
    <2> QED BY <2>1, QuietRedial
  <1> QED BY <1>1, <1>2, ActRedial, CarrierRedial, DialRedial, ZenonT(30) DEF Next

\* Only a failover takes a carrier that the dialer has not used.
LEMMA OnlyJoin ==
    ASSUME IInv, [Next]_vars, NEW c \in Carrier, lane["dialer"][c] = "none", lane'["dialer"][c] # "none"
    PROVE  Join(c)
  <1>0. /\ "dialer" \in Side /\ "passive" \in Side /\ lane \in [Side -> [Carrier -> LaneState]]
    BY DEF Side, IInv, TypeOK
  <1> USE DEF laneVars
  <1>1. ASSUME NEW s \in Side, NEW err, NEW r, Terminate(s, err, r) PROVE FALSE
    BY <1>0, <1>1 DEF Terminate
  <1>2. ASSUME NEW s \in Side, NEW k \in Carrier, NEW v, lane' = [lane EXCEPT ![s][k] = v]
        PROVE  s = "dialer" /\ k = c
    BY <1>0, <1>2
  <1>3. ASSUME NEW s \in Side, App(s) PROVE FALSE
    <2>1. UNCHANGED lane
      BY <1>3 DEF App, Write, Exhaust, CloseWrite, Read, Close, Abort
    <2> QED BY <2>1
  <1>4. ASSUME NEW s \in Side, Act(s) \/ Deadline(s) \/ Shutdown(s) PROVE FALSE
    <2>1. CASE End(s) \/ Deadline(s) \/ Shutdown(s)
      BY <1>1, <2>1, ZenonT(30) DEF End, Deadline, Linger, Idle, NoPath, Shutdown
    <2>2. CASE PeerCloses(s)
      <3> DEFINE S == Up(s) \cap peerClosed[s]
      <3>1. /\ lane' = [lane EXCEPT ![s] = [k \in Carrier |-> IF k \in S THEN "retired" ELSE @[k]]]
            /\ s = "dialer" => c \notin S
        BY <2>2 DEF PeerCloses, Up
      <3> HIDE DEF S
      <3> QED BY <1>0, <3>1
    <2>3. ASSUME NEW k \in Carrier, Reap(s, k) PROVE FALSE
      <3>1. lane[s][k] \in {"up", "retired", "closed"}
        BY <2>3 DEF Reap
      <3>2. lane' = [lane EXCEPT ![s][k] = "dead"]
        BY <1>1, <2>3, ZenonT(30) DEF Reap
      <3> QED BY <1>2, <3>1, <3>2
    <2> QED BY <1>4, <2>1, <2>2, <2>3 DEF Act
  <1>5. ASSUME NEW s \in Side, NEW k \in Carrier, Fill(s, k) \/ Recv(s, k) PROVE FALSE
    <2>1. \/ UNCHANGED lane
          \/ lane[s][k] = "retired" /\ lane' = [lane EXCEPT ![s][k] = "closed"]
      BY <1>5 DEF Fill, Recv, FillData, FillFin, FillAck, FillClose, RecvData, RecvFin, RecvAck, RecvRst,
                  RecvGoAway, RecvClose
    <2> QED BY <1>2, <2>1
  <1>6. ASSUME NEW k \in Carrier, Dial(k) \/ Break(k) \/ FinishRetire(k), ~Join(k) PROVE FALSE
    <2>1. CASE Adopt(k)
      <3>1. lane' = [lane EXCEPT !["passive"][k] = "up"]
        BY <2>1 DEF Adopt, Gains
      <3> QED BY <1>0, <1>2, <3>1
    <2>2. CASE JoinRefused(k)
      BY <1>0, <1>1, <2>2, ZenonT(30) DEF JoinRefused
    <2>3. CASE Attach(k) \/ AttemptFailed(k)
      <3>1. PICK v : lane' = [lane EXCEPT !["dialer"][k] = v]
        BY <2>3 DEF Attach, AttemptFailed, Gains
      <3>2. lane["dialer"][k] = "joining"
        BY <2>3 DEF Attach, AttemptFailed
      <3> QED BY <1>0, <1>2, <3>1, <3>2
    <2>4. CASE Refuse(k) \/ Break(k) \/ FinishRetire(k)
      <3>1. UNCHANGED lane
        BY <2>4 DEF Refuse, Break, FinishRetire
      <3> QED BY <3>1
    <2> QED BY <1>6, <2>1, <2>2, <2>3, <2>4 DEF Dial
  <1>7. ASSUME NEW k \in Carrier, Join(k) PROVE Join(c)
    <2>1. k = c
      BY <1>0, <1>2, <1>7 DEF Join
    <2> QED BY <1>7, <2>1
  <1>8. CASE UNCHANGED vars
    BY <1>8 DEF vars
  <1> QED BY <1>3, <1>4, <1>5, <1>6, <1>7, <1>8, ZenonT(30) DEF Next

\* After both DONEs a failover comes only if a carrier broke: the passive's DONE was
\* read, and the session ends instead, or it comes on a carrier the dialer still has.
LEMMA RedialStep ==
    ASSUME IInv, RedialInv, [Next]_vars
    PROVE  \/ \E s \in Side : ~doneSent[s]
           \/ \A c \in Carrier : lane["dialer"][c] = "none" => lane'["dialer"][c] = "none"
           \/ \E c \in Carrier : link[c] = "broken"
  <1>0. "dialer" \in Side /\ "passive" \in Side /\ First \in Carrier
    BY ConstAssumption DEF Side
  <1> SUFFICES ASSUME doneSent["dialer"], doneSent["passive"], Whole, NEW c \in Carrier,
                      lane["dialer"][c] = "none", lane'["dialer"][c] # "none"
               PROVE  FALSE
    BY <1>0, ZenonT(30) DEF Whole
  <1>1. Join(c)
    BY OnlyJoin
  <1>2. Live("dialer") /\ EndDue("dialer").err = "no" /\ lane["dialer"][First] # "up"
    BY <1>0, <1>1, ZenonT(30) DEF Join, Waits
  <1>3. ~peerDone["dialer"]
    BY <1>2, ZenonT(30) DEF EndDue, DoneOr
  <1>4. Coming
    BY <1>2, <1>3, ZenonT(30) DEF RedialInv
  <1> QED BY <1>2, <1>4 DEF Coming

\* awaitReaderLocked and endIfPeerEndedLocked: after DONE went out both ways the
\* dialer starts no failover, unless a carrier broke by itself, however the readers,
\* the writers and the two actors interleave and however many carriers there are.
THEOREM NoRedialHolds == Spec => NoRedial
  <1>1. Spec => []RedialInv
    <2>1. IInv /\ RedialInv /\ [Next]_vars => RedialInv'
      BY StepRedial
    <2> QED BY <2>1, InitRedial, Invariance, PTL DEF Spec
  <1>2. IInv /\ RedialInv /\ [Next]_vars =>
            [\/ \E s \in Side : ~doneSent[s]
             \/ \A c \in Carrier : lane["dialer"][c] = "none" => lane'["dialer"][c] = "none"
             \/ \E c \in Carrier : link[c] = "broken"]_vars
    BY RedialStep
  <1> QED BY <1>1, <1>2, Invariance, PTL DEF Spec, NoRedial
=============================================================================
