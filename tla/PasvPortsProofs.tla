------------------------- MODULE PasvPortsProofs -------------------------
(***************************************************************************)
(* Proofs about PasvPorts, for any set of sessions, any range of ports,    *)
(* any ports of other programs and any faults.                             *)
(***************************************************************************)
EXTENDS PasvPorts, FiniteSetTheorems, TLAPS

-----------------------------------------------------------------------------
(***************************************************************************)
(* The inductive invariant                                                 *)
(***************************************************************************)

Fresh(s) ==
  /\ pasv_sock[s].open /\ ~pasv_sock[s].listening
  /\ told[s] = NoPort

Listening(s) ==
  /\ pasv_sock[s].open /\ pasv_sock[s].listening
  /\ pasv_sock[s].port \in Ports

\* What each place in a session's code implies for its socket and for what
\* its client knows.
Shape(s) ==
  /\ pc[s] = "gone" => pasv_sock[s] = NoSocket /\ told[s] = NoPort
  /\ pc[s] = "bind" => Fresh(s)
  /\ pc[s] = "listen" => Fresh(s) /\ pasv_sock[s].port \in Ports
  /\ pc[s] = "getsockname" => Listening(s) /\ told[s] = NoPort
  /\ pc[s] = "idle" =>
       \/ pasv_sock[s] = NoSocket /\ told[s] = NoPort
       \/ Listening(s) /\ told[s] = BigEndian(pasv_sock[s].port)

\* The kernel lets one socket listen on a port, be it that of another program.
OneListener ==
  /\ \A s, t \in Sessions :
       s # t /\ pasv_sock[s].listening /\ pasv_sock[t].listening =>
         pasv_sock[s].port # pasv_sock[t].port
  /\ \A s \in Sessions : pasv_sock[s].listening => pasv_sock[s].port \notin foreign

Inv ==
  /\ TypeOK
  /\ \A s \in Sessions : Shape(s)
  /\ OneListener

-----------------------------------------------------------------------------
(***************************************************************************)
(* The bytes of a port                                                     *)
(***************************************************************************)

\* A client gets back from the two bytes of a 227 the port that was put into
\* them, because ports have 16 bits.
LEMMA PortOfBytes ==
  ASSUME NEW p \in Ports
  PROVE  PortOf(BigEndian(p)) = p
<1>1. p \in Int /\ 0 <= p /\ p <= 65535
  <2>1. pasv_port_start \in Int /\ 1 <= pasv_port_start
    BY PortAssumption
  <2>2. pasv_port_end \in Int /\ pasv_port_end <= 65535
    BY PortAssumption
  <2> QED
    BY <2>1, <2>2 DEF Ports
<1>2. (p \div 256) % 256 = p \div 256
  BY <1>1
<1>3. 256 * (p \div 256) + (p % 256) = p
  BY <1>1
<1> QED
  BY <1>2, <1>3 DEF PortOf, BigEndian

\* The two bytes of a port are not mistaken for no reply.
LEMMA BytesAreSomePort ==
  ASSUME NEW p \in Ports
  PROVE  BigEndian(p) # NoPort
  BY DEF BigEndian, NoPort

-----------------------------------------------------------------------------
(***************************************************************************)
(* The invariant is inductive                                              *)
(***************************************************************************)

LEMMA InitInv == Init => Inv
  BY PortAssumption
  DEF Init, Inv, TypeOK, Shape, OneListener, NoSocket, Sockets, Ports, NoPort

\* Refuse leaves a session without a socket, as one that never had one.
LEMMA RefuseInv ==
  ASSUME Inv, NEW s \in Sessions, Refuse(s), told[s] = NoPort
  PROVE  Inv'
  BY DEF Refuse, Inv, TypeOK, Shape, Fresh, Listening, OneListener, NoSocket,
         Sockets, Ports, NoPort, otherVars

LEMMA StepInv == Inv /\ [Next]_vars => Inv'
<1> SUFFICES ASSUME Inv, [Next]_vars PROVE Inv'
  OBVIOUS
<1>1. CASE UNCHANGED vars
  BY <1>1 DEF vars, Inv, TypeOK, Shape, Fresh, Listening, OneListener
<1>3. ASSUME NEW p \in OtherPorts, OthersListen(p) \/ OthersClose(p)
      PROVE  Inv'
  <2>1. UNCHANGED <<pc, listen_port, pasv_sock, told>>
    BY <1>3 DEF OthersListen, OthersClose
  <2>2. TypeOK'
    BY <1>3, <2>1 DEF OthersListen, OthersClose, Inv, TypeOK
  <2>3. \A t \in Sessions : Shape(t)'
    BY <2>1 DEF Inv, Shape, Fresh, Listening
  <2>4. OneListener'
    BY <1>3, <2>1 DEF OthersListen, OthersClose, Inv, OneListener
  <2> QED
    BY <2>2, <2>3, <2>4 DEF Inv
<1>2. ASSUME NEW s \in Sessions, SessionStep(s)
      PROVE  Inv'
  <2> USE DEF Inv, TypeOK, Shape, Fresh, Listening, OneListener, otherVars
  <2>1. CASE Start(s)
    BY <2>1 DEF Start
  <2>2. CASE Exit(s)
    BY <2>2 DEF Exit, NoSocket, Sockets, NoPort
  <2>3. CASE dopasv(s)
    <3>1. PICK reuse \in BOOLEAN :
            pasv_sock' = [pasv_sock EXCEPT ![s] =
                            [port |-> 0, reuse |-> reuse, listening |-> FALSE,
                             open |-> TRUE]]
      BY <2>3 DEF dopasv
    <3>2. /\ told' = [told EXCEPT ![s] = NoPort]
          /\ listen_port' = [listen_port EXCEPT ![s] = pasv_port_start]
          /\ pc' = [pc EXCEPT ![s] = "bind"]
          /\ UNCHANGED otherVars
      BY <2>3 DEF dopasv
    <3>3. TypeOK'
      BY <3>1, <3>2, PortAssumption DEF Sockets
    <3>4. (\A t \in Sessions : Shape(t))' /\ OneListener'
      BY <3>1, <3>2 DEF NoSocket
    <3> QED
      BY <3>3, <3>4
  <2>4. CASE Bind(s)
    BY <2>4, PortAssumption DEF Bind, Sockets, Ports
  <2>5. CASE PortInUse(s)
    BY <2>5, PortAssumption DEF PortInUse, NextPort
  <2>6. CASE NoFreePorts(s)
    BY <2>6, RefuseInv DEF NoFreePorts
  <2>7. CASE Listen(s)
    <3>1. /\ pc[s] = "listen"
          /\ pasv_sock' = [pasv_sock EXCEPT ![s].listening = TRUE]
          /\ pc' = [pc EXCEPT ![s] = "getsockname"]
          /\ UNCHANGED <<listen_port, told, otherVars>>
      BY <2>7 DEF Listen
    <3>2. TypeOK'
      BY <3>1, ZenonT(30) DEF Sockets
    <3>3. /\ pasv_sock'[s].port = pasv_sock[s].port
          /\ pasv_sock'[s].open = pasv_sock[s].open
          /\ pasv_sock'[s].listening
          /\ \A t \in Sessions \ {s} : pasv_sock'[t] = pasv_sock[t]
      BY <3>1 DEF Sockets
    <3>4. (\A t \in Sessions : Shape(t))'
      BY <3>1, <3>3
    <3>5. /\ \A t \in Sessions \ {s} :
               pasv_sock[t].listening => pasv_sock[t].port # pasv_sock[s].port
          /\ pasv_sock[s].port \notin foreign
      BY <2>7 DEF Listen, InUse
    <3>6. OneListener'
      BY <3>1, <3>3, <3>5
    <3> QED
      BY <3>2, <3>4, <3>6
  <2>8. CASE ListenFails(s)
    BY <2>8, RefuseInv DEF ListenFails
  <2>9. CASE Getsockname(s)
    BY <2>9 DEF Getsockname
  <2>10. CASE SocketFails(s)
    BY <2>10 DEF SocketFails, NoSocket, Sockets, NoPort
  <2>11. CASE BindFails(s)
    BY <2>11, RefuseInv DEF BindFails
  <2>12. CASE GetsocknameFails(s)
    BY <2>12, RefuseInv DEF GetsocknameFails
  <2> QED
    BY <1>2, <2>1, <2>2, <2>3, <2>4, <2>5, <2>6, <2>7, <2>8, <2>9, <2>10,
       <2>11, <2>12 DEF SessionStep, PasvStep, PasvFault
<1> QED
  BY <1>1, <1>2, <1>3 DEF Next

\* At every step of every session, its socket is in the state that its place
\* in dopasv and pasv_listen implies, and no two sockets listen on one port,
\* those of other programs included.
THEOREM PasvPortsInvariant == Spec => []Inv
  BY InitInv, StepInv, PTL DEF Spec

-----------------------------------------------------------------------------
(***************************************************************************)
(* What follows                                                            *)
(***************************************************************************)

\* Type correctness; in particular listen_port stays in an int that
\* pasv_listen may compare, one behind the range at most.
THEOREM PasvPortsTypes == Spec => []TypeOK
  BY PasvPortsInvariant, PTL DEF Inv

\* A client that was sent a 227 by dopasv reaches the session that sent it, and
\* no other and no other program.
THEOREM PasvPortsToldListening == Spec => []ToldListening
<1>1. Inv => ToldListening
  <2> SUFFICES ASSUME Inv, NEW s \in Sessions, told[s] # NoPort
               PROVE  /\ pasv_sock[s].listening
                      /\ pasv_sock[s].port = PortOf(told[s])
                      /\ PortOf(told[s]) \notin foreign
                      /\ \A t \in Sessions \ {s} : told[t] # told[s]
    BY DEF ToldListening
  <2> DEFINE Told(t) == /\ Listening(t)
                        /\ told[t] = BigEndian(pasv_sock[t].port)
  <2>1. \A t \in Sessions : told[t] # NoPort => Told(t)
    BY DEF Inv, TypeOK, Shape, Fresh
  <2>2. \A t \in Sessions : Told(t) => pasv_sock[t].port = PortOf(told[t])
    BY PortOfBytes DEF Listening
  <2>3. Told(s) /\ pasv_sock[s].port = PortOf(told[s])
    BY <2>1, <2>2
  <2>4. ASSUME NEW t \in Sessions \ {s}, told[t] = told[s] PROVE FALSE
    <3>1. Told(t) /\ pasv_sock[t].port = pasv_sock[s].port
      BY <2>1, <2>2, <2>3, <2>4
    <3> QED
      BY <2>3, <3>1 DEF Inv, OneListener, Listening
  <2>5. PortOf(told[s]) \notin foreign
    BY <2>3 DEF Inv, OneListener, Listening
  <2> QED
    BY <2>3, <2>4, <2>5 DEF Listening
<1> QED
  BY <1>1, PasvPortsInvariant, PTL

\* Between commands a session has a listening socket exactly if its client
\* was told the port: no path through dopasv leaks one or forgets one.
THEOREM PasvPortsSocketMeansTold == Spec => []SocketMeansTold
<1>1. Inv => SocketMeansTold
  BY BytesAreSomePort
  DEF Inv, Shape, Listening, SocketMeansTold, NoSocket
<1> QED
  BY <1>1, PasvPortsInvariant, PTL

-----------------------------------------------------------------------------
(***************************************************************************)
(* How many sessions can be how far up the range.                          *)
(***************************************************************************)

\* The port that a session tries or is bound to, 0 without one.
Level(s) == IF pc[s] = "bind" THEN listen_port[s] ELSE pasv_sock[s].port

\* The sessions that have come past port p, and the ports up to it that no
\* other program has used.
Passed(p) == {t \in Sessions : Level(t) > p}
Free(p) == {q \in Ports \ used : q <= p}

\* A session that walks the range has no port.
Walking == \A s \in Sessions : pc[s] = "bind" => pasv_sock[s].port = 0

\* Each free port that was passed keeps one session back.
HeldBack ==
  \A p \in (pasv_port_start - 1)..pasv_port_end :
    Passed(p) # {} =>
      Cardinality(Passed(p)) + Cardinality(Free(p)) <= Cardinality(Sessions)

Sizes ==
  /\ \A p : /\ IsFiniteSet(Passed(p)) /\ Cardinality(Passed(p)) \in Nat
            /\ Cardinality(Passed(p)) <= Cardinality(Sessions)
            /\ IsFiniteSet(Free(p)) /\ Cardinality(Free(p)) \in Nat
  /\ Cardinality(Sessions) \in Nat

LEMMA Finite == Sizes
<1>1. IsFiniteSet(Sessions)
  BY PortAssumption
<1>2. IsFiniteSet(Ports)
  BY PortAssumption, FS_Interval DEF Ports
<1>3. ASSUME NEW p
      PROVE  /\ IsFiniteSet(Passed(p)) /\ Cardinality(Passed(p)) \in Nat
             /\ Cardinality(Passed(p)) <= Cardinality(Sessions)
             /\ IsFiniteSet(Free(p)) /\ Cardinality(Free(p)) \in Nat
  <2>1. Passed(p) \subseteq Sessions /\ Free(p) \subseteq Ports
    BY DEF Passed, Free
  <2> QED
    BY <1>1, <1>2, <2>1, FS_Subset, FS_CardinalityType
<1> QED
  BY <1>1, <1>3, FS_CardinalityType DEF Sizes

LEMMA FiniteNext == Sizes'
  BY Finite, PTL

\* The types that the levels need.
LEMMA Levels ==
  ASSUME Inv
  PROVE  /\ \A t \in Sessions : Level(t) \in Nat /\ Level(t) <= pasv_port_end + 1
         /\ pasv_port_start \in Nat /\ pasv_port_end \in Nat /\ 1 <= pasv_port_start
<1>1. pasv_port_start \in Nat /\ pasv_port_end \in Nat /\ 1 <= pasv_port_start
  BY PortAssumption
<1>2. ASSUME NEW t \in Sessions
      PROVE  Level(t) \in Nat /\ Level(t) <= pasv_port_end + 1
  <2>1. /\ listen_port[t] \in pasv_port_start..(pasv_port_end + 1)
        /\ pasv_sock[t].port \in Ports \cup {0}
    BY DEF Inv, TypeOK, Sockets
  <2> QED
    BY <1>1, <2>1 DEF Level, Ports
<1> QED
  BY <1>1, <1>2

\* A session that starts over, stops or stays where it is makes no difference,
\* and neither does another program that takes a port.
LEMMA NoFurther ==
  ASSUME Inv, Inv', HeldBack, used \subseteq used',
         \A t \in Sessions : Level(t)' <= Level(t) \/ Level(t)' <= pasv_port_start
  PROVE  HeldBack'
<1> SUFFICES ASSUME NEW p \in (pasv_port_start - 1)..pasv_port_end, Passed(p)' # {}
             PROVE  Cardinality(Passed(p)') + Cardinality(Free(p)') <= Cardinality(Sessions)
  BY DEF HeldBack
<1>1. /\ \A t \in Sessions : Level(t) \in Nat /\ Level(t)' \in Nat
      /\ pasv_port_start \in Nat /\ pasv_port_end \in Nat
  <2>1. (\A t \in Sessions : Level(t) \in Nat /\ Level(t) <= pasv_port_end + 1)'
    BY Levels, PTL
  <2> QED
    BY <2>1, Levels
<1>2. /\ Cardinality(Passed(p)') \in Nat /\ Cardinality(Passed(p)') <= Cardinality(Sessions)
      /\ Cardinality(Passed(p)) \in Nat /\ Cardinality(Free(p)) \in Nat
      /\ Cardinality(Sessions) \in Nat /\ IsFiniteSet(Passed(p))
      /\ Cardinality(Free(p)') \in Nat /\ IsFiniteSet(Free(p))
  BY Finite, FiniteNext DEF Sizes
<1>3. Free(p)' \subseteq Free(p) /\ Cardinality(Free(p)') <= Cardinality(Free(p))
  <2>1. Free(p)' \subseteq Free(p)
    BY DEF Free
  <2> QED
    BY <1>2, <2>1, FS_Subset
<1>4. CASE p = pasv_port_start - 1
  <2>1. Free(p)' = {}
    BY <1>1, <1>4 DEF Free, Ports
  <2> QED
    BY <1>2, <1>3, <2>1, FS_EmptySet
<1>5. CASE p # pasv_port_start - 1
  <2>1. p \in Int /\ p >= pasv_port_start
    BY <1>1, <1>5
  <2>2. Passed(p)' \subseteq Passed(p)
    BY <1>1, <2>1 DEF Passed
  <2>3. Cardinality(Passed(p)') <= Cardinality(Passed(p))
    BY <1>2, <2>2, FS_Subset
  <2>4. Passed(p) # {}
    BY <2>2
  <2>5. Cardinality(Passed(p)) + Cardinality(Free(p)) <= Cardinality(Sessions)
    BY <2>4 DEF HeldBack
  <2> QED
    BY <1>2, <1>3, <2>3, <2>5
<1> QED
  BY <1>4, <1>5

\* A session passes a port that another program has, or another session, which
\* is then no further than that.
LEMMA OneFurther ==
  ASSUME Inv, Walking, HeldBack, NEW s \in Sessions, PortInUse(s)
  PROVE  HeldBack'
<1>0. PICK q : q = listen_port[s]
  OBVIOUS
<1>1. /\ pc[s] = "bind" /\ q <= pasv_port_end
      /\ listen_port' = [listen_port EXCEPT ![s] = q + 1]
      /\ UNCHANGED <<pc, pasv_sock, used>>
  BY <1>0 DEF PortInUse, NextPort, otherVars
<1>2. InUse(s, q)
  BY <1>0 DEF PortInUse
<1>3. /\ \A t \in Sessions : Level(t) \in Nat
      /\ pasv_port_start \in Nat /\ pasv_port_end \in Nat
  BY Levels
<1>4. q \in Nat /\ pasv_port_start <= q /\ q \in Ports
  BY <1>0, <1>1, <1>3 DEF Inv, TypeOK, Ports
<1>5. /\ Level(s) = q /\ Level(s)' = q + 1
      /\ \A t \in Sessions \ {s} : Level(t)' = Level(t)
  BY <1>0, <1>1 DEF Inv, TypeOK, Level
<1> SUFFICES ASSUME NEW p \in (pasv_port_start - 1)..pasv_port_end, Passed(p)' # {}
             PROVE  Cardinality(Passed(p)') + Cardinality(Free(p)') <= Cardinality(Sessions)
  BY DEF HeldBack
<1>6. Free(p)' = Free(p)
  BY <1>1 DEF Free
<1>7. Passed(p) # {} => Cardinality(Passed(p)) + Cardinality(Free(p)) <= Cardinality(Sessions)
  BY DEF HeldBack
<1>8. CASE p # q
  <2>1. Passed(p)' = Passed(p)
    BY <1>3, <1>4, <1>5, <1>8 DEF Passed
  <2> QED
    BY <1>6, <1>7, <2>1
<1>9. CASE p = q
  <2>1. q - 1 \in (pasv_port_start - 1)..pasv_port_end
    BY <1>1, <1>3, <1>4
  <2>2. Passed(q)' = Passed(q) \cup {s} /\ s \in Passed(q - 1) /\ s \notin Passed(q)
    BY <1>3, <1>4, <1>5 DEF Passed
  <2>3. Cardinality(Passed(q - 1)) + Cardinality(Free(q - 1)) <= Cardinality(Sessions)
    BY <2>1, <2>2 DEF HeldBack
  <2>4. Passed(q) \subseteq Passed(q - 1)
    BY <1>3, <1>4 DEF Passed
  <2>5. /\ Cardinality(Passed(q)) \in Nat /\ Cardinality(Passed(q)') \in Nat
        /\ Cardinality(Passed(q - 1)) \in Nat /\ Cardinality(Free(q)) \in Nat
        /\ Cardinality(Free(q - 1)) \in Nat /\ Cardinality(Sessions) \in Nat
        /\ IsFiniteSet(Passed(q)) /\ IsFiniteSet(Passed(q - 1)) /\ IsFiniteSet(Free(q - 1))
    BY Finite, FiniteNext DEF Sizes
  <2>6. CASE q \in used
    <3>1. Free(q) = Free(q - 1)
      BY <1>3, <1>4, <2>6 DEF Free, Ports
    <3>2. Passed(q)' \subseteq Passed(q - 1)
      BY <2>2, <2>4
    <3>3. Cardinality(Passed(q)') <= Cardinality(Passed(q - 1))
      BY <2>5, <3>2, FS_Subset
    <3> QED
      BY <1>6, <1>9, <2>3, <2>5, <3>1, <3>3
  <2>7. CASE q \notin used
    <3>1. PICK t \in Sessions \ {s} : pasv_sock[t].port = q
      BY <1>2, <2>7 DEF Inv, TypeOK, InUse
    <3>2. Level(t) = q
      <4>1. q # 0
        BY <1>4, Levels
      <4> QED
        BY <3>1, <4>1 DEF Level, Walking
    <3>3. Free(q) = Free(q - 1) \cup {q} /\ q \notin Free(q - 1)
      BY <1>3, <1>4, <2>7 DEF Free, Ports
    <3>4. Cardinality(Free(q)) = Cardinality(Free(q - 1)) + 1
      BY <2>5, <3>3, FS_AddElement
    <3>5. Passed(q)' \subseteq Passed(q - 1) \ {t} /\ t \in Passed(q - 1)
      BY <1>3, <1>4, <2>2, <2>4, <3>1, <3>2 DEF Passed
    <3>6. /\ IsFiniteSet(Passed(q - 1) \ {t})
          /\ Cardinality(Passed(q - 1) \ {t}) = Cardinality(Passed(q - 1)) - 1
      BY <2>5, <3>5, FS_RemoveElement
    <3>7. Cardinality(Passed(q)') <= Cardinality(Passed(q - 1) \ {t})
      BY <3>5, <3>6, FS_Subset
    <3> QED
      BY <1>6, <1>9, <2>3, <2>5, <3>4, <3>6, <3>7
  <2> QED
    BY <2>6, <2>7
<1> QED
  BY <1>8, <1>9

LEMMA InitHeldBack == Init => Walking /\ HeldBack
<1> SUFFICES ASSUME Init PROVE Walking /\ HeldBack
  OBVIOUS
<1>1. Walking
  BY DEF Init, Walking
<1>2. \A t \in Sessions : Level(t) = 0
  BY DEF Init, Level, NoSocket
<1>3. \A p \in (pasv_port_start - 1)..pasv_port_end : Passed(p) = {}
  BY <1>2, PortAssumption DEF Passed
<1> QED
  BY <1>1, <1>3 DEF HeldBack

LEMMA StepHeldBack ==
  Inv /\ Inv' /\ Walking /\ HeldBack /\ [Next]_vars => Walking' /\ HeldBack'
<1> SUFFICES ASSUME Inv, Inv', Walking, HeldBack, [Next]_vars
             PROVE  Walking' /\ HeldBack'
  OBVIOUS
<1>1. CASE UNCHANGED vars
  <2>1. used' = used /\ \A t \in Sessions : Level(t)' = Level(t)
    BY <1>1 DEF vars, Level
  <2>2. HeldBack'
    BY <2>1, Levels, NoFurther
  <2> QED
    BY <1>1, <2>2 DEF vars, Walking
<1>3. ASSUME NEW p \in OtherPorts, OthersListen(p) \/ OthersClose(p)
      PROVE  Walking' /\ HeldBack'
  <2>1. UNCHANGED <<pc, listen_port, pasv_sock>> /\ used \subseteq used'
    BY <1>3 DEF OthersListen, OthersClose
  <2>2. \A t \in Sessions : Level(t)' = Level(t)
    BY <2>1 DEF Level
  <2>3. HeldBack'
    BY <2>1, <2>2, Levels, NoFurther
  <2> QED
    BY <2>1, <2>3 DEF Walking
<1>2. ASSUME NEW s \in Sessions, SessionStep(s)
      PROVE  Walking' /\ HeldBack'
  <2>0. used' = used
    BY <1>2 DEF SessionStep, Start, Exit, dopasv, PasvStep, PasvFault, Bind, PortInUse,
      NoFreePorts, Listen, ListenFails, Getsockname, SocketFails, BindFails,
      GetsocknameFails, Refuse, otherVars
  <2> DEFINE Back == /\ \A t \in Sessions \ {s} : Level(t)' = Level(t)
                     /\ Level(s)' <= Level(s) \/ Level(s)' <= pasv_port_start
  <2>1. ASSUME Back PROVE HeldBack'
    <3>1. \A t \in Sessions : Level(t)' <= Level(t) \/ Level(t)' <= pasv_port_start
      BY <2>1, Levels
    <3> QED
      BY <2>0, <2>1, <3>1, NoFurther
  <2>2. CASE Start(s) \/ Exit(s) \/ SocketFails(s) \/ Refuse(s)
    <3>1. Walking'
      BY <2>2 DEF Start, Exit, SocketFails, Refuse, Inv, TypeOK, Walking, NoSocket
    <3>2. Level(s)' = 0 /\ \A t \in Sessions \ {s} : Level(t)' = Level(t)
      BY <2>2 DEF Start, Exit, SocketFails, Refuse, Inv, TypeOK, Level, NoSocket, Shape
    <3> QED
      BY <2>1, <3>1, <3>2, Levels
  <2>3. CASE dopasv(s)
    <3>1. PICK reuse :
            pasv_sock' = [pasv_sock EXCEPT ![s] =
                            [port |-> 0, reuse |-> reuse, listening |-> FALSE,
                             open |-> TRUE]]
      BY <2>3 DEF dopasv
    <3>2. /\ listen_port' = [listen_port EXCEPT ![s] = pasv_port_start]
          /\ pc' = [pc EXCEPT ![s] = "bind"]
      BY <2>3 DEF dopasv
    <3>3. Walking'
      BY <3>1, <3>2 DEF Inv, TypeOK, Walking
    <3>4. Level(s)' = pasv_port_start /\ \A t \in Sessions \ {s} : Level(t)' = Level(t)
      BY <3>1, <3>2 DEF Inv, TypeOK, Level
    <3> QED
      BY <2>1, <3>2, <3>3, <3>4, Levels
  <2>4. CASE Bind(s)
    <3>1. /\ pc[s] = "bind" /\ pasv_sock' = [pasv_sock EXCEPT ![s].port = listen_port[s]]
          /\ pc' = [pc EXCEPT ![s] = "listen"] /\ UNCHANGED <<listen_port, otherVars>>
      BY <2>4 DEF Bind
    <3>2. /\ pasv_sock'[s].port = listen_port[s]
          /\ \A t \in Sessions \ {s} : pasv_sock'[t] = pasv_sock[t]
      BY <3>1 DEF Inv, TypeOK, Sockets
    <3>3. Walking' /\ \A t \in Sessions : Level(t)' = Level(t)
      BY <3>1, <3>2 DEF Inv, TypeOK, Walking, Level
    <3> QED
      BY <2>1, <3>1, <3>3, Levels
  <2>5. CASE PortInUse(s)
    <3>1. Walking'
      BY <2>5 DEF PortInUse, Walking
    <3> QED
      BY <2>5, <3>1, OneFurther
  <2>6. CASE Listen(s)
    <3>1. /\ pc[s] = "listen" /\ pasv_sock' = [pasv_sock EXCEPT ![s].listening = TRUE]
          /\ pc' = [pc EXCEPT ![s] = "getsockname"] /\ UNCHANGED <<listen_port, otherVars>>
      BY <2>6 DEF Listen
    <3>2. pasv_sock'[s].port = pasv_sock[s].port
          /\ \A t \in Sessions \ {s} : pasv_sock'[t] = pasv_sock[t]
      BY <3>1 DEF Inv, TypeOK, Sockets
    <3>3. Walking' /\ \A t \in Sessions : Level(t)' = Level(t)
      BY <3>1, <3>2 DEF Inv, TypeOK, Walking, Level
    <3> QED
      BY <2>1, <3>1, <3>3, Levels
  <2>7. CASE Getsockname(s)
    <3>1. /\ pc[s] = "getsockname" /\ pc' = [pc EXCEPT ![s] = "idle"]
          /\ UNCHANGED <<listen_port, pasv_sock, otherVars>>
      BY <2>7 DEF Getsockname
    <3>2. Walking' /\ \A t \in Sessions : Level(t)' = Level(t)
      BY <3>1 DEF Inv, TypeOK, Walking, Level
    <3> QED
      BY <2>1, <3>1, <3>2, Levels
  <2> QED
    BY <1>2, <2>2, <2>3, <2>4, <2>5, <2>6, <2>7
    DEF SessionStep, PasvStep, PasvFault, NoFreePorts, ListenFails, BindFails, GetsocknameFails
<1> QED
  BY <1>1, <1>2, <1>3 DEF Next

\* pasv_listen tells a client that there is no free port only when there are
\* more sessions than ports that no other program has used so far, however the
\* ports change hands while it walks the range.
THEOREM PasvPortsNoFalseExhaustion == Spec => []NoFalseExhaustion
<1>1. Inv /\ HeldBack => NoFalseExhaustion
  <2> SUFFICES ASSUME Inv, HeldBack, NEW s \in Sessions, pc[s] = "bind",
                      listen_port[s] > pasv_port_end
               PROVE  Cardinality(Ports \ used) < Cardinality(Sessions)
    BY DEF NoFalseExhaustion
  <2>1. pasv_port_end \in (pasv_port_start - 1)..pasv_port_end
    BY PortAssumption
  <2>2. s \in Passed(pasv_port_end)
    BY DEF Passed, Level
  <2>3. Cardinality(Passed(pasv_port_end)) + Cardinality(Free(pasv_port_end))
          <= Cardinality(Sessions)
    BY <2>1, <2>2 DEF HeldBack
  <2>4. Free(pasv_port_end) = Ports \ used
    BY PortAssumption DEF Free, Ports
  <2>5. Cardinality(Passed(pasv_port_end)) # 0
    BY <2>2, Finite, FS_EmptySet DEF Sizes
  <2> QED
    BY <2>3, <2>4, <2>5, Finite DEF Sizes
<1> QED
  BY <1>1, InitHeldBack, StepHeldBack, PasvPortsInvariant, PTL DEF Spec

=============================================================================
