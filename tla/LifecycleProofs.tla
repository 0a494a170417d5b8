-------------------------- MODULE LifecycleProofs --------------------------
(***************************************************************************)
(* Theorems about Lifecycle, for any clients, any programs of calls, any   *)
(* capacities and any number of lost connections.                          *)
(***************************************************************************)
EXTENDS Lifecycle, SequenceTheorems, TLAPS

----------------------------------------------------------------------------
\* What the proofs need of a sequence used as a queue: what is in it, that
\* nothing is in it twice, and what is in front of what, as elements are
\* appended and its head is taken.

\* Wherever y is in the queue, x is in front of it.
Ahead(x, y, s) ==
    \A i \in DOMAIN s : s[i] = y => \E j \in DOMAIN s : j < i /\ s[j] = x

\* The elements of a sequence are the values at its positions.
LEMMA InRange ==
    ASSUME NEW s, NEW x
    PROVE  x \in Range(s) <=> \E i \in DOMAIN s : s[i] = x
BY DEF Range

\* Nothing is in an empty queue.
LEMMA EmptyQueue ==
    /\ Range(<<>>) = {} /\ IsInjective(<<>>)
    /\ \A x, y : Ahead(x, y, <<>>)
<1>1. DOMAIN <<>> = {}
  OBVIOUS
<1> QED
  BY <1>1 DEF Range, IsInjective, Ahead

\* What a queue is after a frame is put at its end.
LEMMA AppendShape ==
    ASSUME NEW S, NEW s \in Seq(S), NEW x \in S
    PROVE  /\ Append(s, x) \in Seq(S)
           /\ Len(s) \in Nat
           /\ Len(Append(s, x)) = Len(s) + 1
           /\ DOMAIN s = 1..Len(s)
           /\ DOMAIN Append(s, x) = 1..(Len(s) + 1)
           /\ \A i \in 1..Len(s) : Append(s, x)[i] = s[i]
           /\ Append(s, x)[Len(s) + 1] = x
BY AppendProperties, LenProperties

\* What a queue is after its first frame is taken.
LEMMA TailShape ==
    ASSUME NEW S, NEW s \in Seq(S), s # <<>>
    PROVE  /\ Head(s) \in S /\ Tail(s) \in Seq(S)
           /\ Len(s) \in Nat \ {0}
           /\ Len(Tail(s)) = Len(s) - 1
           /\ DOMAIN s = 1..Len(s)
           /\ DOMAIN Tail(s) = 1..(Len(s) - 1)
           /\ Head(s) = s[1]
           /\ \A i \in 1..(Len(s) - 1) : Tail(s)[i] = s[i + 1]
<1>1. Len(s) \in Nat \ {0} /\ DOMAIN s = 1..Len(s)
  BY EmptySeq, LenProperties
<1>2. /\ Head(s) \in S /\ Tail(s) \in Seq(S) /\ Len(Tail(s)) = Len(s) - 1
      /\ \A i \in 1..Len(Tail(s)) : Tail(s)[i] = s[i + 1]
  BY HeadTailProperties
<1>3. DOMAIN Tail(s) = 1..Len(Tail(s))
  BY <1>2, LenProperties
<1>4. Head(s) = s[1]
  BY <1>1
<1> QED
  BY <1>1, <1>2, <1>3, <1>4

\* A frame put in a queue is in it, with the others.
LEMMA RangeOfAppend ==
    ASSUME NEW S, NEW s \in Seq(S), NEW x \in S
    PROVE  Range(Append(s, x)) = Range(s) \cup {x}
<1> DEFINE t == Append(s, x)
<1>1. /\ Len(s) \in Nat /\ DOMAIN s = 1..Len(s) /\ DOMAIN t = 1..(Len(s) + 1)
      /\ \A i \in 1..Len(s) : t[i] = s[i]
      /\ t[Len(s) + 1] = x
  BY AppendShape
<1> HIDE DEF t
<1>2. ASSUME NEW y PROVE y \in Range(t) <=> y \in Range(s) \cup {x}
  <2>1. ASSUME NEW i \in DOMAIN t, t[i] = y
        PROVE  y = x \/ \E j \in DOMAIN s : s[j] = y
    BY <1>1, <2>1
  <2>2. ASSUME NEW i \in DOMAIN s, s[i] = y
        PROVE  \E j \in DOMAIN t : t[j] = y
    BY <1>1, <2>2
  <2>3. \E j \in DOMAIN t : t[j] = x
    BY <1>1
  <2> QED
    BY <2>1, <2>2, <2>3, InRange
<1>3. Range(t) = Range(s) \cup {x}
  BY <1>2
<1> QED
  BY <1>3 DEF t

\* The first frame and the others are what is in a queue.
LEMMA RangeOfTail ==
    ASSUME NEW S, NEW s \in Seq(S), s # <<>>
    PROVE  Range(s) = {Head(s)} \cup Range(Tail(s))
<1> DEFINE t == Tail(s)
<1>1. /\ Len(s) \in Nat \ {0} /\ DOMAIN s = 1..Len(s)
      /\ DOMAIN t = 1..(Len(s) - 1) /\ Head(s) = s[1]
      /\ \A i \in 1..(Len(s) - 1) : t[i] = s[i + 1]
  BY TailShape
<1> HIDE DEF t
<1>2. ASSUME NEW y PROVE y \in Range(s) <=> y \in {Head(s)} \cup Range(t)
  <2>1. ASSUME NEW i \in DOMAIN s, s[i] = y
        PROVE  y = Head(s) \/ \E j \in DOMAIN t : t[j] = y
    <3>1. CASE i = 1
      BY <1>1, <2>1, <3>1
    <3>2. CASE i # 1
      <4>1. i - 1 \in DOMAIN t /\ (i - 1) + 1 = i
        BY <1>1, <3>2
      <4> QED
        BY <1>1, <2>1, <4>1
    <3> QED
      BY <3>1, <3>2
  <2>2. ASSUME NEW i \in DOMAIN t, t[i] = y
        PROVE  \E j \in DOMAIN s : s[j] = y
    <3>1. i + 1 \in DOMAIN s
      BY <1>1
    <3> QED
      BY <1>1, <2>2, <3>1
  <2>3. \E j \in DOMAIN s : s[j] = Head(s)
    BY <1>1
  <2> QED
    BY <2>1, <2>2, <2>3, InRange
<1>3. Range(s) = {Head(s)} \cup Range(t)
  BY <1>2
<1> QED
  BY <1>3 DEF t

\* A new frame in a queue without repetitions leaves it without.
LEMMA InjectiveAppend ==
    ASSUME NEW S, NEW s \in Seq(S), NEW x \in S,
           IsInjective(s), x \notin Range(s)
    PROVE  IsInjective(Append(s, x))
<1> DEFINE t == Append(s, x)
<1>1. /\ Len(s) \in Nat /\ DOMAIN s = 1..Len(s) /\ DOMAIN t = 1..(Len(s) + 1)
      /\ \A i \in 1..Len(s) : t[i] = s[i]
      /\ t[Len(s) + 1] = x
  BY AppendShape
<1>2. \A i \in DOMAIN s : s[i] # x
  BY InRange
<1>3. \A i, j \in DOMAIN s : s[i] = s[j] => i = j
  BY DEF IsInjective
<1> HIDE DEF t
<1>4. \A i, j \in DOMAIN t : t[i] = t[j] => i = j
  BY <1>1, <1>2, <1>3
<1> QED
  BY <1>4 DEF IsInjective, t

\* What is taken from a queue without repetitions is in it no more.
LEMMA InjectiveTail ==
    ASSUME NEW S, NEW s \in Seq(S), s # <<>>, IsInjective(s)
    PROVE  IsInjective(Tail(s)) /\ Head(s) \notin Range(Tail(s))
<1> DEFINE t == Tail(s)
<1>1. /\ Len(s) \in Nat \ {0} /\ DOMAIN s = 1..Len(s)
      /\ DOMAIN t = 1..(Len(s) - 1) /\ Head(s) = s[1]
      /\ \A i \in 1..(Len(s) - 1) : t[i] = s[i + 1]
  BY TailShape
<1>2. \A i, j \in DOMAIN s : s[i] = s[j] => i = j
  BY DEF IsInjective
<1> HIDE DEF t
<1>3. \A i \in DOMAIN t : i + 1 \in DOMAIN s /\ i + 1 # 1 /\ 1 \in DOMAIN s
  BY <1>1
<1>4. \A i, j \in DOMAIN t : t[i] = t[j] => i = j
  <2> SUFFICES ASSUME NEW i \in DOMAIN t, NEW j \in DOMAIN t, t[i] = t[j]
               PROVE  i = j
    OBVIOUS
  <2>1. i + 1 = j + 1
    BY <1>1, <1>2, <1>3
  <2> QED
    BY <1>1, <2>1
<1>5. \A i \in DOMAIN t : t[i] # Head(s)
  BY <1>1, <1>2, <1>3
<1>6. Head(s) \notin Range(t)
  BY <1>5, InRange
<1> QED
  BY <1>4, <1>6 DEF IsInjective, t

\* What is not in a queue has everything in front of it.
LEMMA AheadOfAbsent ==
    ASSUME NEW s, NEW x, NEW y, y \notin Range(s)
    PROVE  Ahead(x, y, s)
BY InRange DEF Ahead

\* A frame put at the end does not overtake another.
LEMMA AheadAppend ==
    ASSUME NEW S, NEW s \in Seq(S), NEW e \in S, NEW x, NEW y,
           Ahead(x, y, s), y = e => x \in Range(s)
    PROVE  Ahead(x, y, Append(s, e))
<1> DEFINE t == Append(s, e)
<1>1. /\ Len(s) \in Nat /\ DOMAIN s = 1..Len(s) /\ DOMAIN t = 1..(Len(s) + 1)
      /\ \A i \in 1..Len(s) : t[i] = s[i]
      /\ t[Len(s) + 1] = e
  BY AppendShape
<1>2. y = e => \E j \in DOMAIN s : s[j] = x
  BY InRange
<1>3. \A i \in DOMAIN s : s[i] = y => \E j \in DOMAIN s : j < i /\ s[j] = x
  BY DEF Ahead
<1> HIDE DEF t
<1>4. ASSUME NEW i \in DOMAIN t, t[i] = y
      PROVE  \E j \in DOMAIN t : j < i /\ t[j] = x
  <2>1. CASE i \in DOMAIN s
    <3>1. PICK j \in DOMAIN s : j < i /\ s[j] = x
      BY <1>1, <1>3, <1>4, <2>1
    <3>2. j \in DOMAIN t /\ t[j] = x
      BY <1>1, <3>1
    <3> QED
      BY <3>1, <3>2
  <2>2. CASE i = Len(s) + 1
    <3>1. PICK j \in DOMAIN s : s[j] = x
      BY <1>1, <1>2, <1>4, <2>2
    <3>2. j \in DOMAIN t /\ t[j] = x /\ j < i
      BY <1>1, <2>2, <3>1
    <3> QED
      BY <3>2
  <2> QED
    BY <1>1, <2>1, <2>2
<1> QED
  BY <1>4 DEF Ahead, t

\* What has x in front of it is not the head, and has x in front of it until x
\* is taken.
LEMMA AheadTail ==
    ASSUME NEW S, NEW s \in Seq(S), s # <<>>, NEW x, NEW y, Ahead(x, y, s)
    PROVE  /\ Head(s) # y
           /\ Head(s) = x \/ Ahead(x, y, Tail(s))
<1> DEFINE t == Tail(s)
<1>1. /\ Len(s) \in Nat \ {0} /\ DOMAIN s = 1..Len(s)
      /\ DOMAIN t = 1..(Len(s) - 1) /\ Head(s) = s[1]
      /\ \A i \in 1..(Len(s) - 1) : t[i] = s[i + 1]
  BY TailShape
<1>2. \A i \in DOMAIN s : s[i] = y => \E j \in DOMAIN s : j < i /\ s[j] = x
  BY DEF Ahead
<1> HIDE DEF t
<1>3. Head(s) # y
  BY <1>1, <1>2
<1>4. ASSUME Head(s) # x, NEW i \in DOMAIN t, t[i] = y
      PROVE  \E j \in DOMAIN t : j < i /\ t[j] = x
  <2>1. i + 1 \in DOMAIN s /\ s[i + 1] = y
    BY <1>1, <1>4
  <2>2. PICK j \in DOMAIN s : j < i + 1 /\ s[j] = x
    BY <1>2, <2>1
  <2>3. j # 1
    BY <1>1, <1>4, <2>2
  <2>4. j - 1 \in DOMAIN t /\ (j - 1) + 1 = j /\ j - 1 < i
    BY <1>1, <2>2, <2>3
  <2>5. t[j - 1] = x
    BY <1>1, <2>2, <2>4
  <2> QED
    BY <2>4, <2>5
<1> QED
  BY <1>3, <1>4 DEF Ahead, t

----------------------------------------------------------------------------
(* Types *)

\* A client that has its clone is at a call of its program.
InCall ==
    \A c \in Clients :
        client[c].pc # "gone" => client[c].n \in 1..Len(program[c])

TypeInv == TypeOK /\ InCall

\* The frames there are, and all that is built from them, stay what they are.
LEMMA FramesKept ==
    ASSUME program' = program
    PROVE  /\ Frames' = Frames /\ Awaited' = Awaited
           /\ Answers' = Answers /\ Results' = Results /\ Tasks' = Tasks
           /\ \A f : CallOf(f)' = CallOf(f)
BY DEF Frames, Awaited, Answers, Results, Tasks, CallOf

LEMMA ProgramType ==
    ASSUME TypeOK, NEW c \in Clients
    PROVE  /\ program[c] \in Seq(Calls) /\ Len(program[c]) \in Nat
           /\ DOMAIN program[c] = 1..Len(program[c])
           /\ \A i \in DOMAIN program[c] :
                 program[c][i] = "close" => i = Len(program[c])
<1>1. program \in [Clients -> Seq(Calls)]
  BY ConstantsAssumption DEF TypeOK
<1>2. program[c] \in Seq(Calls)
  BY <1>1
<1> QED
  BY <1>2, LenProperties, ConstantsAssumption DEF TypeOK

\* A frame is of a client and of a position in its program.
LEMMA FrameForm ==
    ASSUME TypeOK, NEW f \in Frames
    PROVE  /\ f[1] \in Clients /\ f[2] \in 1..Len(program[f[1]])
           /\ f = <<f[1], f[2]>>
<1>1. PICK c \in Clients : f \in {c} \X DOMAIN program[c]
  BY DEF Frames
<1>2. f[1] = c /\ f[2] \in DOMAIN program[c] /\ f = <<f[1], f[2]>>
  BY <1>1
<1> QED
  BY <1>2, ProgramType

\* The frame of the call a client is in.
LEMMA CurrentFrame ==
    ASSUME TypeInv, NEW c \in Clients, client[c].pc # "gone"
    PROVE  /\ Frame(c) \in Frames /\ CallOf(Frame(c)) = Call(c)
           /\ Call(c) \in Calls
           /\ Call(c) = "close" => client[c].n = Len(program[c])
           /\ Frame(c)[1] = c /\ Frame(c)[2] = client[c].n
<1>1. client[c].n \in DOMAIN program[c]
  BY ProgramType DEF TypeInv, InCall
<1>2. Frame(c) \in {c} \X DOMAIN program[c]
  BY <1>1 DEF Frame
<1>3. Frame(c) \in Frames
  BY <1>2 DEF Frames
<1>4. program[c][client[c].n] \in Calls
  BY <1>1, ProgramType, ElementOfSeq DEF TypeInv
<1> QED
  BY <1>1, <1>3, <1>4, ProgramType DEF CallOf, Frame, Call, TypeInv

\* The types hold at the start.
LEMMA InitType == Init => TypeInv
<1> SUFFICES ASSUME Init PROVE TypeInv
  OBVIOUS
<1>1. program \in Programs
  BY DEF Init
<1>2. program \in [Clients -> Seq(Calls)]
  BY <1>1, ConstantsAssumption
<1>3. ASSUME NEW c \in Clients
      PROVE  /\ client[c] \in [pc: ClientStates, n: Nat]
             /\ client[c].pc # "gone" => client[c].n \in 1..Len(program[c])
  <2>1. program[c] \in Seq(Calls)
    BY <1>2
  <2>2. Len(program[c]) \in Nat /\ (program[c] # <<>> => Len(program[c]) # 0)
    BY <2>1, LenProperties, EmptySeq
  <2>3. client[c] = IF program[c] = <<>> THEN Gone ELSE Ready(1)
    BY DEF Init
  <2> QED
    BY <2>2, <2>3 DEF Gone, Ready, ClientStates
<1>4. client \in [Clients -> [pc: ClientStates, n: Nat]]
  BY <1>3 DEF Init
<1>5. <<>> \in Seq(Frames) /\ Len(<<>>) = 0 /\ <<>> \in Seq(Answers)
  BY EmptySeq
<1>6. io \in Tasks
  BY DEF Init, Tasks
<1>7. before \in [Clients -> SUBSET accepted]
  BY DEF Init
<1> QED
  BY <1>1, <1>3, <1>4, <1>5, <1>6, <1>7, ConstantsAssumption
     DEF Init, TypeInv, TypeOK, InCall


\* A move of one client, to a state of the same call.
Moves(c, pc) == client' = [client EXCEPT ![c].pc = pc]

\* What each kind of step of a client does to its type.
LEMMA MovesType ==
    ASSUME TypeInv, program' = program, NEW c \in Clients,
           NEW pc \in ClientStates, client[c].pc # "gone", Moves(c, pc)
    PROVE  client' \in [Clients -> [pc: ClientStates, n: Nat]] /\ InCall'
<1>1. client \in [Clients -> [pc: ClientStates, n: Nat]]
  BY DEF TypeInv, TypeOK
<1>2. \A d \in Clients : client'[d] =
         IF d = c THEN [client[c] EXCEPT !.pc = pc] ELSE client[d]
  BY <1>1 DEF Moves
<1>3. client' \in [Clients -> [pc: ClientStates, n: Nat]]
  BY <1>1 DEF Moves
<1>4. client'[c].n = client[c].n
  BY <1>1, <1>2
<1> QED
  BY <1>2, <1>3, <1>4 DEF TypeInv, InCall

\* A client that is done keeps the types.
LEMMA GoneType ==
    ASSUME TypeInv, program' = program, NEW c \in Clients,
           client' = [client EXCEPT ![c] = Gone]
    PROVE  client' \in [Clients -> [pc: ClientStates, n: Nat]] /\ InCall'
<1>1. client \in [Clients -> [pc: ClientStates, n: Nat]]
  BY DEF TypeInv, TypeOK
<1>2. Gone \in [pc: ClientStates, n: Nat] /\ Gone.pc = "gone"
  BY DEF Gone, ClientStates
<1> QED
  BY <1>1, <1>2 DEF TypeInv, InCall

\* A call that returns keeps the types.
LEMMA ReturnType ==
    ASSUME TypeInv, program' = program, NEW c \in Clients,
           client[c].pc # "gone",
           NEW how \in Verdicts \cup {"sent", "closed", "timeout", "unawaited"},
           Return(c, how)
    PROVE  /\ client' \in [Clients -> [pc: ClientStates, n: Nat]] /\ InCall'
           /\ result' \subseteq Results
<1>1. client \in [Clients -> [pc: ClientStates, n: Nat]] /\ result \subseteq Results
  BY DEF TypeInv, TypeOK
<1>2. client[c].n \in 1..Len(program[c]) /\ Len(program[c]) \in Nat
  BY ProgramType DEF TypeInv, InCall
<1>3. [frame |-> Frame(c), got |-> how] \in Results
  BY CurrentFrame DEF Results
<1>4. PICK next : /\ client' = [client EXCEPT ![c] = next]
                  /\ next \in [pc: ClientStates, n: Nat]
                  /\ next.pc # "gone" => next.n \in 1..Len(program[c])
  <2>1. CASE Call(c) = "close"
    <3> DEFINE next == [client[c] EXCEPT !.pc = "signalling"]
    <3>1. next \in [pc: ClientStates, n: Nat] /\ next.n = client[c].n
      BY <1>1 DEF ClientStates
    <3>2. client' = [client EXCEPT ![c] = next]
      BY <2>1 DEF Return
    <3> QED
      BY <1>2, <3>1, <3>2
  <2>2. CASE Call(c) # "close" /\ client[c].n = Len(program[c])
    <3>1. Gone \in [pc: ClientStates, n: Nat] /\ Gone.pc = "gone"
      BY DEF Gone, ClientStates
    <3>2. client' = [client EXCEPT ![c] = Gone]
      BY <2>2 DEF Return
    <3> QED
      BY <3>1, <3>2
  <2>3. CASE Call(c) # "close" /\ client[c].n # Len(program[c])
    <3> DEFINE next == Ready(client[c].n + 1)
    <3>1. /\ next \in [pc: ClientStates, n: Nat]
          /\ next.n \in 1..Len(program[c])
      BY <1>2, <2>3 DEF Ready, ClientStates
    <3>2. client' = [client EXCEPT ![c] = next]
      BY <2>3 DEF Return
    <3> HIDE DEF next
    <3> QED
      BY <3>1, <3>2
  <2> QED
    BY <2>1, <2>2, <2>3
<1>5. client' \in [Clients -> [pc: ClientStates, n: Nat]]
  BY <1>1, <1>4
<1>6. InCall'
  BY <1>1, <1>4 DEF TypeInv, InCall
<1>7. result' \subseteq Results
  BY <1>1, <1>3 DEF Return
<1> QED
  BY <1>5, <1>6, <1>7

\* The steps of a client keep the types.
LEMMA ClientType ==
    ASSUME TypeInv, NEW c \in Clients, Client(c)
    PROVE  TypeInv'
<1> USE DEF TypeInv
<1>0. /\ UNCHANGED <<program, io, brokerVars, losses>>
      /\ client[c].pc # "gone"
  BY DEF Client, Proceed, Register, DropClone, Submit, SubmitFails, Settled,
         Expire, Deregister, DropHandle, Signal, brokerVars
<1>1. /\ Frames' = Frames /\ Answers' = Answers /\ Results' = Results
      /\ Tasks' = Tasks /\ Frame(c) \in Frames
  BY <1>0, FramesKept, CurrentFrame
<1>2. /\ "submitting" \in ClientStates /\ "waiting" \in ClientStates
      /\ "refused" \in ClientStates /\ "expired" \in ClientStates
  BY DEF ClientStates
<1>3. CASE Register(c)
  <2>1. client' \in [Clients -> [pc: ClientStates, n: Nat]] /\ InCall'
    BY <1>0, <1>2, <1>3, MovesType DEF Register, Moves
  <2>2. before' \in [Clients -> SUBSET accepted]
    BY <1>3 DEF Register, TypeOK
  <2>3. receipts' \subseteq Frames
    BY <1>1, <1>3 DEF Register, TypeOK
  <2> QED
    BY <1>0, <1>1, <1>3, <2>1, <2>2, <2>3 DEF Register, TypeOK, brokerVars
<1>4. CASE DropClone(c)
  <2>1. client' \in [Clients -> [pc: ClientStates, n: Nat]] /\ InCall'
    BY <1>0, <1>4, GoneType DEF DropClone
  <2> QED
    BY <1>0, <1>1, <1>4, <2>1 DEF DropClone, TypeOK, brokerVars
<1>5. CASE Submit(c)
  <2>1. /\ client' \in [Clients -> [pc: ClientStates, n: Nat]] /\ InCall'
        /\ result' \subseteq Results
    <3>1. CASE Call(c) = "send_frame"
      BY <1>0, <1>5, <3>1, ReturnType DEF Submit
    <3>2. CASE Call(c) # "send_frame"
      BY <1>0, <1>2, <1>5, <3>2, MovesType DEF Submit, Moves, TypeOK
    <3> QED
      BY <3>1, <3>2
  <2>2. outbound' \in Seq(Frames) /\ Len(outbound') = Len(outbound) + 1
    BY <1>1, <1>5, AppendProperties DEF Submit, Enqueue, TypeOK
  <2>3. Len(outbound) \in Nat /\ OutCap \in Nat /\ Len(outbound) < OutCap
    BY <1>5, LenProperties, ConstantsAssumption DEF Submit, TypeOK
  <2>4. Len(outbound') <= OutCap
    BY <2>2, <2>3
  <2>5. /\ accepted' \subseteq Frames
        /\ before' \in [Clients -> SUBSET accepted']
    BY <1>1, <1>5 DEF Submit, TypeOK
  <2> QED
    BY <1>0, <1>1, <1>5, <2>1, <2>2, <2>4, <2>5 DEF Submit, TypeOK, brokerVars
<1>6. CASE SubmitFails(c)
  <2>1. /\ client' \in [Clients -> [pc: ClientStates, n: Nat]] /\ InCall'
        /\ result' \subseteq Results
    <3>1. CASE Call(c) = "send_frame"
      BY <1>0, <1>6, <3>1, ReturnType DEF SubmitFails
    <3>2. CASE Call(c) # "send_frame"
      BY <1>0, <1>2, <1>6, <3>2, MovesType DEF SubmitFails, Moves, TypeOK
    <3> QED
      BY <3>1, <3>2
  <2> QED
    BY <1>0, <1>1, <1>6, <2>1 DEF SubmitFails, TypeOK, brokerVars
<1>7. CASE Expire(c)
  <2>1. client' \in [Clients -> [pc: ClientStates, n: Nat]] /\ InCall'
    BY <1>0, <1>2, <1>7, MovesType DEF Expire, Moves
  <2> QED
    BY <1>0, <1>1, <1>7, <2>1 DEF Expire, TypeOK, brokerVars
<1>8. CASE Settled(c) \/ Deregister(c) \/ DropHandle(c)
  <2>1. PICK how \in Verdicts \cup {"sent", "closed", "timeout", "unawaited"} :
           Return(c, how)
    BY <1>8 DEF Settled, Deregister, DropHandle
  <2>2. /\ client' \in [Clients -> [pc: ClientStates, n: Nat]] /\ InCall'
        /\ result' \subseteq Results
    BY <1>0, <2>1, ReturnType
  <2>3. /\ receipts' \subseteq receipts
        /\ UNCHANGED <<outcome, outbound, signal, accepted, before>>
    BY <1>8 DEF Settled, Deregister, DropHandle
  <2> QED
    BY <1>0, <1>1, <2>2, <2>3 DEF TypeOK, brokerVars
<1>9. CASE Signal(c)
  <2>1. client' \in [Clients -> [pc: ClientStates, n: Nat]] /\ InCall'
    BY <1>0, <1>9, GoneType DEF Signal
  <2>2. signal' \in {"none", "one", "lagged"}
    BY <1>9 DEF Signal, TypeOK
  <2> QED
    BY <1>0, <1>1, <1>9, <2>1, <2>2 DEF Signal, TypeOK, brokerVars
<1> QED
  BY <1>3, <1>4, <1>5, <1>6, <1>7, <1>8, <1>9 DEF Client, Proceed

\* The background task, and the broker.
TaskOrBroker ==
    \/ Step \/ Network \/ Arms
    \/ \E v \in Verdicts : Process(v)

\* The states of the task.
LEMMA TaskStates ==
    /\ \A pc \in {"connecting", "handshake", "select", "backoff", "lost",
                  "ending", "exited"} : At(pc) \in Tasks /\ At(pc).pc = pc
    /\ \A fresh \in BOOLEAN : [pc |-> "check", fresh |-> fresh] \in Tasks
    /\ \A f \in Frames : [pc |-> "writing", frame |-> f] \in Tasks
BY DEF At, Tasks

\* A task that writes holds a frame.
LEMMA Holds ==
    ASSUME TypeOK, io.pc = "writing"
    PROVE  io.frame \in Frames
BY DEF TypeOK, Tasks

\* An answer that is read keeps the types.
LEMMA ReadAnswerType ==
    ASSUME TypeInv, ReadAnswer
    PROVE  /\ receipts' \subseteq receipts /\ outcome' \subseteq Answers
           /\ answers' \in Seq(Answers)
           /\ Head(answers) \in Answers
           /\ outcome' = outcome \cup (IF Head(answers).frame \in receipts
                                       THEN {Head(answers)} ELSE {})
           /\ receipts' = receipts \ {Head(answers).frame}
<1>1. answers \in Seq(Answers) /\ answers # <<>>
  BY DEF TypeInv, TypeOK, ReadAnswer
<1>2. Head(answers) \in Answers /\ Tail(answers) \in Seq(Answers)
  BY <1>1, HeadTailProperties
<1> DEFINE a == Head(answers)
           waiters == receipts \cap {a.frame}
<1>3. /\ receipts' = receipts \ waiters
      /\ outcome' = outcome \cup {[frame |-> f, got |-> a.got] : f \in waiters}
      /\ answers' = Tail(answers)
  BY DEF ReadAnswer, WaiterOf
<1>4. a = [frame |-> a.frame, got |-> a.got]
  BY <1>2 DEF Answers
<1>5. {[frame |-> f, got |-> a.got] : f \in waiters} =
         IF a.frame \in receipts THEN {a} ELSE {}
  <2>1. CASE a.frame \in receipts
    <3>1. waiters = {a.frame}
      BY <2>1
    <3> HIDE DEF a, waiters
    <3> QED
      BY <1>4, <2>1, <3>1
  <2>2. CASE a.frame \notin receipts
    <3>1. waiters = {}
      BY <2>2
    <3> HIDE DEF a, waiters
    <3> QED
      BY <2>2, <3>1
  <2> QED
    BY <2>1, <2>2
<1>6. receipts' = receipts \ {a.frame}
  BY <1>3
<1> HIDE DEF a, waiters
<1>7. outcome' = outcome \cup (IF a.frame \in receipts THEN {a} ELSE {})
  BY <1>3, <1>5
<1>8. outcome \subseteq Answers
  BY DEF TypeInv, TypeOK
<1> QED
  BY <1>2, <1>3, <1>6, <1>7, <1>8 DEF a

\* The steps of the task and the broker keep the types.
LEMMA TaskType ==
    ASSUME TypeInv, TaskOrBroker
    PROVE  TypeInv'
<1> USE DEF TypeInv
<1>0. UNCHANGED <<appVars, accepted>>
  BY DEF TaskOrBroker, Step, Network, Arms, Check, BackoffEnds,
         AfterConnection, Exit, Connect, Connected, AttemptFails, Write, Lose,
         TakeShutdown, TakeOutbound, OutboundClosed, ReadAnswer, Process
<1>1. /\ Frames' = Frames /\ Answers' = Answers /\ Results' = Results
      /\ Tasks' = Tasks /\ InCall'
  BY <1>0, FramesKept DEF appVars, InCall
<1>2. <<>> \in Seq(Frames) /\ <<>> \in Seq(Answers) /\ Len(<<>>) = 0
  BY EmptySeq
<1>3. CASE Check \/ BackoffEnds \/ AfterConnection \/ Connect
           \/ TakeShutdown \/ OutboundClosed
  <2>1. io' \in Tasks
    BY <1>3, TaskStates DEF Check, BackoffEnds, AfterConnection, Connect,
                            TakeShutdown, OutboundClosed
  <2>2. signal' \in {"none", "one", "lagged"}
    BY <1>3 DEF Check, BackoffEnds, AfterConnection, Connect,
                TakeShutdown, OutboundClosed, TypeOK
  <2>3. UNCHANGED <<receipts, outcome, outbound, brokerVars, losses>>
    BY <1>3 DEF Check, BackoffEnds, AfterConnection, Connect,
                TakeShutdown, OutboundClosed
  <2> QED
    BY <1>0, <1>1, <2>1, <2>2, <2>3 DEF TypeOK, appVars, brokerVars
<1>4. CASE AttemptFails
  <2>1. losses' \in 0..MaxLosses
    BY <1>4, ConstantsAssumption DEF AttemptFails, TypeOK
  <2> QED
    BY <1>0, <1>1, <1>4, <2>1, TaskStates
       DEF AttemptFails, TypeOK, appVars, brokerVars
<1>5. CASE Exit \/ Connected
  <2>1. io' \in Tasks
    BY <1>5, TaskStates DEF Exit, Connected
  <2>2. /\ outbound' = outbound \/ outbound' = <<>>
        /\ wire' = wire \/ wire' = <<>>
        /\ answers' = answers \/ answers' = <<>>
        /\ UNCHANGED <<receipts, outcome, signal, reached, dropped, unheard,
                       losses>>
    BY <1>5 DEF Exit, Connected, brokerVars
  <2>3. Len(outbound') <= OutCap
    BY <1>2, <2>2, ConstantsAssumption DEF TypeOK
  <2> QED
    BY <1>0, <1>1, <1>2, <2>1, <2>2, <2>3 DEF TypeOK, appVars
<1>6. CASE TakeOutbound
  <2>1. outbound \in Seq(Frames) /\ outbound # <<>>
    BY <1>6 DEF TakeOutbound, TypeOK
  <2>2. /\ Head(outbound) \in Frames /\ Tail(outbound) \in Seq(Frames)
        /\ Len(outbound) \in Nat /\ Len(Tail(outbound)) = Len(outbound) - 1
    BY <2>1, HeadTailProperties, LenProperties
  <2>3. Len(outbound') <= OutCap
    BY <1>6, <2>2, ConstantsAssumption DEF TakeOutbound, TypeOK
  <2> QED
    BY <1>0, <1>1, <1>6, <2>2, <2>3, TaskStates
       DEF TakeOutbound, TypeOK, appVars, brokerVars
<1>7. CASE Write
  <2>1. wire' \in Seq(Frames)
    BY <1>7, Holds, AppendProperties DEF Write, TypeOK
  <2> QED
    BY <1>0, <1>1, <1>7, <2>1, TaskStates DEF Write, TypeOK, appVars
<1>8. CASE Lose
  <2>1. losses' \in 0..MaxLosses
    BY <1>8, ConstantsAssumption DEF Lose, TypeOK
  <2>2. \A i \in DOMAIN wire : wire[i] \in Frames
    BY LenProperties, ElementOfSeq DEF TypeOK
  <2>3. \A i \in DOMAIN answers : answers[i] \in Answers
    BY LenProperties, ElementOfSeq DEF TypeOK
  <2>4. \A a \in Answers : a.frame \in Frames
    BY DEF Answers
  <2>5. InHand \subseteq Frames
    BY Holds DEF InHand
  <2>6. dropped' \subseteq Frames
    BY <1>8, <2>2, <2>5 DEF Lose, TypeOK
  <2>7. unheard' \subseteq Frames
    BY <1>8, <2>3, <2>4 DEF Lose, TypeOK
  <2> QED
    BY <1>0, <1>1, <1>2, <1>8, <2>1, <2>6, <2>7, TaskStates
       DEF Lose, TypeOK, appVars
<1>9. CASE ReadAnswer
  BY <1>0, <1>1, <1>9, ReadAnswerType DEF ReadAnswer, TypeOK, appVars
<1>10. ASSUME NEW v \in Verdicts, Process(v)
       PROVE  TypeInv'
  <2>1. wire \in Seq(Frames) /\ wire # <<>>
    BY <1>10 DEF Process, TypeOK
  <2>2. Head(wire) \in Frames /\ Tail(wire) \in Seq(Frames)
    BY <2>1, HeadTailProperties
  <2>3. [frame |-> Head(wire), got |-> v] \in Answers
    BY <2>2 DEF Answers
  <2>4. answers' \in Seq(Answers)
    BY <1>10, <2>3, AppendProperties DEF Process, TypeOK
  <2>5. reached' \subseteq Answers /\ wire' \in Seq(Frames)
    BY <1>10, <2>2, <2>3 DEF Process, TypeOK
  <2> QED
    BY <1>0, <1>1, <1>10, <2>4, <2>5 DEF Process, TypeOK, appVars
<1> QED
  BY <1>3, <1>4, <1>5, <1>6, <1>7, <1>8, <1>9, <1>10
     DEF TaskOrBroker, Step, Network, Arms

\* The types are inductive.
LEMMA StepType == TypeInv /\ [Next]_vars => TypeInv'
<1>1. TypeInv /\ UNCHANGED vars => TypeInv'
  BY FramesKept DEF vars, appVars, brokerVars, TypeInv, TypeOK, InCall
<1> QED
  BY <1>1, ClientType, TaskType DEF Next, TaskOrBroker

\* Every variable keeps its type; the outbound channel is never over its
\* capacity, whoever submits to it.
THEOREM TypeCorrect == Spec => []TypeOK
<1>1. Spec => []TypeInv
  BY InitType, StepType, PTL DEF Spec
<1>2. TypeInv => TypeOK
  BY DEF TypeInv
<1> QED
  BY <1>1, <1>2, PTL

----------------------------------------------------------------------------
(* Calls *)

\* The call that submits f has returned.
Past(f) ==
    \/ client[f[1]].pc = "gone"
    \/ f[2] < client[f[1]].n
    \/ client[f[1]].pc = "signalling" /\ f[2] = client[f[1]].n

\* It has not, and is in one of these states.
Current(f, states) ==
    client[f[1]].pc \in states /\ f[2] = client[f[1]].n

Answered(f) == \E a \in reached : a.frame = f
Done(f) == Answered(f) \/ f \in dropped

ResultsPast == \A r \in result : Past(r.frame)

AcceptedStarted ==
    \A f \in accepted : Past(f) \/ Current(f, {"waiting", "expired"})

OnlyAccepted ==
    \A f \in Frames :
        f \in Range(outbound) \/ f \in InHand \/ f \in Range(wire) \/ Done(f)
            => f \in accepted

\* Only a call that has a receipt waits, and only close() signals, its result
\* being in.
CallStates ==
    \A c \in Clients :
        /\ client[c].pc \in {"refused", "waiting", "expired"} =>
              Call(c) \in Receipted
        /\ client[c].pc = "signalling" =>
              Call(c) = "close" /\ \E r \in result : r.frame = Frame(c)

\* Its waiter is registered, or has been given its verdict.
WaiterThere ==
    \A c \in Clients :
        client[c].pc \in {"submitting", "waiting"} /\ Call(c) \in Receipted =>
            Frame(c) \in receipts \/ \E a \in outcome : a.frame = Frame(c)

Waiters ==
    /\ receipts \subseteq Awaited
    /\ \A a \in outcome : a \in reached /\ a.frame \notin receipts

CallInv ==
    /\ TypeInv
    /\ ResultsPast /\ AcceptedStarted /\ OnlyAccepted
    /\ CallStates /\ WaiterThere /\ Waiters
    /\ NoWaiterLeft /\ VerdictIsTheBrokers
    /\ Range(answers) \subseteq reached

Turns(c, from, to) ==
    /\ client[c].pc = from
    /\ client'[c].pc = to /\ client'[c].n = client[c].n
    /\ result' = result

Leaves(c) ==
    /\ client[c].pc \in {"ready", "signalling"}
    /\ client'[c] = Gone
    /\ result' = result

\* The states of a call that may return, and what returning does.
Returnable == {"submitting", "refused", "waiting", "expired"}
Returns(c) ==
    /\ client[c].pc \in Returnable
    /\ \E how \in Verdicts \cup {"sent", "closed", "timeout", "unawaited"} :
          result' = result \cup {[frame |-> Frame(c), got |-> how]}
    /\ \/ /\ Call(c) = "close"
          /\ client'[c].pc = "signalling" /\ client'[c].n = client[c].n
       \/ /\ Call(c) # "close" /\ client'[c] = Gone
       \/ /\ Call(c) # "close"
          /\ client'[c].pc = "ready" /\ client'[c].n = client[c].n + 1

\* A client before a step and after it.
LEMMA ClientOf ==
    ASSUME TypeInv, NEW c \in Clients
    PROVE  /\ client[c].pc \in ClientStates /\ client[c].n \in Nat
           /\ \A next : [client EXCEPT ![c] = next][c] = next
           /\ \A next : \A d \in Clients \ {c} :
                 [client EXCEPT ![c] = next][d] = client[d]
           /\ \A pc : /\ [client EXCEPT ![c].pc = pc][c].pc = pc
                      /\ [client EXCEPT ![c].pc = pc][c].n = client[c].n
           /\ \A pc : \A d \in Clients \ {c} :
                 [client EXCEPT ![c].pc = pc][d] = client[d]
BY DEF TypeInv, TypeOK

\* Return ends the call of one client, and leaves the others alone.
LEMMA ReturnReturns ==
    ASSUME TypeInv, NEW c \in Clients, client[c].pc \in Returnable,
           NEW how \in Verdicts \cup {"sent", "closed", "timeout", "unawaited"},
           Return(c, how)
    PROVE  Returns(c) /\ \A d \in Clients \ {c} : client'[d] = client[d]
<1>1. client \in [Clients -> [pc: ClientStates, n: Nat]]
  BY DEF TypeInv, TypeOK
<1>2. result' = result \cup {[frame |-> Frame(c), got |-> how]}
  BY DEF Return
<1>3. CASE Call(c) = "close"
  <2>1. client' = [client EXCEPT ![c] = [@ EXCEPT !.pc = "signalling"]]
    BY <1>3 DEF Return
  <2> QED
    BY <1>1, <1>2, <1>3, <2>1 DEF Returns
<1>4. CASE Call(c) # "close" /\ client[c].n = Len(program[c])
  <2>1. client' = [client EXCEPT ![c] = Gone]
    BY <1>4 DEF Return
  <2> QED
    BY <1>1, <1>2, <1>4, <2>1 DEF Returns
<1>5. CASE Call(c) # "close" /\ client[c].n # Len(program[c])
  <2>1. client' = [client EXCEPT ![c] = Ready(client[c].n + 1)]
    BY <1>5 DEF Return
  <2>2. /\ client'[c].pc = "ready" /\ client'[c].n = client[c].n + 1
        /\ \A d \in Clients \ {c} : client'[d] = client[d]
    BY <1>1, <2>1 DEF Ready
  <2> QED
    BY <1>2, <1>5, <2>2 DEF Returns
<1> QED
  BY <1>3, <1>4, <1>5

\* What a client does to itself, and that it does it to no other.
LEMMA ClientMoves ==
    ASSUME TypeInv, NEW c \in Clients, Client(c)
    PROVE  /\ client[c].pc # "gone"
           /\ UNCHANGED <<program, io, brokerVars, losses, outcome>>
           /\ receipts \ {Frame(c)} \subseteq receipts'
           /\ \A d \in Clients \ {c} : client'[d] = client[d]
           /\ \/ Register(c) /\ Turns(c, "ready", "submitting")
              \/ /\ Submit(c) /\ Call(c) \in Receipted
                 /\ Turns(c, "submitting", "waiting")
              \/ /\ SubmitFails(c) /\ Call(c) \in Receipted
                 /\ Turns(c, "submitting", "refused")
              \/ Expire(c) /\ Turns(c, "waiting", "expired")
              \/ /\ \/ Settled(c) \/ Deregister(c) \/ DropHandle(c)
                    \/ /\ Submit(c) \/ SubmitFails(c)
                       /\ Call(c) = "send_frame"
                 /\ Returns(c)
              \/ (DropClone(c) \/ Signal(c)) /\ Leaves(c)
<1>1. /\ client[c].pc # "gone"
      /\ UNCHANGED <<program, io, brokerVars, losses, outcome>>
      /\ receipts \ {Frame(c)} \subseteq receipts'
  BY DEF Client, Proceed, Register, DropClone, Submit, SubmitFails, Settled,
         Expire, Deregister, DropHandle, Signal
<1>2. Call(c) = "send_frame" \/ Call(c) \in Receipted
  BY <1>1, CurrentFrame DEF Calls
<1>3. CASE Register(c)
  BY <1>1, <1>3, ClientOf DEF Register, Turns
<1>4. CASE Submit(c)
  <2>1. CASE Call(c) = "send_frame"
    BY <1>1, <1>4, <2>1, ReturnReturns DEF Submit, Returnable
  <2>2. CASE Call(c) # "send_frame"
    <3>1. /\ client' = [client EXCEPT ![c].pc = "waiting"]
          /\ client[c].pc = "submitting" /\ result' = result
      BY <1>4, <2>2 DEF Submit
    <3>2. Turns(c, "submitting", "waiting")
      BY <3>1, ClientOf DEF Turns
    <3>3. \A d \in Clients \ {c} : client'[d] = client[d]
      BY <3>1, ClientOf
    <3> QED
      BY <1>1, <1>2, <1>4, <2>2, <3>2, <3>3
  <2> QED
    BY <2>1, <2>2
<1>5. CASE SubmitFails(c)
  <2>1. CASE Call(c) = "send_frame"
    BY <1>1, <1>5, <2>1, ReturnReturns DEF SubmitFails, Returnable
  <2>2. CASE Call(c) # "send_frame"
    <3>1. /\ client' = [client EXCEPT ![c].pc = "refused"]
          /\ client[c].pc = "submitting" /\ result' = result
      BY <1>5, <2>2 DEF SubmitFails
    <3>2. Turns(c, "submitting", "refused")
      BY <3>1, ClientOf DEF Turns
    <3>3. \A d \in Clients \ {c} : client'[d] = client[d]
      BY <3>1, ClientOf
    <3> QED
      BY <1>1, <1>2, <1>5, <2>2, <3>2, <3>3
  <2> QED
    BY <2>1, <2>2
<1>6. CASE Settled(c) \/ Deregister(c) \/ DropHandle(c)
  <2>1. client[c].pc \in Returnable
    BY <1>6 DEF Settled, Deregister, DropHandle, Returnable
  <2>2. PICK how \in Verdicts \cup {"sent", "closed", "timeout", "unawaited"} :
           Return(c, how)
    BY <1>6 DEF Settled, Deregister, DropHandle
  <2>3. Returns(c) /\ \A d \in Clients \ {c} : client'[d] = client[d]
    BY <2>1, <2>2, ReturnReturns
  <2> QED
    BY <1>1, <1>6, <2>3
<1>7. CASE Expire(c)
  BY <1>1, <1>7, ClientOf DEF Expire, Turns
<1>8. CASE DropClone(c) \/ Signal(c)
  BY <1>1, <1>8, ClientOf DEF DropClone, Signal, Leaves
<1> QED
  BY <1>3, <1>4, <1>5, <1>6, <1>7, <1>8 DEF Client, Proceed

\* What has returned has returned for good, and so has what returns.
LEMMA PastStays ==
    ASSUME TypeInv, NEW c \in Clients, Client(c)
    PROVE  /\ \A f \in Frames : Past(f) => Past(f)'
           /\ Returns(c) => \A f \in Frames : f = Frame(c) => Past(f)'
<1>1. ASSUME NEW f \in Frames, Past(f) PROVE Past(f)'
  <2>1. f[1] \in Clients /\ f[2] \in Nat
    BY FrameForm, ProgramType DEF TypeInv
  <2>2. CASE f[1] # c
    <3>1. client'[f[1]] = client[f[1]]
      BY <2>1, <2>2, ClientMoves
    <3> QED
      BY <1>1, <3>1 DEF Past
  <2>3. CASE f[1] = c
    <3>1. client[c].n \in Nat
      BY ClientOf
    <3>2. client[c].pc # "gone"
      BY ClientMoves
    <3>3. \/ f[2] < client[c].n
          \/ client[c].pc = "signalling" /\ f[2] = client[c].n
      BY <1>1, <2>3, <3>2 DEF Past
    <3>4. \/ client'[c] = Gone
          \/ /\ client[c].pc # "signalling"
             /\ client'[c].n \in {client[c].n, client[c].n + 1}
      BY ClientMoves DEF Turns, Returns, Leaves, Returnable
    <3>5. Gone.pc = "gone"
      BY DEF Gone
    <3> QED
      BY <2>1, <2>3, <3>1, <3>3, <3>4, <3>5 DEF Past
  <2> QED
    BY <2>2, <2>3
<1>2. ASSUME Returns(c), NEW f \in Frames, f = Frame(c) PROVE Past(f)'
  <2>1. f[1] = c /\ f[2] = client[c].n /\ client[c].n \in Nat
    BY <1>2, ClientOf DEF Frame
  <2>2. \/ client'[c].pc = "signalling" /\ client'[c].n = client[c].n
        \/ client'[c].pc = "gone"
        \/ client'[c].n = client[c].n + 1
    BY <1>2 DEF Returns, Gone
  <2> QED
    BY <2>1, <2>2 DEF Past
<1> QED
  BY <1>1, <1>2

\* A call returns a verdict from its waiter's hands, or something else of its
\* own, no waiter of its being left.
LEMMA NewResult ==
    ASSUME CallInv, NEW c \in Clients, Client(c), NEW r \in result',
           r \notin result
    PROVE  /\ r.frame = Frame(c) /\ Returns(c)
           /\ \/ r \in outcome /\ receipts' = receipts
              \/ r.got \notin Verdicts /\ Frame(c) \notin receipts'
              \/ r.got = "unawaited"
<1>0. TypeInv /\ receipts \subseteq Awaited
  BY DEF CallInv, Waiters
<1>1. Returns(c) /\ r.frame = Frame(c)
  <2>1. Returns(c)
    BY <1>0, ClientMoves DEF Turns, Leaves
  <2> QED
    BY <2>1 DEF Returns
<1>2. client[c].pc # "gone" /\ CallOf(Frame(c)) = Call(c)
  BY <1>0, ClientMoves, CurrentFrame
<1>3. CASE Settled(c)
  BY <1>1, <1>3 DEF Settled, Return
<1>4. CASE Deregister(c)
  BY <1>1, <1>4 DEF Deregister, Return, Verdicts
<1>5. CASE DropHandle(c)
  BY <1>1, <1>5 DEF DropHandle, Return
<1>6. CASE (Submit(c) \/ SubmitFails(c)) /\ Call(c) = "send_frame"
  <2>1. Frame(c) \notin Awaited
    BY <1>2, <1>6 DEF Awaited, Receipted
  <2>2. receipts' = receipts /\ r.got \notin Verdicts
    BY <1>6 DEF Submit, SubmitFails, Return, Verdicts
  <2> QED
    BY <1>0, <1>1, <2>1, <2>2
<1> QED
  BY <1>0, <1>1, <1>3, <1>4, <1>5, <1>6, ClientMoves DEF Turns, Leaves

\* CallInv under the steps of the clients.
LEMMA ClientCalls ==
    ASSUME CallInv, NEW c \in Clients, Client(c)
    PROVE  CallInv'
<1>0. /\ TypeInv /\ ResultsPast /\ AcceptedStarted /\ OnlyAccepted
      /\ CallStates /\ WaiterThere /\ Waiters
      /\ NoWaiterLeft /\ VerdictIsTheBrokers
      /\ Range(answers) \subseteq reached
  BY DEF CallInv
<1>1. TypeInv'
  BY <1>0, ClientType
<1>2. /\ client[c].pc # "gone"
      /\ UNCHANGED <<program, io, brokerVars, losses, outcome>>
      /\ receipts \ {Frame(c)} \subseteq receipts'
      /\ \A d \in Clients \ {c} : client'[d] = client[d]
  BY <1>0, ClientMoves
<1>3. /\ Frames' = Frames /\ Awaited' = Awaited
      /\ Frame(c) \in Frames /\ CallOf(Frame(c)) = Call(c)
      /\ Frame(c)[1] = c /\ Frame(c)[2] = client[c].n
      /\ Call(c) \in Calls
  BY <1>0, <1>2, FramesKept, CurrentFrame
<1>4. \A d \in Clients \ {c} : Frame(d)' = Frame(d) /\ Call(d)' = Call(d)
  BY <1>2 DEF Frame, Call
<1>5. client'[c].n = client[c].n => Frame(c)' = Frame(c) /\ Call(c)' = Call(c)
  BY <1>2 DEF Frame, Call
<1>6. result \subseteq result'
  BY <1>0, ClientMoves DEF Turns, Leaves, Returns
<1>7. \A r \in result : r.frame \in Frames
  BY <1>0 DEF TypeInv, TypeOK, Results
<1>8. client[c].pc = "ready" =>
          ~Past(Frame(c)) /\ ~Current(Frame(c), {"waiting", "expired"})
  <2>1. client[c].n \in Nat
    BY <1>0, ClientOf
  <2> QED
    BY <1>3, <2>1 DEF Past, Current
<1>11. ResultsPast'
  <2>1. ASSUME NEW r \in result' PROVE Past(r.frame)'
    <3>1. CASE r \in result
      BY <1>0, <1>7, <3>1, PastStays DEF ResultsPast
    <3>2. CASE r \notin result
      BY <1>0, <1>3, <3>2, NewResult, PastStays
    <3> QED
      BY <3>1, <3>2
  <2> QED
    BY <2>1 DEF ResultsPast
<1>12. AcceptedStarted'
  <2> SUFFICES ASSUME NEW f \in accepted'
               PROVE  Past(f)' \/ Current(f, {"waiting", "expired"})'
    BY DEF AcceptedStarted
  <2>0. f \in Frames
    BY <1>1, <1>3 DEF TypeInv, TypeOK
  <2>1. CASE f = Frame(c)
    <3>0. /\ f \in accepted => client[c].pc # "ready"
          /\ Submit(c) \/ accepted' = accepted
      BY <1>0, <1>8, <2>1 DEF AcceptedStarted, Client, Proceed, Register,
         DropClone, SubmitFails, Settled, Expire, Deregister, DropHandle,
         Signal
    <3>1. CASE Returns(c)
      BY <1>0, <2>0, <2>1, <3>1, PastStays
    <3>2. CASE Turns(c, "submitting", "waiting") \/ Turns(c, "waiting", "expired")
      BY <1>3, <2>1, <3>2 DEF Turns, Current
    <3>3. CASE Past(f)
      BY <1>0, <2>0, <3>3, PastStays
    <3>4. CASE ~Past(f) /\ ~Submit(c)
      <4>1. client[c].pc \in {"waiting", "expired"}
        BY <1>0, <1>3, <2>1, <3>0, <3>4 DEF AcceptedStarted, Current
      <4>2. Returns(c) \/ Turns(c, "waiting", "expired")
        BY <1>0, <3>4, <4>1, ClientMoves DEF Turns, Leaves
      <4> QED
        BY <3>1, <3>2, <4>2
    <3>5. Submit(c) => Returns(c) \/ Turns(c, "submitting", "waiting")
      BY <1>0, ClientMoves DEF Turns, Leaves, Submit, SubmitFails
    <3> QED
      BY <3>1, <3>2, <3>3, <3>4, <3>5
  <2>2. CASE f # Frame(c)
    <3>1. f \in accepted
      BY <2>2 DEF Client, Proceed, Register, DropClone, Submit, SubmitFails,
         Settled, Expire, Deregister, DropHandle, Signal
    <3>2. CASE Past(f)
      BY <1>0, <2>0, <3>2, PastStays
    <3>3. CASE ~Past(f)
      <4>1. Current(f, {"waiting", "expired"})
        BY <1>0, <3>1, <3>3 DEF AcceptedStarted
      <4>2. f[1] # c
        <5>1. f = <<f[1], f[2]>>
          BY <1>0, <2>0, FrameForm DEF TypeInv
        <5> QED
          BY <2>2, <4>1, <5>1 DEF Current, Frame
      <4>3. f[1] \in Clients
        BY <1>0, <2>0, FrameForm DEF TypeInv
      <4> QED
        BY <1>2, <4>1, <4>2, <4>3 DEF Current
    <3> QED
      BY <3>2, <3>3
  <2> QED
    BY <2>1, <2>2
<1>13. OnlyAccepted'
  <2>1. \A f : InHand' = InHand /\ wire' = wire /\ Done(f)' = Done(f)
    BY <1>2 DEF InHand, brokerVars, Done, Answered
  <2>2. CASE Submit(c)
    <3>1. Range(outbound)' = Range(outbound) \cup {Frame(c)}
      BY <1>0, <1>3, <2>2, RangeOfAppend DEF Submit, Enqueue, TypeInv, TypeOK
    <3>2. accepted' = accepted \cup {Frame(c)}
      BY <2>2 DEF Submit
    <3> QED
      BY <1>0, <1>3, <2>1, <3>1, <3>2 DEF OnlyAccepted
  <2>3. CASE ~Submit(c)
    <3>1. UNCHANGED <<outbound, accepted>>
      BY <2>3 DEF Client, Proceed, Register, DropClone, SubmitFails,
         Settled, Expire, Deregister, DropHandle, Signal
    <3> QED
      BY <1>0, <1>3, <2>1, <3>1 DEF OnlyAccepted
  <2> QED
    BY <2>2, <2>3
<1>14. CallStates'
  <2> SUFFICES ASSUME NEW d \in Clients
               PROVE  /\ client'[d].pc \in {"refused", "waiting", "expired"} =>
                            Call(d)' \in Receipted
                      /\ client'[d].pc = "signalling" =>
                            /\ Call(d)' = "close"
                            /\ \E r \in result' : r.frame = Frame(d)'
    BY DEF CallStates
  <2>1. CASE d # c
    BY <1>0, <1>2, <1>4, <1>6, <2>1 DEF CallStates
  <2>2. CASE d = c /\ Returns(c)
    <3>1. \E r \in result' : r.frame = Frame(c)
      <4>1. PICK how : result' = result \cup {[frame |-> Frame(c), got |-> how]}
        BY <2>2 DEF Returns
      <4>2. [frame |-> Frame(c), got |-> how].frame = Frame(c)
        OBVIOUS
      <4> QED
        BY <4>1, <4>2
    <3>2. /\ client'[c].pc \in {"signalling", "gone", "ready"}
          /\ client'[c].pc = "signalling" =>
                Call(c) = "close" /\ client'[c].n = client[c].n
      BY <2>2 DEF Returns, Gone
    <3> QED
      BY <1>5, <2>2, <3>1, <3>2
  <2>3. CASE d = c /\ ~Returns(c)
    <3>1. \/ Turns(c, "ready", "submitting")
          \/ Call(c) \in Receipted /\ Turns(c, "submitting", "waiting")
          \/ Call(c) \in Receipted /\ Turns(c, "submitting", "refused")
          \/ Turns(c, "waiting", "expired")
          \/ Leaves(c)
      BY <1>0, <2>3, ClientMoves
    <3>2. client[c].pc = "waiting" => Call(c) \in Receipted
      BY <1>0 DEF CallStates
    <3> QED
      BY <1>5, <2>3, <3>1, <3>2 DEF Turns, Leaves, Gone
  <2> QED
    BY <2>1, <2>2, <2>3
<1>15. WaiterThere'
  <2> SUFFICES ASSUME NEW d \in Clients,
                      client'[d].pc \in {"submitting", "waiting"},
                      Call(d)' \in Receipted
               PROVE  \/ Frame(d)' \in receipts'
                      \/ \E a \in outcome : a.frame = Frame(d)'
    BY <1>2 DEF WaiterThere
  <2>1. CASE d # c
    <3>1. Frame(d) # Frame(c)
      BY <2>1 DEF Frame
    <3> QED
      BY <1>0, <1>2, <1>4, <2>1, <3>1 DEF WaiterThere
  <2>2. CASE d = c
    <3>1. ~Returns(c) /\ ~Leaves(c)
      BY <2>2 DEF Returns, Leaves, Gone
    <3>2. CASE Register(c) /\ Turns(c, "ready", "submitting")
      <4>1. Frame(c) \in Awaited
        BY <1>3, <1>5, <2>2, <3>2 DEF Awaited, Turns
      <4>2. Frame(c) \in receipts'
        BY <3>2, <4>1 DEF Register
      <4> QED
        BY <1>5, <2>2, <3>2, <4>2 DEF Turns
    <3>3. CASE Submit(c) /\ Turns(c, "submitting", "waiting")
      BY <1>0, <1>5, <2>2, <3>3 DEF WaiterThere, Turns, Submit
    <3> QED
      BY <1>0, <2>2, <3>1, <3>2, <3>3, ClientMoves DEF Turns
  <2> QED
    BY <2>1, <2>2
<1>16. Waiters' /\ receipts' \subseteq receipts \cup {Frame(c)}
       /\ (client[c].pc # "ready" => receipts' \subseteq receipts)
  <2>1. /\ receipts' \subseteq receipts \cup ({Frame(c)} \cap Awaited)
        /\ client[c].pc # "ready" => receipts' \subseteq receipts
    BY DEF Client, Proceed, Register, DropClone, Submit, SubmitFails,
       Settled, Expire, Deregister, DropHandle, Signal
  <2>2. receipts' \subseteq Awaited'
    BY <1>0, <1>3, <2>1 DEF Waiters
  <2>3. ASSUME NEW a \in outcome
        PROVE  a \in reached /\ a.frame \notin receipts'
    <3>1. a \in reached /\ a.frame \notin receipts
      BY <1>0 DEF Waiters
    <3>2. a.frame \in accepted
      <4>1. a.frame \in Frames
        BY <1>0 DEF TypeInv, TypeOK, Answers
      <4> QED
        BY <1>0, <3>1, <4>1 DEF OnlyAccepted, Done, Answered
    <3>3. client[c].pc = "ready" => a.frame # Frame(c)
      BY <1>0, <1>8, <3>2 DEF AcceptedStarted
    <3> QED
      BY <2>1, <3>1, <3>3
  <2>4. outcome' = outcome /\ reached' = reached
    BY <1>2 DEF brokerVars
  <2>5. Waiters'
    BY <2>2, <2>3, <2>4 DEF Waiters
  <2> QED
    BY <2>1, <2>5
<1>17. NoWaiterLeft'
  <2> SUFFICES ASSUME NEW r \in result', r.got # "unawaited"
               PROVE  r.frame \notin receipts'
    BY DEF NoWaiterLeft
  <2>1. CASE r \in result
    <3>1. r.frame \notin receipts /\ Past(r.frame)
      BY <1>0, <2>1 DEF NoWaiterLeft, ResultsPast
    <3>2. client[c].pc = "ready" => r.frame # Frame(c)
      BY <1>8, <3>1
    <3> QED
      BY <1>16, <3>1, <3>2
  <2>2. CASE r \notin result
    <3>1. r \in outcome => r.frame \notin receipts
      BY <1>0 DEF Waiters
    <3> QED
      BY <2>2, <3>1, NewResult
  <2> QED
    BY <2>1, <2>2
<1>18. VerdictIsTheBrokers'
  <2> SUFFICES ASSUME NEW r \in result', r.got \in Verdicts
               PROVE  r \in reached'
    BY DEF VerdictIsTheBrokers
  <2>1. reached' = reached
    BY <1>2 DEF brokerVars
  <2>2. CASE r \in result
    BY <1>0, <2>1, <2>2 DEF VerdictIsTheBrokers
  <2>3. CASE r \notin result
    <3>1. r \in outcome
      BY <2>3, NewResult DEF Verdicts
    <3> QED
      BY <1>0, <2>1, <3>1 DEF Waiters
  <2> QED
    BY <2>2, <2>3
<1>19. (Range(answers) \subseteq reached)'
  BY <1>0, <1>2 DEF brokerVars
<1> QED
  BY <1>1, <1>11, <1>12, <1>13, <1>14, <1>15, <1>16, <1>17, <1>18, <1>19
     DEF CallInv

\* A frame goes from the outbound channel to the task's hand, from there to
\* the wire, and from there to the broker, or down with the connection.
Quiet == Check \/ BackoffEnds \/ AfterConnection \/ Connect \/ AttemptFails
         \/ TakeShutdown \/ OutboundClosed

\* What the task and the broker do to what the clients share with them:
\* nothing, an exit, a connection, or one of the moves of a frame.
LEMMA TaskMoves ==
    ASSUME TypeInv, TaskOrBroker
    PROVE  /\ UNCHANGED <<appVars, accepted>>
           /\ \/ /\ Quiet /\ UNCHANGED <<receipts, outcome, outbound, brokerVars>>
                 /\ InHand' = {} /\ InHand = {}
              \/ /\ Exit /\ outbound' = <<>>
                 /\ UNCHANGED <<receipts, outcome, brokerVars>>
                 /\ InHand' = {} /\ InHand = {}
              \/ /\ Connected /\ wire' = <<>> /\ answers' = <<>>
                 /\ UNCHANGED <<receipts, outcome, outbound, reached, dropped,
                                unheard>>
                 /\ InHand' = {} /\ InHand = {}
              \/ /\ TakeOutbound /\ outbound # <<>>
                 /\ outbound' = Tail(outbound)
                 /\ UNCHANGED <<receipts, outcome, brokerVars>>
                 /\ InHand' = {Head(outbound)} /\ InHand = {}
              \/ /\ Write /\ wire' = Append(wire, io.frame)
                 /\ UNCHANGED <<receipts, outcome, outbound, answers, reached,
                                dropped, unheard>>
                 /\ InHand' = {} /\ InHand = {io.frame}
              \/ /\ Lose /\ wire' = <<>> /\ answers' = <<>>
                 /\ dropped' = dropped \cup Range(wire) \cup InHand
                 /\ unheard' = unheard \cup {a.frame : a \in Range(answers)}
                 /\ UNCHANGED <<receipts, outcome, outbound, reached>>
                 /\ InHand' = {}
              \/ /\ ReadAnswer /\ answers # <<>> /\ answers' = Tail(answers)
                 /\ UNCHANGED <<outbound, wire, reached, dropped, unheard>>
                 /\ InHand' = {} /\ InHand = {}
              \/ /\ \E v \in Verdicts : Process(v)
                 /\ wire # <<>> /\ wire' = Tail(wire)
                 /\ UNCHANGED <<receipts, outcome, outbound, dropped, unheard, io>>
                 /\ InHand' = InHand
<1>0. UNCHANGED <<appVars, accepted>>
  BY DEF TaskOrBroker, Step, Network, Arms, Check, BackoffEnds,
         AfterConnection, Exit, Connect, Connected, AttemptFails, Write, Lose,
         TakeShutdown, TakeOutbound, OutboundClosed, ReadAnswer, Process
<1>1. CASE Quiet
  <2>1. io.pc # "writing" /\ io'.pc # "writing"
    BY <1>1 DEF Quiet, Check, BackoffEnds, AfterConnection, Connect,
                AttemptFails, TakeShutdown, OutboundClosed, At
  <2>2. UNCHANGED <<receipts, outcome, outbound, brokerVars>>
    BY <1>1 DEF Quiet, Check, BackoffEnds, AfterConnection, Connect,
                AttemptFails, TakeShutdown, OutboundClosed
  <2> QED
    BY <1>0, <1>1, <2>1, <2>2 DEF InHand
<1>2. CASE Exit
  BY <1>0, <1>2 DEF Exit, InHand, At
<1>3. CASE Connected
  BY <1>0, <1>3 DEF Connected, InHand, At
<1>4. CASE TakeOutbound
  BY <1>0, <1>4 DEF TakeOutbound, InHand
<1>5. CASE Write
  BY <1>0, <1>5 DEF Write, InHand, At
<1>6. CASE Lose
  <2>1. /\ {wire[i] : i \in DOMAIN wire} = Range(wire)
        /\ {answers[i].frame : i \in DOMAIN answers} =
              {a.frame : a \in Range(answers)}
    BY DEF Range
  <2>2. InHand' = {}
    BY <1>6 DEF Lose, InHand, At
  <2> QED
    BY <1>0, <1>6, <2>1, <2>2 DEF Lose
<1>7. CASE ReadAnswer
  BY <1>0, <1>7 DEF ReadAnswer, InHand
<1>8. ASSUME NEW v \in Verdicts, Process(v)
      PROVE  /\ wire # <<>> /\ wire' = Tail(wire)
             /\ UNCHANGED <<receipts, outcome, outbound, dropped, unheard, io>>
             /\ InHand' = InHand
  BY <1>8 DEF Process, InHand
<1> QED
  BY <1>0, <1>1, <1>2, <1>3, <1>4, <1>5, <1>6, <1>7, <1>8
     DEF TaskOrBroker, Step, Network, Arms, Quiet

\* The broker gives a verdict on the frame it takes, and answers with it if
\* that is asked for.
LEMMA ProcessGives ==
    ASSUME TypeInv, NEW v \in Verdicts, Process(v)
    PROVE  \E a \in Answers :
              /\ a.frame = Head(wire) /\ Head(wire) \in Frames
              /\ reached' = reached \cup {a}
              /\ Range(answers) \subseteq Range(answers')
              /\ Range(answers') \subseteq Range(answers) \cup {a}
              /\ Head(wire) \in Awaited => a \in Range(answers')
<1>1. wire \in Seq(Frames) /\ wire # <<>> /\ answers \in Seq(Answers)
  BY DEF Process, TypeInv, TypeOK
<1>2. Head(wire) \in Frames
  BY <1>1, HeadTailProperties
<1> DEFINE a == [frame |-> Head(wire), got |-> v]
<1>3. a \in Answers /\ a.frame = Head(wire)
  BY <1>2 DEF Answers
<1>4. /\ reached' = reached \cup {a}
      /\ answers' = IF Head(wire) \in Awaited THEN Append(answers, a)
                    ELSE answers
  BY DEF Process
<1> HIDE DEF a
<1>5. Range(Append(answers, a)) = Range(answers) \cup {a}
  BY <1>1, <1>3, RangeOfAppend
<1> QED
  BY <1>2, <1>3, <1>4, <1>5

\* What is read is given to its waiter, if there still is one.
LEMMA ReadGives ==
    ASSUME TypeInv, ReadAnswer
    PROVE  \E a \in Answers :
              /\ Range(answers) = {a} \cup Range(answers')
              /\ receipts' = receipts \ {a.frame}
              /\ a.frame \in receipts => outcome' = outcome \cup {a}
              /\ a.frame \notin receipts => outcome' = outcome
<1>1. /\ answers \in Seq(Answers) /\ answers # <<>>
      /\ answers' = Tail(answers)
  BY DEF ReadAnswer, TypeInv, TypeOK
<1>2. Range(answers) = {Head(answers)} \cup Range(Tail(answers))
  BY <1>1, RangeOfTail
<1> QED
  BY <1>1, <1>2, ReadAnswerType

\* What the steps of the task and the broker do to where a frame is.
LEMMA FlowSets ==
    ASSUME TypeInv, TaskOrBroker
    PROVE  /\ Range(outbound') \subseteq Range(outbound)
           /\ InHand' \subseteq InHand \cup Range(outbound)
           /\ Range(wire') \subseteq Range(wire) \cup InHand
           /\ dropped' \subseteq dropped \cup Range(wire) \cup InHand
           /\ \A f : Answered(f)' => Answered(f) \/ f \in Range(wire)
<1>0. outbound \in Seq(Frames) /\ wire \in Seq(Frames)
  BY DEF TypeInv, TypeOK
<1>1. outbound # <<>> =>
          Range(outbound) = {Head(outbound)} \cup Range(Tail(outbound))
  BY <1>0, RangeOfTail
<1>2. wire # <<>> => Range(wire) = {Head(wire)} \cup Range(Tail(wire))
  BY <1>0, RangeOfTail
<1>3. Write => Range(Append(wire, io.frame)) = Range(wire) \cup {io.frame}
  BY <1>0, Holds, RangeOfAppend DEF Write, TypeInv
<1>4. Range(<<>>) = {}
  BY EmptyQueue
<1>5. CASE \E v \in Verdicts : Process(v)
  <2>1. PICK a \in Answers : a.frame = Head(wire) /\ reached' = reached \cup {a}
    BY <1>5, ProcessGives
  <2>2. /\ wire # <<>> /\ wire' = Tail(wire) /\ InHand' = InHand
        /\ UNCHANGED <<outbound, dropped>>
    BY <1>5, TaskMoves DEF Process, InHand
  <2>3. \A f : Answered(f)' => Answered(f) \/ f = Head(wire)
    BY <2>1 DEF Answered
  <2> QED
    BY <1>2, <2>2, <2>3
<1>6. CASE ~\E v \in Verdicts : Process(v)
  <2>1. reached' = reached
    BY <1>6, TaskMoves DEF brokerVars
  <2>2. \A f : Answered(f)' = Answered(f)
    BY <2>1 DEF Answered
  <2> QED
    BY <1>1, <1>3, <1>4, <1>6, <2>2, TaskMoves DEF brokerVars
<1> QED
  BY <1>5, <1>6

\* CallInv under the steps of the task and the broker.
LEMMA TaskCalls ==
    ASSUME CallInv, TaskOrBroker
    PROVE  CallInv'
<1>0. /\ TypeInv /\ ResultsPast /\ AcceptedStarted /\ OnlyAccepted
      /\ CallStates /\ WaiterThere /\ Waiters
      /\ NoWaiterLeft /\ VerdictIsTheBrokers
      /\ Range(answers) \subseteq reached
  BY DEF CallInv
<1>1. TypeInv'
  BY <1>0, TaskType
<1>2. UNCHANGED <<program, client, result, before, accepted>>
  BY <1>0, TaskMoves DEF appVars
<1>3. /\ Frames' = Frames /\ Awaited' = Awaited
      /\ \A f : Past(f)' = Past(f) /\ CallOf(f)' = CallOf(f)
      /\ \A c : Frame(c)' = Frame(c) /\ Call(c)' = Call(c)
  BY <1>2, FramesKept DEF Past, Frame, Call
<1>4. ResultsPast' /\ AcceptedStarted' /\ CallStates'
  BY <1>0, <1>2, <1>3 DEF ResultsPast, AcceptedStarted, CallStates, Current
<1>5. OnlyAccepted'
  <2> SUFFICES ASSUME NEW f \in Frames,
                      \/ f \in Range(outbound') \/ f \in InHand'
                      \/ f \in Range(wire') \/ Answered(f)' \/ f \in dropped'
               PROVE  f \in accepted
    BY <1>2, <1>3 DEF OnlyAccepted, Done
  <2>1. \/ f \in Range(outbound) \/ f \in InHand \/ f \in Range(wire)
        \/ Answered(f) \/ f \in dropped
    BY <1>0, FlowSets
  <2> QED
    BY <1>0, <2>1 DEF OnlyAccepted, Done
<1>6. reached \subseteq reached' /\ Range(answers') \subseteq reached'
  <2>1. CASE \E v \in Verdicts : Process(v)
    <3>1. PICK a \in Answers :
             /\ reached' = reached \cup {a}
             /\ Range(answers') \subseteq Range(answers) \cup {a}
      BY <1>0, <2>1, ProcessGives
    <3> QED
      BY <1>0, <3>1
  <2>2. CASE ReadAnswer
    BY <1>0, <2>2, ReadGives DEF ReadAnswer
  <2>3. CASE ~ReadAnswer /\ ~\E v \in Verdicts : Process(v)
    <3>1. reached' = reached /\ (answers' = answers \/ answers' = <<>>)
      BY <1>0, <2>3, TaskMoves DEF brokerVars
    <3> QED
      BY <1>0, <3>1, EmptyQueue
  <2> QED
    BY <2>1, <2>2, <2>3
<1>7. WaiterThere' /\ Waiters' /\ receipts' \subseteq receipts
  <2>1. CASE ReadAnswer
    <3>1. PICK a \in Answers :
             /\ a \in Range(answers)
             /\ receipts' = receipts \ {a.frame}
             /\ a.frame \in receipts => outcome' = outcome \cup {a}
             /\ a.frame \notin receipts => outcome' = outcome
      BY <1>0, <2>1, ReadGives
    <3>2. a \in reached
      BY <1>0, <3>1
    <3>3. Waiters'
      BY <1>0, <1>3, <1>6, <3>1, <3>2 DEF Waiters
    <3>4. WaiterThere'
      BY <1>0, <1>2, <1>3, <3>1 DEF WaiterThere
    <3> QED
      BY <3>1, <3>3, <3>4
  <2>2. CASE ~ReadAnswer
    <3>1. UNCHANGED <<receipts, outcome>>
      BY <1>0, <2>2, TaskMoves
    <3> QED
      BY <1>0, <1>2, <1>3, <1>6, <3>1 DEF WaiterThere, Waiters
  <2> QED
    BY <2>1, <2>2
<1>8. NoWaiterLeft' /\ VerdictIsTheBrokers'
  BY <1>0, <1>2, <1>6, <1>7 DEF NoWaiterLeft, VerdictIsTheBrokers
<1> QED
  BY <1>1, <1>4, <1>5, <1>6, <1>7, <1>8 DEF CallInv

LEMMA InitCalls == Init => CallInv
<1> SUFFICES ASSUME Init PROVE CallInv
  OBVIOUS
<1>1. Range(outbound) = {} /\ Range(wire) = {} /\ Range(answers) = {}
  BY EmptyQueue DEF Init
<1>2. /\ result = {} /\ accepted = {} /\ receipts = {} /\ outcome = {}
      /\ reached = {} /\ dropped = {} /\ io.pc = "check"
      /\ \A c \in Clients : client[c].pc \in {"gone", "ready"}
  BY DEF Init, Gone, Ready
<1>3. OnlyAccepted
  BY <1>1, <1>2 DEF OnlyAccepted, InHand, Done, Answered
<1>4. CallStates /\ WaiterThere
  BY <1>2 DEF CallStates, WaiterThere
<1>5. ResultsPast /\ AcceptedStarted /\ NoWaiterLeft /\ VerdictIsTheBrokers
  BY <1>2 DEF ResultsPast, AcceptedStarted, NoWaiterLeft, VerdictIsTheBrokers
<1> QED
  BY <1>1, <1>2, <1>3, <1>4, <1>5, InitType DEF CallInv, Waiters

\* CallInv is inductive.
LEMMA StepCalls == CallInv /\ [Next]_vars => CallInv'
<1>1. ASSUME CallInv, UNCHANGED vars PROVE CallInv'
  <2>1. TypeInv'
    BY <1>1, StepType DEF CallInv
  <2>2. UNCHANGED <<program, client, result, receipts, outcome, outbound, io,
                    wire, answers, accepted, reached, dropped>>
    BY <1>1 DEF vars, appVars, brokerVars
  <2>3. /\ Frames' = Frames /\ Awaited' = Awaited /\ InHand' = InHand
        /\ \A f : Past(f)' = Past(f) /\ Done(f)' = Done(f)
        /\ \A c : Frame(c)' = Frame(c) /\ Call(c)' = Call(c)
    BY <2>2, FramesKept DEF InHand, Past, Done, Answered, Frame, Call
  <2> QED
    BY <1>1, <2>1, <2>2, <2>3
       DEF CallInv, ResultsPast, AcceptedStarted, OnlyAccepted, CallStates,
           WaiterThere, Waiters, NoWaiterLeft, VerdictIsTheBrokers, Current
<1> QED
  BY <1>1, ClientCalls, TaskCalls DEF Next, TaskOrBroker

\* CallInv is invariant.
LEMMA CallsHold == Spec => []CallInv
BY InitCalls, StepCalls, PTL DEF Spec

\* A call is told the broker's verdict on its own frame, and no other,
\* whatever was asked for, answered, timed out or lost around it.
THEOREM VerdictsAreReal == Spec => []VerdictIsTheBrokers
<1>1. CallInv => VerdictIsTheBrokers
  BY DEF CallInv
<1> QED
  BY <1>1, CallsHold, PTL

\* A call that returned leaves no waiter behind, however it ended: answered,
\* refused by a closed channel, or timed out in a race with its answer.
THEOREM WaitersRemoved == Spec => []NoWaiterLeft
<1>1. CallInv => NoWaiterLeft
  BY DEF CallInv
<1> QED
  BY <1>1, CallsHold, PTL

----------------------------------------------------------------------------
(* The end of the task.  A signal that was sent stays to be seen: nothing   *)
(* but the end of the task makes it unseen.                                 *)

SignalKept ==
    /\ signal # "none" => Signalled
    /\ Signalled => signal # "none" \/ Exited

EndInv == CallInv /\ SignalKept /\ EndsOnlyIfAsked

\* A client that has closed is at the end of its program: only Signal takes it
\* there.
LEMMA ClosedIsPast ==
    ASSUME CallInv, NEW c \in Clients, NEW r \in result,
           r.frame[1] = c, CallOf(r.frame) = "close"
    PROVE  client[c].pc \in {"gone", "signalling"}
<1>1. TypeInv /\ Past(r.frame) /\ r.frame \in Frames
  BY DEF CallInv, ResultsPast, TypeInv, TypeOK, Results
<1>2. r.frame[2] \in 1..Len(program[c]) /\ program[c][r.frame[2]] = "close"
  BY <1>1, FrameForm DEF CallOf, TypeInv
<1>3. r.frame[2] = Len(program[c]) /\ Len(program[c]) \in Nat
  BY <1>1, <1>2, ProgramType DEF TypeInv
<1>4. client[c].pc # "gone" => client[c].n \in 1..Len(program[c])
  BY <1>1 DEF TypeInv, InCall
<1> QED
  BY <1>1, <1>3, <1>4 DEF Past

\* A client signals the end by close() or by dropping the last handle.
LEMMA ClientSignals ==
    ASSUME CallInv, NEW c \in Clients, Client(c)
    PROVE  /\ Signalled => Signalled'
           /\ Signalled' => Signalled \/ Signal(c)
           /\ Signal(c) => Signalled'
           /\ ~Signal(c) => signal' = signal
<1>0. TypeInv /\ CallStates
  BY DEF CallInv
<1>1. /\ client[c].pc # "gone" /\ program' = program
      /\ \A d \in Clients \ {c} : client'[d] = client[d]
      /\ result \subseteq result'
  BY <1>0, ClientMoves DEF Turns, Leaves, Returns
<1>2. /\ \A f : CallOf(f)' = CallOf(f)
      /\ CallOf(Frame(c)) = Call(c) /\ Frame(c)[1] = c
  BY <1>0, <1>1, FramesKept, CurrentFrame
<1>3. Signalled => Signalled'
  BY <1>1, <1>2 DEF Signalled, HasClosed
<1>4. ASSUME NEW d \in Clients, HasClosed(d)', ~Signal(c)
      PROVE  HasClosed(d)
  <2>1. PICK r \in result' : r.frame[1] = d /\ CallOf(r.frame) = "close"
    BY <1>2, <1>4 DEF HasClosed
  <2>2. client'[d].pc = "gone"
    BY <1>4 DEF HasClosed
  <2>3. CASE d # c
    <3>1. r \in result
      BY <1>2, <2>1, <2>3, NewResult
    <3> QED
      BY <1>1, <2>1, <2>2, <2>3, <3>1 DEF HasClosed
  <2>4. CASE d = c
    <3>1. /\ client[c].pc \in Returnable \cup {"ready"}
          /\ Returns(c) => Call(c) # "close"
      BY <1>0, <1>4, <2>2, <2>4, ClientMoves
         DEF Turns, Returns, DropClone, Returnable, Gone
    <3>2. CASE r \in result
      BY <2>1, <2>4, <3>1, <3>2, ClosedIsPast DEF Returnable
    <3>3. CASE r \notin result
      BY <1>2, <2>1, <2>4, <3>1, <3>3, NewResult
    <3> QED
      BY <3>2, <3>3
  <2> QED
    BY <2>3, <2>4
<1>5. ASSUME Signal(c) PROVE Signalled'
  <2>1. PICK r \in result : r.frame = Frame(c)
    BY <1>0, <1>5 DEF CallStates, Signal
  <2>2. Call(c) = "close"
    BY <1>0, <1>5 DEF CallStates, Signal
  <2>3. client'[c].pc = "gone"
    BY <1>0, <1>5, ClientOf DEF Signal, Gone
  <2>4. HasClosed(c)'
    BY <1>1, <1>2, <2>1, <2>2, <2>3 DEF HasClosed
  <2> QED
    BY <2>4 DEF Signalled
<1>6. ~Signal(c) => signal' = signal
  BY DEF Client, Proceed, Register, DropClone, Submit, SubmitFails,
         Settled, Expire, Deregister, DropHandle
<1> QED
  BY <1>3, <1>4, <1>5, <1>6 DEF Signalled

\* The task ends only on a signal, and never takes it back.
LEMMA TaskSignals ==
    ASSUME CallInv, TaskOrBroker
    PROVE  /\ Signalled' = Signalled /\ Handles' = Handles
           /\ (signal' = "none") = (signal = "none")
           /\ io.pc = "exited" => io'.pc = "exited"
           /\ io'.pc = "exited" => io.pc \in {"ending", "exited"}
           /\ io'.pc = "ending" =>
                 io.pc = "ending" \/ signal # "none" \/ Handles = {}
           /\ io'.pc = "connecting" =>
                 io.pc = "connecting" \/ (io.pc = "check" /\ signal = "none")
<1>0. UNCHANGED <<program, client, result>>
  BY TaskMoves DEF appVars, CallInv
<1>1. Signalled' = Signalled /\ Handles' = Handles
  BY <1>0, FramesKept DEF Signalled, HasClosed, Handles
<1>2. (signal' = "none") = (signal = "none")
  BY DEF TaskOrBroker, Step, Network, Arms, Check, BackoffEnds,
         AfterConnection, Exit, Connect, Connected, AttemptFails, Write, Lose,
         TakeShutdown, TakeOutbound, OutboundClosed, ReadAnswer, Process
<1>3. CASE \E v \in Verdicts : Process(v)
  BY <1>1, <1>2, <1>3 DEF Process
<1>4. CASE Step
  BY <1>1, <1>2, <1>4 DEF Step, Check, BackoffEnds, AfterConnection, Exit, At,
                          ShutdownReady
<1>5. CASE Network
  BY <1>1, <1>2, <1>5 DEF Network, Connect, Connected, AttemptFails, Write,
                          Lose, At
<1>6. CASE Arms /\ ~ReadAnswer
  BY <1>1, <1>2, <1>6 DEF Arms, TakeShutdown, TakeOutbound, OutboundClosed, At,
                          ShutdownReady
<1>7. CASE ReadAnswer
  BY <1>1, <1>2, <1>7 DEF ReadAnswer
<1> QED
  BY <1>3, <1>4, <1>5, <1>6, <1>7 DEF TaskOrBroker

\* EndInv is inductive.
LEMMA StepEnd == EndInv /\ [Next]_vars => EndInv'
<1> SUFFICES ASSUME EndInv, [Next]_vars PROVE EndInv'
  OBVIOUS
<1>0. CallInv /\ SignalKept /\ EndsOnlyIfAsked /\ CallInv'
  BY StepCalls DEF EndInv
<1>1. ASSUME NEW c \in Clients, Client(c) PROVE EndInv'
  <2>1. io' = io /\ c \in Handles
    BY <1>0, <1>1, ClientMoves DEF CallInv, Handles
  <2>2. Signal(c) => signal' # "none" \/ Exited
    BY DEF Signal
  <2>3. Signal(c) => Signalled'
    BY <1>0, <1>1, ClientSignals
  <2>4. SignalKept'
    BY <1>0, <1>1, <2>1, <2>2, <2>3, ClientSignals DEF SignalKept, Exited
  <2>5. EndsOnlyIfAsked'
    BY <1>0, <1>1, <2>1, ClientSignals DEF EndsOnlyIfAsked
  <2> QED
    BY <1>0, <2>4, <2>5 DEF EndInv
<1>2. CASE TaskOrBroker
  <2>1. SignalKept'
    BY <1>0, <1>2, TaskSignals DEF SignalKept, Exited
  <2>2. EndsOnlyIfAsked'
    BY <1>0, <1>2, TaskSignals DEF EndsOnlyIfAsked, SignalKept
  <2> QED
    BY <1>0, <2>1, <2>2 DEF EndInv
<1>3. CASE UNCHANGED vars
  BY <1>0, <1>3, FramesKept
     DEF vars, appVars, EndInv, SignalKept, EndsOnlyIfAsked, Signalled,
         HasClosed, Handles, Exited
<1> QED
  BY <1>1, <1>2, <1>3 DEF Next, TaskOrBroker

\* EndInv is invariant.
LEMMA EndsHold == Spec => []EndInv
<1>1. Init => EndInv
  <2> SUFFICES ASSUME Init PROVE EndInv
    OBVIOUS
  <2>1. ~Signalled /\ signal = "none" /\ io.pc = "check"
    BY DEF Init, Signalled, HasClosed
  <2> QED
    BY <2>1, InitCalls DEF EndInv, SignalKept, EndsOnlyIfAsked
<1> QED
  BY <1>1, StepEnd, PTL DEF Spec

\* The background task ends only if a close() has signalled or every handle is
\* gone: no failure of a connection, or of an attempt at one, ends it.
THEOREM EndsWhenAsked == Spec => []EndsOnlyIfAsked
<1>1. EndInv => EndsOnlyIfAsked
  BY DEF EndInv
<1> QED
  BY <1>1, EndsHold, PTL

\* Once close() has signalled, the task does not begin another connection,
\* wherever it was when the signal came and however many signals it missed.
THEOREM ClosedStaysClosed == Spec => NoConnectAfterClose
<1>1. ASSUME EndInv, [Next]_vars
      PROVE  [Signalled /\ io.pc # "connecting" => io'.pc # "connecting"]_vars
  <2> SUFFICES ASSUME Next, Signalled, io.pc # "connecting",
                      io'.pc = "connecting"
               PROVE  FALSE
    BY <1>1
  <2>0. CallInv /\ SignalKept
    BY <1>1 DEF EndInv
  <2>1. ASSUME NEW c \in Clients, Client(c) PROVE FALSE
    BY <2>0, <2>1, ClientMoves DEF CallInv
  <2>2. CASE TaskOrBroker
    <3>1. io.pc = "check" /\ signal = "none"
      BY <2>0, <2>2, TaskSignals
    <3> QED
      BY <2>0, <3>1 DEF SignalKept, Exited
  <2> QED
    BY <2>1, <2>2 DEF Next, TaskOrBroker
<1> QED
  BY <1>1, EndsHold, PTL DEF Spec, NoConnectAfterClose

----------------------------------------------------------------------------
(* The way of a frame.  It is at one place at a time, it is not passed by a  *)
(* later one, and until the task ends it is nowhere else.                   *)

\* A connection that is not there carries nothing, unless nobody is left to
\* make another.
Severed ==
    /\ io.pc \in {"check", "backoff", "lost"} =>
          Handles = {} \/ (wire = <<>> /\ answers = <<>>)
    /\ io.pc \in {"connecting", "handshake"} => wire = <<>> /\ answers = <<>>

Located ==
    ~Exited => \A f \in accepted :
        f \in Range(outbound) \/ f \in InHand \/ f \in Range(wire) \/ Done(f)

Once ==
    /\ IsInjective(outbound) /\ IsInjective(wire)
    /\ \A f \in Frames :
          /\ f \in Range(outbound) =>
                f \notin InHand /\ f \notin Range(wire) /\ ~Answered(f)
          /\ f \in InHand => f \notin Range(wire) /\ ~Answered(f)
          /\ f \in Range(wire) => ~Answered(f)

\* g, which was accepted before the DISCONNECT f was begun, is ahead of it.
InOrder(g, f) ==
    /\ Answered(f) => Done(g)
    /\ f \in Range(wire) => Done(g) \/ Ahead(g, f, wire)
    /\ f \in InHand => Done(g) \/ g \in Range(wire)
    /\ f \in Range(outbound) =>
          \/ Done(g) \/ g \in Range(wire) \/ g \in InHand
          \/ Ahead(g, f, outbound)

Disconnects == {f \in Frames : CallOf(f) = "close"}
Order == \A f \in Disconnects : \A g \in before[f[1]] : InOrder(g, f)

FlowInv == CallInv /\ Severed /\ Located /\ Once /\ Order

\* A client puts its frame at the end of the channel, once.
LEMMA ClientFlow ==
    ASSUME FlowInv, CallInv', NEW c \in Clients, Client(c)
    PROVE  FlowInv'
<1>0. CallInv /\ Severed /\ Located /\ Once /\ Order
  BY DEF FlowInv
<1>1. TypeInv /\ AcceptedStarted /\ OnlyAccepted
  BY <1>0 DEF CallInv
<1>2. /\ client[c].pc # "gone" /\ c \in Handles
      /\ UNCHANGED <<program, io, wire, answers, reached, dropped>>
  BY <1>1, ClientMoves DEF brokerVars, Handles
<1>3. /\ Frames' = Frames /\ Frame(c) \in Frames /\ Frame(c)[1] = c
      /\ Frame(c)[2] = client[c].n /\ CallOf(Frame(c)) = Call(c)
      /\ \A f : /\ CallOf(f)' = CallOf(f) /\ Answered(f)' = Answered(f)
                /\ Done(f)' = Done(f)
      /\ InHand' = InHand /\ Disconnects' = Disconnects
  BY <1>1, <1>2, FramesKept, CurrentFrame
     DEF Answered, Done, InHand, Disconnects
<1>4. outbound \in Seq(Frames)
  BY <1>1 DEF TypeInv, TypeOK
<1>5. client[c].pc \in {"ready", "submitting"} => Frame(c) \notin accepted
  <2>1. client[c].n \in Nat
    BY <1>1, ClientOf
  <2> QED
    BY <1>1, <1>3, <2>1 DEF AcceptedStarted, Past, Current
<1>6. Severed'
  BY <1>0, <1>2 DEF Severed
<1>7. CASE Submit(c)
  <2>1. /\ outbound' = Append(outbound, Frame(c))
        /\ accepted' = accepted \cup {Frame(c)}
        /\ ~Exited /\ before' = before /\ Frame(c) \notin accepted
    BY <1>5, <1>7 DEF Submit, Enqueue
  <2>2. Range(outbound') = Range(outbound) \cup {Frame(c)}
    BY <1>3, <1>4, <2>1, RangeOfAppend
  <2>3. Frame(c) \notin Range(outbound)
    BY <1>1, <1>3, <2>1 DEF OnlyAccepted
  <2>4. IsInjective(outbound')
    BY <1>0, <1>3, <1>4, <2>1, <2>3, InjectiveAppend DEF Once
  <2>5. Once'
    BY <1>0, <1>1, <1>2, <1>3, <2>1, <2>2, <2>4 DEF Once, OnlyAccepted, Done
  <2>6. Located'
    BY <1>0, <1>2, <1>3, <2>1, <2>2 DEF Located, Exited
  <2>7. Order'
    <3> SUFFICES ASSUME NEW f \in Disconnects, NEW g \in before[f[1]]
                 PROVE  InOrder(g, f)'
      BY <1>3, <2>1 DEF Order
    <3>0. InOrder(g, f)
      BY <1>0 DEF Order
    <3>1. f \in Frames /\ f[1] \in Clients
      BY <1>1, FrameForm DEF Disconnects, TypeInv
    <3>2. g \in accepted
      BY <1>1, <3>1 DEF TypeInv, TypeOK
    <3>3. Located
      BY <1>0
    <3>4. Done(g) \/ g \in Range(wire) \/ g \in InHand \/ g \in Range(outbound)
      BY <2>1, <3>2, <3>3 DEF Located
    <3>5. \/ Done(g) \/ g \in Range(wire) \/ g \in InHand
          \/ Ahead(g, f, outbound)
      <4>1. CASE f \in Range(outbound)
        BY <3>0, <4>1 DEF InOrder
      <4>2. CASE f \notin Range(outbound)
        BY <4>2, AheadOfAbsent
      <4> QED
        BY <4>1, <4>2
    <3>6. \/ Done(g) \/ g \in Range(wire) \/ g \in InHand
          \/ Ahead(g, f, outbound')
      BY <1>3, <1>4, <2>1, <3>4, <3>5, AheadAppend
    <3> QED
      BY <1>2, <1>3, <3>0, <3>6 DEF InOrder
  <2> QED
    BY <1>6, <2>5, <2>6, <2>7 DEF FlowInv
<1>8. CASE ~Submit(c)
  <2>1. UNCHANGED <<outbound, accepted>>
    BY <1>8 DEF Client, Proceed, Register, DropClone, SubmitFails,
       Settled, Expire, Deregister, DropHandle, Signal
  <2>2. Once' /\ Located'
    BY <1>0, <1>2, <1>3, <2>1 DEF Once, Located, Exited
  <2>3. ASSUME NEW f \in Disconnects, NEW g, InOrder(g, f)
        PROVE  InOrder(g, f)'
    BY <1>2, <1>3, <2>1, <2>3 DEF InOrder
  <2>4. CASE Register(c) /\ Call(c) = "close"
    <3>1. /\ Frame(c) \notin accepted
          /\ \A d \in Clients \ {c} : before'[d] = before[d]
      BY <1>1, <1>5, <2>4 DEF Register, TypeInv, TypeOK
    <3>2. ASSUME NEW f \in Disconnects, NEW g \in before'[f[1]]
          PROVE  InOrder(g, f)'
      <4>1. f \in Frames /\ f[1] \in Clients /\ f = <<f[1], f[2]>>
        BY <1>1, FrameForm DEF Disconnects, TypeInv
      <4>2. CASE f[1] # c
        BY <1>0, <2>3, <3>1, <3>2, <4>1, <4>2 DEF Order
      <4>3. CASE f[1] = c
        <5>1. f[2] = Len(program[c]) /\ client[c].n = Len(program[c])
          <6>1. f[2] \in DOMAIN program[c] /\ program[c][f[2]] = "close"
            BY <1>1, <4>1, <4>3, FrameForm, ProgramType
               DEF Disconnects, CallOf, TypeInv
          <6> QED
            BY <1>1, <1>2, <2>4, <6>1, ProgramType, CurrentFrame DEF TypeInv
        <5>2. f = Frame(c)
          BY <4>1, <4>3, <5>1 DEF Frame
        <5>3. InOrder(g, f)
          BY <1>1, <1>3, <3>1, <5>2 DEF InOrder, OnlyAccepted, Done
        <5> QED
          BY <2>3, <5>3
      <4> QED
        BY <4>2, <4>3
    <3>3. Order'
      BY <1>3, <3>2 DEF Order
    <3> QED
      BY <1>6, <2>2, <3>3 DEF FlowInv
  <2>5. CASE ~(Register(c) /\ Call(c) = "close")
    <3>1. before' = before
      BY <1>8, <2>5 DEF Client, Proceed, Register, DropClone, SubmitFails,
         Settled, Expire, Deregister, DropHandle, Signal
    <3>2. Order'
      BY <1>0, <1>3, <2>3, <3>1 DEF Order
    <3> QED
      BY <1>6, <2>2, <3>2 DEF FlowInv
  <2> QED
    BY <2>4, <2>5
<1> QED
  BY <1>7, <1>8

\* A frame of a lost connection is not in the channel again.
LEMMA TaskSevers ==
    ASSUME CallInv, Severed, TaskOrBroker
    PROVE  Severed'
<1>0. TypeInv /\ Handles' = Handles
  BY TaskSignals DEF CallInv
<1>1. CASE Quiet
  <2>1. UNCHANGED <<wire, answers>>
    BY <1>1 DEF Quiet, Check, BackoffEnds, AfterConnection, Connect,
                AttemptFails, TakeShutdown, OutboundClosed, brokerVars
  <2>2. io'.pc \in {"check", "backoff", "lost", "connecting", "handshake"} =>
           \/ io.pc \in {"connecting", "handshake"}
           \/ /\ io.pc \in {"check", "backoff", "lost"}
              /\ io'.pc = "connecting" => Handles # {}
           \/ Handles = {} /\ io'.pc = "lost"
    BY <1>1 DEF Quiet, Check, BackoffEnds, AfterConnection, Connect,
                AttemptFails, TakeShutdown, OutboundClosed, At, ShutdownReady
  <2>3. io.pc \in {"check", "backoff", "lost"} => io'.pc # "handshake"
    BY <1>1 DEF Quiet, Check, BackoffEnds, AfterConnection, Connect,
                AttemptFails, TakeShutdown, OutboundClosed, At
  <2> QED
    BY <1>0, <2>1, <2>2, <2>3 DEF Severed
<1>2. CASE Lose
  BY <1>2 DEF Lose, Severed, At
<1>3. CASE \E v \in Verdicts : Process(v)
  <2>1. wire # <<>> /\ io' = io
    BY <1>3 DEF Process
  <2> QED
    BY <1>0, <2>1 DEF Severed
<1>4. CASE Exit \/ Connected \/ TakeOutbound \/ Write \/ ReadAnswer
  <2>1. io'.pc \in {"exited", "select", "writing"}
    BY <1>4 DEF Exit, Connected, TakeOutbound, Write, ReadAnswer, At
  <2> QED
    BY <2>1 DEF Severed
<1> QED
  BY <1>1, <1>2, <1>3, <1>4 DEF TaskOrBroker, Step, Network, Arms, Quiet

\* The seven ways a frame goes, as far as the invariants care.
LEMMA FlowMoves ==
    ASSUME CallInv, Severed, TaskOrBroker
    PROVE  \/ /\ UNCHANGED <<outbound, wire, reached, dropped>>
              /\ InHand' = InHand /\ (Exited => Exited')
           \/ /\ outbound' = <<>> /\ UNCHANGED <<wire, reached, dropped>>
              /\ InHand' = InHand /\ Exited'
           \/ /\ outbound # <<>> /\ outbound' = Tail(outbound)
              /\ UNCHANGED <<wire, reached, dropped>>
              /\ InHand = {} /\ InHand' = {Head(outbound)}
              /\ (Exited => Exited')
           \/ /\ \E f \in Frames : /\ wire' = Append(wire, f) /\ InHand = {f}
              /\ InHand' = {} /\ (Exited => Exited')
              /\ UNCHANGED <<outbound, reached, dropped>>
           \/ /\ wire' = <<>> /\ dropped' = dropped \cup Range(wire) \cup InHand
              /\ InHand' = {} /\ (Exited => Exited')
              /\ UNCHANGED <<outbound, reached>>
           \/ /\ wire # <<>> /\ wire' = Tail(wire)
              /\ \A f : Answered(f)' <=> Answered(f) \/ f = Head(wire)
              /\ UNCHANGED <<outbound, dropped>>
              /\ InHand' = InHand /\ (Exited => Exited')
<1>0. TypeInv
  BY DEF CallInv
<1>1. CASE \E v \in Verdicts : Process(v)
  <2>1. PICK a \in Answers : a.frame = Head(wire) /\ reached' = reached \cup {a}
    BY <1>0, <1>1, ProcessGives
  <2>2. \A f : Answered(f)' <=> Answered(f) \/ f = Head(wire)
    BY <2>1 DEF Answered
  <2>3. /\ wire # <<>> /\ wire' = Tail(wire) /\ io' = io
        /\ UNCHANGED <<outbound, dropped>> /\ InHand' = InHand
    BY <1>1 DEF Process, InHand
  <2> QED
    BY <2>2, <2>3 DEF Exited
<1>2. CASE Connected
  <2>1. wire = <<>>
    BY <1>2 DEF Severed, Connected
  <2> QED
    BY <1>0, <1>2, <2>1 DEF Connected, Exited, InHand, At
<1>3. CASE Write
  <2>1. io.frame \in Frames /\ InHand = {io.frame}
    BY <1>0, <1>3, Holds DEF TypeInv, Write, InHand
  <2>2. /\ wire' = Append(wire, io.frame) /\ InHand' = {} /\ ~Exited
        /\ UNCHANGED <<outbound, reached, dropped>>
    BY <1>3 DEF Write, InHand, At, Exited
  <2>3. \E f \in Frames : wire' = Append(wire, f) /\ InHand = {f}
    BY <2>1, <2>2
  <2> QED
    BY <2>2, <2>3
<1>4. CASE Exit
  BY <1>0, <1>4 DEF Exit, Exited, At, InHand, brokerVars
<1>5. CASE Quiet \/ ReadAnswer \/ TakeOutbound \/ Lose
  <2>1. io.pc # "exited"
    BY <1>5 DEF Quiet, Check, BackoffEnds, AfterConnection, Connect,
                AttemptFails, TakeShutdown, OutboundClosed, At, ReadAnswer,
                TakeOutbound, Lose
  <2>2. CASE Quiet \/ ReadAnswer
    <3>1. UNCHANGED <<outbound, wire, reached, dropped>>
      BY <2>2 DEF Quiet, Check, BackoffEnds, AfterConnection, Connect,
                AttemptFails, TakeShutdown, OutboundClosed, ReadAnswer,
                brokerVars
    <3>2. io.pc # "writing" /\ io'.pc # "writing"
      BY <2>2 DEF Quiet, Check, BackoffEnds, AfterConnection, Connect,
                AttemptFails, TakeShutdown, OutboundClosed, At, ReadAnswer
    <3> QED
      BY <2>1, <3>1, <3>2 DEF Exited, InHand
  <2>3. CASE TakeOutbound
    BY <2>1, <2>3 DEF TakeOutbound, InHand, Exited, brokerVars
  <2>4. CASE Lose
    <3>1. {wire[i] : i \in DOMAIN wire} = Range(wire)
      BY DEF Range
    <3>2. InHand' = {}
      BY <2>4 DEF Lose, InHand, At
    <3> QED
      BY <2>1, <2>4, <3>1, <3>2 DEF Lose, Exited
  <2> QED
    BY <1>5, <2>2, <2>3, <2>4
<1> QED
  BY <1>1, <1>2, <1>3, <1>4, <1>5 DEF TaskOrBroker, Step, Network, Arms, Quiet

\* The task takes the frames from the front, in order.
LEMMA TaskFlow ==
    ASSUME FlowInv, CallInv', TaskOrBroker
    PROVE  FlowInv'
<1>0. CallInv /\ Severed /\ Located /\ Once /\ Order
  BY DEF FlowInv
<1>1. /\ outbound \in Seq(Frames) /\ wire \in Seq(Frames)
      /\ InHand \subseteq Frames
  BY <1>0, Holds DEF CallInv, TypeInv, TypeOK, InHand
<1>2. /\ UNCHANGED <<program, before, accepted>>
      /\ Frames' = Frames /\ Disconnects' = Disconnects
  <2>1. UNCHANGED <<program, before, accepted>>
    BY <1>0, TaskMoves DEF appVars, CallInv
  <2> QED
    BY <2>1, FramesKept DEF Disconnects
<1>3. Severed'
  BY <1>0, TaskSevers
<1>4. ASSUME Located', Once',
             \A f \in Disconnects : \A g : InOrder(g, f) => InOrder(g, f)'
      PROVE  FlowInv'
  <2>1. Order'
    BY <1>0, <1>2, <1>4 DEF Order
  <2> QED
    BY <1>3, <1>4, <2>1 DEF FlowInv
<1>11. ASSUME Exited => Exited',
              \A f : \/ f \in Range(outbound) \/ f \in InHand
                     \/ f \in Range(wire) \/ Done(f)
                     => \/ f \in Range(outbound') \/ f \in InHand'
                        \/ f \in Range(wire') \/ Done(f)'
       PROVE  Located'
  <2> SUFFICES ASSUME ~Exited', NEW f \in accepted
               PROVE  \/ f \in Range(outbound') \/ f \in InHand'
                      \/ f \in Range(wire') \/ Done(f)'
    BY <1>2 DEF Located
  <2>1. \/ f \in Range(outbound) \/ f \in InHand
        \/ f \in Range(wire) \/ Done(f)
    BY <1>0, <1>11 DEF Located, Exited
  <2> QED
    BY <1>11, <2>1
<1>5. CASE /\ UNCHANGED <<outbound, wire, reached, dropped>>
           /\ InHand' = InHand /\ (Exited => Exited')
  <2>1. \A f : Done(f)' = Done(f) /\ Answered(f)' = Answered(f)
    BY <1>5 DEF Done, Answered
  <2>2. \A f \in Disconnects : \A g : InOrder(g, f) => InOrder(g, f)'
    BY <1>5, <2>1 DEF InOrder
  <2>3. Located' /\ Once'
    BY <1>0, <1>2, <1>5, <1>11, <2>1 DEF Once
  <2> QED
    BY <1>4, <2>2, <2>3
<1>6. CASE /\ outbound' = <<>> /\ UNCHANGED <<wire, reached, dropped>>
           /\ InHand' = InHand /\ Exited'
  <2>1. \A f : Done(f)' = Done(f) /\ Answered(f)' = Answered(f)
    BY <1>6 DEF Done, Answered
  <2>2. Range(outbound') = {} /\ IsInjective(outbound')
    BY <1>6, EmptyQueue
  <2>3. \A f \in Disconnects : \A g : InOrder(g, f) => InOrder(g, f)'
    BY <1>6, <2>1, <2>2 DEF InOrder
  <2>4. Located' /\ Once'
    BY <1>0, <1>2, <1>6, <2>1, <2>2 DEF Located, Once
  <2> QED
    BY <1>4, <2>3, <2>4
<1>7. CASE /\ outbound # <<>> /\ outbound' = Tail(outbound)
           /\ UNCHANGED <<wire, reached, dropped>>
           /\ InHand = {} /\ InHand' = {Head(outbound)}
           /\ (Exited => Exited')
  <2>1. \A f : Done(f)' = Done(f) /\ Answered(f)' = Answered(f)
    BY <1>7 DEF Done, Answered
  <2>2. Range(outbound) = {Head(outbound)} \cup Range(outbound')
    BY <1>1, <1>7, RangeOfTail
  <2>3. IsInjective(outbound') /\ Head(outbound) \notin Range(outbound')
    BY <1>0, <1>1, <1>7, InjectiveTail DEF Once
  <2>4. Located'
    BY <1>11, <1>7, <2>1, <2>2
  <2>5. Once'
    BY <1>0, <1>2, <1>7, <2>1, <2>2, <2>3 DEF Once
  <2>6. ASSUME NEW f \in Disconnects, NEW g, InOrder(g, f)
        PROVE  InOrder(g, f)'
    <3>1. f \in Range(outbound) /\ Ahead(g, f, outbound) =>
             Head(outbound) # f /\ (Head(outbound) = g \/ Ahead(g, f, outbound'))
      BY <1>1, <1>7, AheadTail
    <3>2. \/ f \notin Range(outbound)
          \/ Done(g) \/ g \in Range(wire) \/ Ahead(g, f, outbound)
      BY <1>7, <2>6 DEF InOrder
    <3> QED
      BY <1>7, <2>1, <2>2, <2>6, <3>1, <3>2 DEF InOrder
  <2> QED
    BY <1>4, <2>4, <2>5, <2>6
<1>8. ASSUME NEW x \in Frames,
             wire' = Append(wire, x), InHand = {x}, InHand' = {},
             Exited => Exited', UNCHANGED <<outbound, reached, dropped>>
      PROVE  FlowInv'
  <2>1. \A f : Done(f)' = Done(f) /\ Answered(f)' = Answered(f)
    BY <1>8 DEF Done, Answered
  <2>2. Range(wire') = Range(wire) \cup {x}
    BY <1>1, <1>8, RangeOfAppend
  <2>3. IsInjective(wire')
    BY <1>0, <1>1, <1>8, InjectiveAppend DEF Once
  <2>4. Located'
    BY <1>11, <1>8, <2>1, <2>2
  <2>5. Once'
    BY <1>0, <1>2, <1>8, <2>1, <2>2, <2>3 DEF Once
  <2>6. ASSUME NEW f \in Disconnects, NEW g, InOrder(g, f)
        PROVE  InOrder(g, f)'
    <3>1. f \in Range(wire') => Done(g) \/ Ahead(g, f, wire')
      <4>1. f = x => Done(g) \/ g \in Range(wire)
        BY <1>8, <2>6 DEF InOrder
      <4>2. f \in Range(wire) => Done(g) \/ Ahead(g, f, wire)
        BY <2>6 DEF InOrder
      <4>3. f \notin Range(wire) => Ahead(g, f, wire)
        BY AheadOfAbsent
      <4> QED
        BY <1>1, <1>8, <2>2, <4>1, <4>2, <4>3, AheadAppend
    <3> QED
      BY <1>8, <2>1, <2>2, <2>6, <3>1 DEF InOrder
  <2> QED
    BY <1>4, <2>4, <2>5, <2>6
<1>9. CASE /\ wire' = <<>> /\ dropped' = dropped \cup Range(wire) \cup InHand
           /\ InHand' = {} /\ (Exited => Exited')
           /\ UNCHANGED <<outbound, reached>>
  <2>1. /\ \A f : Answered(f)' = Answered(f)
        /\ \A f : Done(f)' <=> Done(f) \/ f \in Range(wire) \/ f \in InHand
    BY <1>9 DEF Done, Answered
  <2>2. Range(wire') = {} /\ IsInjective(wire')
    BY <1>9, EmptyQueue
  <2>3. Located'
    BY <1>11, <1>9, <2>1, <2>2
  <2>4. Once'
    BY <1>0, <1>2, <1>9, <2>1, <2>2 DEF Once
  <2>5. ASSUME NEW f \in Disconnects, NEW g, InOrder(g, f)
        PROVE  InOrder(g, f)'
    BY <1>9, <2>1, <2>2, <2>5 DEF InOrder
  <2> QED
    BY <1>4, <2>3, <2>4, <2>5
<1>10. CASE /\ wire # <<>> /\ wire' = Tail(wire)
            /\ \A f : Answered(f)' <=> Answered(f) \/ f = Head(wire)
            /\ UNCHANGED <<outbound, dropped>>
            /\ InHand' = InHand /\ (Exited => Exited')
  <2>1. \A f : Done(f)' <=> Done(f) \/ f = Head(wire)
    BY <1>10 DEF Done
  <2>2. Range(wire) = {Head(wire)} \cup Range(wire')
    BY <1>1, <1>10, RangeOfTail
  <2>3. IsInjective(wire') /\ Head(wire) \notin Range(wire')
    BY <1>0, <1>1, <1>10, InjectiveTail DEF Once
  <2>4. Located'
    BY <1>11, <1>10, <2>1, <2>2
  <2>5. Once'
    BY <1>0, <1>2, <1>10, <2>1, <2>2, <2>3 DEF Once
  <2>6. ASSUME NEW f \in Disconnects, NEW g, InOrder(g, f)
        PROVE  InOrder(g, f)'
    <3>1. f \in Range(wire) /\ Ahead(g, f, wire) =>
             Head(wire) # f /\ (Head(wire) = g \/ Ahead(g, f, wire'))
      BY <1>1, <1>10, AheadTail
    <3>2. f \in Range(wire) => Done(g) \/ Ahead(g, f, wire)
      BY <2>6 DEF InOrder
    <3>3. Answered(f)' => Done(g)'
      BY <1>10, <2>1, <2>2, <2>6, <3>1, <3>2 DEF InOrder
    <3>4. f \in Range(wire') => Done(g)' \/ Ahead(g, f, wire')
      BY <2>1, <2>2, <3>1, <3>2
    <3>5. f \in InHand' => Done(g)' \/ g \in Range(wire')
      BY <1>10, <2>1, <2>2, <2>6 DEF InOrder
    <3>6. f \in Range(outbound') =>
             \/ Done(g)' \/ g \in Range(wire') \/ g \in InHand'
             \/ Ahead(g, f, outbound')
      BY <1>10, <2>1, <2>2, <2>6 DEF InOrder
    <3> QED
      BY <3>3, <3>4, <3>5, <3>6 DEF InOrder
  <2> QED
    BY <1>4, <2>4, <2>5, <2>6
<1> QED
  BY <1>0, <1>5, <1>6, <1>7, <1>8, <1>9, <1>10, FlowMoves

\* Before anything is accepted, nothing is out of order.
LEMMA InitFlow == Init => FlowInv
<1> SUFFICES ASSUME Init PROVE FlowInv
  OBVIOUS
<1>1. /\ outbound = <<>> /\ wire = <<>> /\ answers = <<>> /\ accepted = {}
      /\ reached = {} /\ io.pc = "check" /\ InHand = {}
      /\ \A c \in Clients : before[c] = {}
  BY DEF Init, InHand
<1>2. /\ Range(outbound) = {} /\ Range(wire) = {}
      /\ IsInjective(outbound) /\ IsInjective(wire)
  BY <1>1, EmptyQueue
<1>3. CallInv
  BY InitCalls
<1>4. Severed /\ Located
  BY <1>1 DEF Severed, Located
<1>5. Once
  BY <1>1, <1>2 DEF Once
<1>6. \A f \in Disconnects : f[1] \in Clients
  BY <1>3, FrameForm DEF Disconnects, CallInv, TypeInv
<1>7. Order
  BY <1>1, <1>6 DEF Order
<1> QED
  BY <1>3, <1>4, <1>5, <1>7 DEF FlowInv

\* FlowInv is inductive.
LEMMA StepFlow == FlowInv /\ [Next]_vars => FlowInv'
<1> SUFFICES ASSUME FlowInv, [Next]_vars PROVE FlowInv'
  OBVIOUS
<1>1. CallInv'
  BY StepCalls DEF FlowInv
<1>2. CASE UNCHANGED vars
  <2>1. /\ UNCHANGED <<program, client, outbound, io, wire, answers, accepted,
                       before, reached, dropped>>
        /\ Frames' = Frames /\ Disconnects' = Disconnects
    BY <1>2, FramesKept DEF vars, appVars, brokerVars, Disconnects
  <2>2. /\ Handles' = Handles /\ InHand' = InHand /\ Exited' = Exited
        /\ \A f : Answered(f)' = Answered(f) /\ Done(f)' = Done(f)
    BY <2>1 DEF Handles, InHand, Exited, Answered, Done
  <2>3. \A f, g : InOrder(g, f)' = InOrder(g, f)
    BY <2>1, <2>2 DEF InOrder
  <2> QED
    BY <1>1, <2>1, <2>2, <2>3 DEF FlowInv, Severed, Located, Once, Order
<1> QED
  BY <1>1, <1>2, ClientFlow, TaskFlow DEF Next, TaskOrBroker

\* FlowInv is invariant.
LEMMA FlowHolds == Spec => []FlowInv
BY InitFlow, StepFlow, PTL DEF Spec

\* When close() reports a confirmed DISCONNECT, no frame accepted before it,
\* from any clone, is left in the client: the broker has processed it, or it
\* went down with an earlier connection.
THEOREM CloseDrains == Spec => []ConfirmedCloseDrains
<1>1. FlowInv => ConfirmedCloseDrains
  <2> SUFFICES ASSUME FlowInv, NEW c \in Clients, Confirmed(c),
                      NEW g \in before[c]
               PROVE  g \in Reached \cup dropped
    BY DEF ConfirmedCloseDrains
  <2>0. CallInv /\ Order
    BY DEF FlowInv
  <2>1. PICK r \in result : /\ r.frame[1] = c /\ CallOf(r.frame) = "close"
                            /\ r.got = "confirmed"
    BY DEF Confirmed
  <2>2. r \in reached
    BY <2>0, <2>1 DEF CallInv, VerdictIsTheBrokers, Verdicts
  <2>3. r.frame \in Disconnects
    BY <2>0, <2>1 DEF Disconnects, CallInv, TypeInv, TypeOK, Results
  <2>4. InOrder(g, r.frame)
    BY <2>0, <2>1, <2>3 DEF Order
  <2>5. Done(g)
    BY <2>2, <2>4 DEF InOrder, Answered
  <2> QED
    BY <2>5 DEF Done, Answered, Reached
<1> QED
  BY <1>1, FlowHolds, PTL

----------------------------------------------------------------------------
(* Answers.  A frame is processed once, so a waiter that is gone from the   *)
(* registry was given the very answer that is read later.                   *)

Single == \A a, b \in reached : a.frame = b.frame => a = b

AnswerInv == FlowInv /\ Single /\ NoAnswerMissed

\* Where an answer is until its caller has it.
Due(a) == a \in outcome \/ a \in Range(answers) \/ a.frame \in unheard

\* NoAnswerMissed, answer by answer.
LEMMA NothingMissed ==
    NoAnswerMissed <=>
        \A c \in Clients : \A a \in reached :
            client[c].pc = "waiting" /\ a.frame = Frame(c) => Due(a)
BY InRange DEF NoAnswerMissed, Due

\* AnswerInv under the steps of the clients.
LEMMA ClientAnswers ==
    ASSUME AnswerInv, NEW c \in Clients, Client(c)
    PROVE  Single' /\ NoAnswerMissed'
<1>0. /\ CallInv /\ TypeInv /\ AcceptedStarted /\ OnlyAccepted /\ Single
      /\ \A d \in Clients : \A a \in reached :
            client[d].pc = "waiting" /\ a.frame = Frame(d) => Due(a)
  BY NothingMissed DEF AnswerInv, FlowInv, CallInv
<1>1. /\ UNCHANGED <<program, answers, reached, unheard, outcome>>
      /\ \A d \in Clients \ {c} : client'[d] = client[d]
  BY <1>0, ClientMoves DEF brokerVars
<1>2. \A a : Due(a)' = Due(a)
  BY <1>1 DEF Due
<1>3. ASSUME NEW d \in Clients, NEW a \in reached,
             client'[d].pc = "waiting", a.frame = Frame(d)'
      PROVE  Due(a)
  <2>1. CASE d # c
    <3>1. client[d].pc = "waiting" /\ a.frame = Frame(d)
      BY <1>1, <1>3, <2>1 DEF Frame
    <3> QED
      BY <1>0, <3>1
  <2>2. CASE d = c
    <3>1. Turns(c, "submitting", "waiting")
      BY <1>0, <1>3, <2>2, ClientMoves DEF Turns, Returns, Leaves, Gone
    <3>2. a.frame = Frame(c) /\ client[c].n \in Nat
      BY <1>0, <1>3, <2>2, <3>1, ClientOf DEF Turns, Frame
    <3>3. Frame(c) \in Frames /\ Frame(c)[1] = c /\ Frame(c)[2] = client[c].n
      BY <1>0, <3>1, CurrentFrame DEF Turns
    <3>4. Frame(c) \in accepted
      BY <1>0, <3>2, <3>3 DEF OnlyAccepted, Done, Answered
    <3> QED
      BY <1>0, <3>1, <3>2, <3>3, <3>4
         DEF AcceptedStarted, Past, Current, Turns
  <2> QED
    BY <2>1, <2>2
<1>4. NoAnswerMissed' <=>
        \A d \in Clients : \A a \in reached' :
            client'[d].pc = "waiting" /\ a.frame = Frame(d)' => Due(a)'
  BY InRange DEF NoAnswerMissed, Due
<1>5. NoAnswerMissed'
  BY <1>1, <1>2, <1>3, <1>4
<1> QED
  BY <1>0, <1>1, <1>5 DEF Single

\* AnswerInv under the steps of the task and the broker.
LEMMA TaskAnswers ==
    ASSUME AnswerInv, TaskOrBroker
    PROVE  Single' /\ NoAnswerMissed'
<1>0. /\ FlowInv /\ CallInv /\ TypeInv /\ Severed /\ Once /\ Single
      /\ CallStates /\ WaiterThere /\ Waiters
      /\ \A c \in Clients : \A a \in reached :
            client[c].pc = "waiting" /\ a.frame = Frame(c) => Due(a)
  BY NothingMissed DEF AnswerInv, FlowInv, CallInv
<1>1. /\ UNCHANGED <<program, client>>
      /\ \A c : Frame(c)' = Frame(c)
  BY <1>0, TaskMoves DEF appVars, Frame
<1>2. NoAnswerMissed' <=>
        \A c \in Clients : \A a \in reached' :
            client'[c].pc = "waiting" /\ a.frame = Frame(c)' => Due(a)'
  BY InRange DEF NoAnswerMissed, Due
<1>3. ASSUME \A c \in Clients : \A a \in reached' :
                client[c].pc = "waiting" /\ a.frame = Frame(c) => Due(a)'
      PROVE  NoAnswerMissed'
  BY <1>1, <1>2, <1>3
<1>4. CASE \E v \in Verdicts : Process(v)
  <2>1. PICK b \in Answers :
           /\ b.frame = Head(wire) /\ Head(wire) \in Frames
           /\ reached' = reached \cup {b}
           /\ Range(answers) \subseteq Range(answers')
           /\ Head(wire) \in Awaited => b \in Range(answers')
    BY <1>0, <1>4, ProcessGives
  <2>2. UNCHANGED <<outcome, unheard>> /\ wire # <<>> /\ wire \in Seq(Frames)
    BY <1>0, <1>4 DEF Process, TypeInv, TypeOK
  <2>3. Head(wire) \in Range(wire)
    BY <2>2, RangeOfTail
  <2>4. ~Answered(b.frame)
    BY <1>0, <2>1, <2>3 DEF Once
  <2>5. Single'
    BY <1>0, <2>1, <2>4 DEF Single, Answered
  <2>6. \A a : Due(a) => Due(a)'
    BY <2>1, <2>2 DEF Due
  <2>7. ASSUME NEW c \in Clients, client[c].pc = "waiting", b.frame = Frame(c)
        PROVE  Due(b)'
    <3>1. Frame(c) \in Awaited
      BY <1>0, <2>7, CurrentFrame DEF CallStates, Awaited
    <3> QED
      BY <2>1, <2>7, <3>1 DEF Due
  <2> QED
    BY <1>0, <1>3, <2>1, <2>5, <2>6, <2>7
<1>5. CASE ReadAnswer
  <2>1. PICK b \in Answers :
           /\ Range(answers) = {b} \cup Range(answers')
           /\ b.frame \in receipts => outcome' = outcome \cup {b}
           /\ b.frame \notin receipts => outcome' = outcome
    BY <1>0, <1>5, ReadGives
  <2>2. UNCHANGED <<reached, unheard>>
    BY <1>5 DEF ReadAnswer
  <2>3. ASSUME NEW c \in Clients, NEW a \in reached,
               client[c].pc = "waiting", a.frame = Frame(c)
        PROVE  Due(a)'
    <3>1. a # b \/ a \in outcome => Due(a)'
      BY <1>0, <2>1, <2>2, <2>3 DEF Due
    <3>2. CASE a = b
      <4>1. Call(c) \in Receipted
        BY <1>0, <2>3 DEF CallStates
      <4>2. Frame(c) \in receipts \/ \E d \in outcome : d.frame = Frame(c)
        BY <1>0, <2>3, <4>1 DEF WaiterThere
      <4>3. (\E d \in outcome : d.frame = Frame(c)) => a \in outcome
        BY <1>0, <2>3 DEF Waiters, Single
      <4>4. Frame(c) \in receipts => Due(a)'
        BY <2>1, <2>3, <3>2 DEF Due
      <4> QED
        BY <3>1, <4>2, <4>3, <4>4
    <3> QED
      BY <3>1, <3>2
  <2> QED
    BY <1>0, <1>3, <2>2, <2>3 DEF Single
<1>6. CASE ~ReadAnswer /\ ~\E v \in Verdicts : Process(v)
  <2>1. UNCHANGED <<reached, outcome>>
    BY <1>0, <1>6, TaskMoves DEF brokerVars
  <2>2. CASE UNCHANGED <<answers, unheard>>
    <3>1. \A a : Due(a)' = Due(a)
      BY <2>1, <2>2 DEF Due
    <3> QED
      BY <1>0, <1>3, <2>1, <3>1 DEF Single
  <2>3. CASE Connected
    <3>1. answers = <<>> /\ answers' = <<>> /\ unheard' = unheard
      BY <1>0, <2>3 DEF Severed, Connected
    <3>2. \A a : Due(a)' = Due(a)
      BY <2>1, <3>1 DEF Due
    <3> QED
      BY <1>0, <1>3, <2>1, <3>2 DEF Single
  <2>4. CASE unheard' = unheard \cup {a.frame : a \in Range(answers)}
    <3>1. \A a : Due(a) => Due(a)'
      BY <2>1, <2>4 DEF Due
    <3> QED
      BY <1>0, <1>3, <2>1, <3>1 DEF Single
  <2> QED
    BY <1>0, <1>6, <2>2, <2>3, <2>4, TaskMoves DEF brokerVars
<1> QED
  BY <1>4, <1>5, <1>6

\* AnswerInv is inductive.
LEMMA StepAnswers == AnswerInv /\ [Next]_vars => AnswerInv'
<1> SUFFICES ASSUME AnswerInv, [Next]_vars PROVE AnswerInv'
  OBVIOUS
<1>1. FlowInv'
  BY StepFlow DEF AnswerInv
<1>2. CASE UNCHANGED vars
  <2>1. Single' /\ NoAnswerMissed'
    BY <1>2 DEF AnswerInv, Single, NoAnswerMissed, Frame, vars, appVars,
                brokerVars
  <2> QED
    BY <1>1, <2>1 DEF AnswerInv
<1> QED
  BY <1>1, <1>2, ClientAnswers, TaskAnswers DEF Next, TaskOrBroker, AnswerInv

\* No answer is missed: what the broker has answered is in its waiter's hands
\* or still to be read, however early it came, as long as the caller waits and
\* the connection that carries it lasts.
THEOREM AnswersArrive == Spec => []NoAnswerMissed
<1>1. Init => AnswerInv
  <2> SUFFICES ASSUME Init PROVE AnswerInv
    OBVIOUS
  <2>1. reached = {}
    BY DEF Init
  <2> QED
    BY <2>1, InitFlow DEF AnswerInv, Single, NoAnswerMissed
<1>2. AnswerInv => NoAnswerMissed
  BY DEF AnswerInv
<1> QED
  BY <1>1, <1>2, StepAnswers, PTL DEF Spec
=============================================================================
