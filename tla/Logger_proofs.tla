----------------------------- MODULE Logger_proofs -----------------------------
(***************************************************************************)
(* Proofs about Logger, for every set of goroutines, levels and prefixes.  *)
(*                                                                         *)
(* The inductive invariant has two parts.  HolderInv says who holds l.mu,  *)
(* by where the goroutines are, and what a goroutine that has not asked    *)
(* for its caller's file knows of the flags.  BufferInv says what is in    *)
(* the buffer at each step of a goroutine that nobody has intruded on.     *)
(***************************************************************************)
EXTENDS Logger, SequenceTheorems, TLAPS

Places == {"idle", "lock", "relock", "header", "append", "message", "write",
           "errAppend", "errCopy"}

\* Every variable has its type.
TypeOK ==
    /\ mu \in Goroutines \cup {Nobody}
    /\ prefix \in Prefixes /\ flag \in BOOLEAN /\ level \in Levels /\ out \in Models
    /\ pc \in [Goroutines -> Places]
    /\ caller \in [Goroutines -> BOOLEAN] /\ intruded \in [Goroutines -> BOOLEAN]

\* The steps of Output that are taken with l.mu held.
Inside == {"header", "append", "message", "write"}

\* l.mu is held by who is inside, and who is there without its caller's file
\* has held it since it looked at the flags.
HolderInv ==
    /\ \A g \in Goroutines : pc[g] \in Inside <=> mu = g
    /\ \A g \in Goroutines :
          /\ pc[g] = "relock" => caller[g]
          /\ pc[g] \in Inside => caller[g] \/ ~flag

\* What a goroutine that was not intruded on has built so far.
BufferInv ==
    \A g \in Goroutines : ~intruded[g] =>
       /\ pc[g] \in {"append", "errAppend"} => buf = <<>>
       /\ pc[g] = "message" => buf = <<Header(g)>>
       /\ pc[g] = "write" => buf = <<Header(g), Message(g)>>
       /\ pc[g] = "errCopy" => Len(buf) = 1 /\ buf[1].by = g

LInv == TypeOK /\ HolderInv /\ BufferInv

USE LoggerAssumption DEF config, Goto, Places, Inside

-----------------------------------------------------------------------------
\* The initial state satisfies the invariant, whatever New could open.
LEMMA Initially == Init => LInv
<1> SUFFICES ASSUME Init PROVE LInv
  OBVIOUS
<1>1. out \in Models
  BY DEF Init, Destinations, Models
<1>2. TypeOK
  BY <1>1 DEF Init, TypeOK
<1>3. HolderInv
  BY DEF Init, HolderInv
<1>4. BufferInv
  BY DEF Init, BufferInv
<1> QED BY <1>2, <1>3, <1>4 DEF LInv

\* What appending a first and a second piece gives.
LEMMA FirstPiece == ASSUME NEW x PROVE Append(<<>>, x) = <<x>>
  OBVIOUS

LEMMA SecondPiece == ASSUME NEW x, NEW y PROVE Append(<<x>>, y) = <<x, y>>
<1>1. <<x>> \in Seq({x, y}) /\ <<x, y>> \in Seq({x, y})
  OBVIOUS
<1>2. /\ Append(<<x>>, y) \in Seq({x, y}) /\ Len(Append(<<x>>, y)) = 2
      /\ Append(<<x>>, y)[1] = x /\ Append(<<x>>, y)[2] = y
  BY <1>1, AppendProperties
<1>3. Len(<<x, y>>) = 2 /\ <<x, y>>[1] = x /\ <<x, y>>[2] = y
  OBVIOUS
<1>4. \A i \in 1 .. 2 : i = 1 \/ i = 2
  OBVIOUS
<1>5. \A i \in 1 .. Len(Append(<<x>>, y)) : Append(<<x>>, y)[i] = <<x, y>>[i]
  BY <1>2, <1>3, <1>4
<1> QED BY <1>1, <1>2, <1>3, <1>5, SeqEqual

\* Whoever uses the buffer intrudes on all others that build in it.
LEMMA UsesIntrudes ==
  ASSUME NEW g \in Goroutines, TypeOK, Uses(g) \/ Begins(g)
  PROVE  /\ intruded' \in [Goroutines -> BOOLEAN]
         /\ \A h \in Goroutines \ {g} : ~intruded'[h] => ~intruded[h] /\ pc[h] \notin Building
         /\ Uses(g) => intruded'[g] = intruded[g]
<1>1. CASE Uses(g)
  BY <1>1 DEF Uses, TypeOK
<1>2. CASE Begins(g)
  BY <1>2 DEF Begins, Uses, TypeOK
<1> QED BY <1>1, <1>2

\* Every step keeps the types.
LEMMA TypeStep == TypeOK /\ [Next]_vars => TypeOK'
<1> SUFFICES ASSUME TypeOK, [Next]_vars PROVE TypeOK'
  OBVIOUS
<1>1. ASSUME NEW g \in Goroutines, Output(g) \/ NewErrCode(g) \/ ErrAppend(g) \/ ErrCopy(g)
      PROVE  TypeOK'
  <2>1. CASE Lock(g) \/ Relock(g) \/ Write(g) \/ ErrCopy(g)
    BY <2>1 DEF Lock, HolderAfterTest, Relock, Write, ErrCopy, TypeOK
  <2>2. CASE FormatHeader(g) \/ AppendHeader(g) \/ AppendMessage(g) \/ NewErrCode(g) \/ ErrAppend(g)
    <3>1. intruded' \in [Goroutines -> BOOLEAN]
      BY <2>2, UsesIntrudes DEF FormatHeader, AppendHeader, AppendMessage, NewErrCode, ErrAppend
    <3> QED BY <2>2, <3>1 DEF FormatHeader, AppendHeader, AppendMessage, NewErrCode, ErrAppend, TypeOK
  <2> QED BY <1>1, <2>1, <2>2 DEF Output
<1>2. ASSUME NEW g \in Goroutines, NEW v \in Levels, Call(g, v) PROVE TypeOK'
  BY <1>2 DEF Call, TypeOK
<1>3. CASE Set
  BY <1>3 DEF Set, TypeOK
<1>4. CASE UNCHANGED vars
  BY <1>4 DEF vars, TypeOK
<1> QED BY <1>1, <1>2, <1>3, <1>4 DEF Next

\* Every step keeps l.mu with the goroutine that is inside; SetFlags waits.
LEMMA HolderStep == TypeOK /\ HolderInv /\ [Next]_vars => HolderInv'
<1> SUFFICES ASSUME TypeOK, HolderInv, [Next]_vars PROVE HolderInv'
  OBVIOUS
<1>1. ASSUME NEW g \in Goroutines, Lock(g) PROVE HolderInv'
  BY <1>1 DEF Lock, HolderAfterTest, TypeOK, HolderInv
<1>2. ASSUME NEW g \in Goroutines, Relock(g) PROVE HolderInv'
  BY <1>2 DEF Relock, MayRelock, TypeOK, HolderInv
<1>3. ASSUME NEW g \in Goroutines, FormatHeader(g) \/ AppendHeader(g) \/ AppendMessage(g)
      PROVE  HolderInv'
  BY <1>3 DEF FormatHeader, AppendHeader, AppendMessage, TypeOK, HolderInv
<1>4. ASSUME NEW g \in Goroutines, Write(g) PROVE HolderInv'
  BY <1>4 DEF Write, TypeOK, HolderInv
<1>5. ASSUME NEW g \in Goroutines, NewErrCode(g) \/ ErrAppend(g) \/ ErrCopy(g)
      PROVE  HolderInv'
  BY <1>5 DEF NewErrCode, ErrAppend, ErrCopy, TypeOK, HolderInv
<1>6. ASSUME NEW g \in Goroutines, NEW v \in Levels, Call(g, v) PROVE HolderInv'
  BY <1>6 DEF Call, TypeOK, HolderInv
<1>7. CASE Set
  BY <1>7 DEF Set, TypeOK, HolderInv
<1>8. CASE UNCHANGED vars
  BY <1>8 DEF vars, HolderInv
<1> QED BY <1>1, <1>2, <1>3, <1>4, <1>5, <1>6, <1>7, <1>8 DEF Next, Output

\* Every step keeps what the others have built in the buffer, or intrudes on them;
\* the configuration that is in a header does not change before it is written.
LEMMA BufferStep == LInv /\ [Next]_vars => BufferInv'
<1> SUFFICES ASSUME LInv, [Next]_vars PROVE BufferInv'
  OBVIOUS
<1> USE DEF LInv
\* An action that leaves buf and the configuration alone disturbs nobody else.
<1>a. ASSUME NEW g \in Goroutines, UNCHANGED <<config, buf, intruded>>,
             \A h \in Goroutines \ {g} : pc'[h] = pc[h] /\ caller'[h] = caller[h],
             pc'[g] \notin Building
      PROVE  BufferInv'
  BY <1>a DEF BufferInv, Header, Message, Building
\* An action that uses buf disturbs only those that it intrudes on.
<1>b. ASSUME NEW g \in Goroutines, UNCHANGED config, Uses(g) \/ Begins(g),
             \A h \in Goroutines \ {g} : pc'[h] = pc[h] /\ caller'[h] = caller[h]
      PROVE  \A h \in Goroutines \ {g} : ~intruded'[h] => pc'[h] \notin Building
  BY <1>b, UsesIntrudes
<1>1. ASSUME NEW g \in Goroutines, Lock(g) \/ Relock(g) \/ Write(g) \/ ErrCopy(g) PROVE BufferInv'
  BY <1>1, <1>a DEF Lock, Relock, Write, ErrCopy, TypeOK, Building
<1>2. ASSUME NEW g \in Goroutines, NEW v \in Levels, Call(g, v) PROVE BufferInv'
  BY <1>2, <1>a DEF Call, TypeOK, Building
<1>3. ASSUME NEW g \in Goroutines, FormatHeader(g) \/ NewErrCode(g) PROVE BufferInv'
  <2>1. buf' = <<>> /\ pc'[g] \in {"append", "errAppend"}
    BY <1>3 DEF FormatHeader, NewErrCode, TypeOK
  <2>2. \A h \in Goroutines \ {g} : ~intruded'[h] => pc'[h] \notin Building
    BY <1>3, <1>b DEF FormatHeader, NewErrCode, TypeOK
  <2> QED BY <2>1, <2>2 DEF BufferInv, Building
<1>4. ASSUME NEW g \in Goroutines, AppendHeader(g) \/ AppendMessage(g) \/ ErrAppend(g)
      PROVE  BufferInv'
  <2>1. \A h \in Goroutines \ {g} : ~intruded'[h] => pc'[h] \notin Building
    BY <1>4, <1>b DEF AppendHeader, AppendMessage, ErrAppend, TypeOK
  <2>2. /\ intruded'[g] = intruded[g] /\ Header(g)' = Header(g) /\ Message(g)' = Message(g)
    BY <1>4, UsesIntrudes DEF AppendHeader, AppendMessage, ErrAppend, Header, Message
  <2>3. CASE AppendHeader(g)
    <3>1. ~intruded[g] => buf' = <<Header(g)>>
      BY <2>3, FirstPiece DEF AppendHeader, BufferInv
    <3>2. pc'[g] = "message"
      BY <2>3 DEF AppendHeader, TypeOK
    <3> QED BY <2>1, <2>2, <3>1, <3>2 DEF BufferInv, Building
  <2>4. CASE AppendMessage(g)
    <3>1. ~intruded[g] => buf' = <<Header(g), Message(g)>>
      BY <2>4, SecondPiece DEF AppendMessage, BufferInv
    <3>2. pc'[g] = "write"
      BY <2>4 DEF AppendMessage, TypeOK
    <3> QED BY <2>1, <2>2, <3>1, <3>2 DEF BufferInv, Building
  <2>5. CASE ErrAppend(g)
    <3>1. ~intruded[g] => buf' = <<Header(g)>>
      BY <2>5, FirstPiece DEF ErrAppend, BufferInv
    <3>2. pc'[g] = "errCopy" /\ Header(g).by = g /\ Len(<<Header(g)>>) = 1
      BY <2>5 DEF ErrAppend, TypeOK, Header
    <3> QED BY <2>1, <2>2, <3>1, <3>2 DEF BufferInv, Building
  <2> QED BY <1>4, <2>3, <2>4, <2>5
<1>5. CASE Set
  <2>1. \A g \in Goroutines : pc[g] \notin Inside
    BY <1>5 DEF Set, HolderInv
  <2>2. UNCHANGED <<buf, pc, intruded>>
    BY <1>5 DEF Set
  <2> QED BY <2>1, <2>2 DEF BufferInv
<1>6. CASE UNCHANGED vars
  BY <1>6 DEF vars, BufferInv, Header, Message
<1> QED BY <1>1, <1>2, <1>3, <1>4, <1>5, <1>6 DEF Next, Output

-----------------------------------------------------------------------------
\* The invariant holds in every reachable state.
THEOREM Invariance == Spec => []LInv
<1>1. LInv /\ [Next]_vars => LInv'
  BY TypeStep, HolderStep, BufferStep DEF LInv
<1> QED BY Initially, <1>1, PTL DEF Spec

\* Lines and the texts of errors are whole unless somebody intruded, which is
\* NewErrCode or, for the text of an error, Output as well.
THEOREM LinesWhole == Spec => []WholeUnlessIntruded
<1>1. LInv => WholeUnlessIntruded
  BY DEF LInv, HolderInv, BufferInv, WholeUnlessIntruded
<1> QED BY Invariance, <1>1, PTL

\* Output never prints a file that it did not ask for, although it looks at the
\* flags twice and lets go of l.mu in between (logger.go:254-269).
THEOREM FilesKnown == Spec => []FileIsKnown
<1>1. LInv => FileIsKnown
  BY DEF LInv, HolderInv, FileIsKnown
<1> QED BY Invariance, <1>1, PTL

-----------------------------------------------------------------------------
\* Without errors, nobody builds but who holds l.mu, so that nobody is intruded on.
QuietInv ==
    \A g \in Goroutines :
       /\ pc[g] \notin {"errAppend", "errCopy"}
       /\ pc[g] \in Building => ~intruded[g]

\* A step that makes no error.
NoError == \A g \in Goroutines : ~NewErrCode(g)

LEMMA QuietStep == LInv /\ QuietInv /\ [Next /\ NoError]_vars => QuietInv'
<1> SUFFICES ASSUME LInv, QuietInv, [Next /\ NoError]_vars PROVE QuietInv'
  OBVIOUS
<1> USE DEF LInv, QuietInv, Building
<1>a. \A g, h \in Goroutines : pc[g] \in Inside /\ pc[h] \in Inside => g = h
  BY DEF HolderInv
<1>1. ASSUME NEW g \in Goroutines, Lock(g) \/ Relock(g) \/ Write(g) \/ (\E v \in Levels : Call(g, v))
      PROVE  QuietInv'
  BY <1>1 DEF Lock, Relock, Write, Call, TypeOK
<1>2. ASSUME NEW g \in Goroutines, FormatHeader(g) \/ AppendHeader(g) \/ AppendMessage(g)
      PROVE  QuietInv'
  <2>1. pc[g] \in Inside
    BY <1>2 DEF FormatHeader, AppendHeader, AppendMessage
  <2>2. \A h \in Goroutines \ {g} : pc[h] \notin Building /\ pc'[h] = pc[h]
    BY <1>2, <1>a, <2>1 DEF FormatHeader, AppendHeader, AppendMessage, TypeOK
  <2>3. ~intruded'[g]
    <3>1. CASE FormatHeader(g)
      BY <3>1 DEF FormatHeader, Begins
    <3>2. CASE AppendHeader(g) \/ AppendMessage(g)
      BY <3>2, UsesIntrudes DEF AppendHeader, AppendMessage
    <3> QED BY <1>2, <3>1, <3>2
  <2>4. pc'[g] \notin {"errAppend", "errCopy"}
    BY <1>2 DEF FormatHeader, AppendHeader, AppendMessage, TypeOK
  <2> QED BY <2>2, <2>3, <2>4
<1>3. ASSUME NEW g \in Goroutines PROVE ~ErrAppend(g) /\ ~ErrCopy(g)
  BY DEF ErrAppend, ErrCopy
<1>4. CASE Set
  BY <1>4 DEF Set
<1>5. CASE UNCHANGED vars
  BY <1>5 DEF vars
<1> QED BY <1>1, <1>2, <1>3, <1>4, <1>5 DEF Next, Output, NoError

\* l.mu does ensure atomic writes, as logger.go:76 says, if no error is made: the
\* package function FormatHeader is the only way to break a line.
THEOREM AtomicWithoutErrors == Spec /\ [][NoError]_vars => []AtomicWrites
<1>1. Init => QuietInv
  BY DEF Init, QuietInv, Building
<1>2. LInv /\ QuietInv /\ [Next]_vars /\ [NoError]_vars => QuietInv'
  BY QuietStep
<1>3. LInv /\ QuietInv => AtomicWrites
  BY DEF LInv, QuietInv, BufferInv, AtomicWrites, Building
<1> QED BY <1>1, <1>2, <1>3, Invariance, PTL DEF Spec
=============================================================================
