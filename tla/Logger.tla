-------------------------------- MODULE Logger --------------------------------
(***************************************************************************)
(* The logger that every goroutine of skynet_go shares (logger/logger.go). *)
(* Output builds a line in l.buf with l.mu held, except that it lets go of *)
(* l.mu while it asks the runtime for the caller's file, and writes it in  *)
(* one call.  The package function FormatHeader, which NewErrCode uses for *)
(* the text of an error, builds a header in the same buffer without l.mu.  *)
(*                                                                         *)
(* A line is a sequence of pieces, each with the goroutine that appended   *)
(* it; a piece is appended in one step.  The Go memory model promises less *)
(* of two goroutines that append at once; any such outcome comes with an   *)
(* intrusion as it is recorded here.  isPanic, and panics, are left out.   *)
(***************************************************************************)
EXTENDS Naturals, Sequences

CONSTANTS Goroutines,
          Levels,       \* the levels of messages, a set of numbers
          Prefixes,     \* what SetPrefix is called with
          Nobody        \* no goroutine

ASSUME LoggerAssumption == Nobody \notin Goroutines /\ Levels \subseteq Nat

VARIABLES
    mu,        \* l.mu: the goroutine that holds it, or Nobody
    prefix,    \* l.prefix
    flag,      \* l.flag: whether Lshortfile or Llongfile is set
    level,     \* l.level
    out,       \* l.out: the set of destinations of a line
    buf,       \* l.buf: the pieces of the line or header that is being built
    pc,        \* where each goroutine is
    caller,    \* the goroutine has asked for its caller's file
    intruded   \* history: somebody else used buf since g began to build in it

config == <<prefix, flag, level, out>>
vars   == <<mu, config, buf, pc, caller, intruded>>

\* New: the destinations for a model, when the file can be opened or cannot.
Destinations(m, opened) == IF "file" \in m /\ ~opened THEN {"screen"} ELSE m

Models == {{"screen"}, {"file"}, {"screen", "file"}}

Init ==
    /\ mu = Nobody
    /\ \E m \in Models, opened \in BOOLEAN :
          out = Destinations(m, opened)
    /\ prefix \in Prefixes /\ flag \in BOOLEAN /\ level \in Levels
    /\ buf = <<>>
    /\ pc = [g \in Goroutines |-> "idle"]
    /\ caller = [g \in Goroutines |-> FALSE]
    /\ intruded = [g \in Goroutines |-> FALSE]

Goto(g, l) == pc' = [pc EXCEPT ![g] = l]

\* Goroutines that build something in buf, by where they are.
Building == {"append", "message", "write", "errAppend", "errCopy"}

\* g uses buf: whoever else is building in it is intruded on.
Uses(g) ==
    intruded' = [h \in Goroutines |->
                    IF h = g THEN intruded[h] ELSE intruded[h] \/ pc[h] \in Building]
\* g begins to build.
Begins(g) ==
    intruded' = [h \in Goroutines |-> h # g /\ (intruded[h] \/ pc[h] \in Building)]

Header(g) == [by |-> g, prefix |-> prefix, file |-> flag, known |-> caller[g]]
Message(g) == [by |-> g]

-----------------------------------------------------------------------------
(* All, Debug, Trace, Err, Fatal, Print, Panic and ErrorCode, and Output:  *)
(* they look at l.level without l.mu.                                      *)
Call(g, v) ==
    /\ pc[g] = "idle" /\ v >= level
    /\ Goto(g, "lock")
    /\ UNCHANGED <<mu, config, buf, caller, intruded>>

\* mutant: l.mu is released whatever the flags are
AlwaysReleased(g) == Nobody
\* "Release lock while getting caller info - it's expensive."
HolderAfterTest(g) == IF flag THEN Nobody ELSE g

(* Output takes l.mu and looks at the flags; with a file flag it lets go   *)
(* of l.mu, and has to take it again.                                      *)
Lock(g) ==
    /\ pc[g] = "lock" /\ mu = Nobody
    /\ mu' = HolderAfterTest(g)
    /\ caller' = [caller EXCEPT ![g] = flag]
    /\ Goto(g, IF HolderAfterTest(g) = g THEN "header" ELSE "relock")
    /\ UNCHANGED <<config, buf, intruded>>

Unowned(g) == TRUE     \* mutant: l.mu is not taken again
\* The second l.mu.Lock.
MayRelock(g) == mu = Nobody

Relock(g) ==
    /\ pc[g] = "relock" /\ MayRelock(g)
    /\ mu' = g
    /\ Goto(g, "header")
    /\ UNCHANGED <<config, buf, caller, intruded>>

(* Logger.FormatHeader empties the buffer and appends the header,          *)
FormatHeader(g) ==
    /\ pc[g] = "header"
    /\ buf' = <<>>
    /\ Begins(g) /\ Goto(g, "append")
    /\ UNCHANGED <<mu, config, caller>>

AppendHeader(g) ==
    /\ pc[g] = "append"
    /\ buf' = Append(buf, Header(g))
    /\ Uses(g) /\ Goto(g, "message")
    /\ UNCHANGED <<mu, config, caller>>

(* Output appends the message                                              *)
AppendMessage(g) ==
    /\ pc[g] = "message"
    /\ buf' = Append(buf, Message(g))
    /\ Uses(g) /\ Goto(g, "write")
    /\ UNCHANGED <<mu, config, caller>>

(* and writes the line; the deferred Unlock.                               *)
Write(g) ==
    /\ pc[g] = "write"
    /\ mu' = Nobody
    /\ Goto(g, "idle")
    /\ UNCHANGED <<config, buf, caller, intruded>>

-----------------------------------------------------------------------------
(* errorCode.NewErrCode: the package function FormatHeader, without l.mu;  *)
(* the buffer is then copied for the text of the error.                    *)
NewErrCode(g) ==
    /\ pc[g] = "idle"
    /\ buf' = <<>>
    /\ Begins(g) /\ Goto(g, "errAppend")
    /\ caller' = [caller EXCEPT ![g] = TRUE]
    /\ UNCHANGED <<mu, config>>

ErrAppend(g) ==
    /\ pc[g] = "errAppend"
    /\ buf' = Append(buf, Header(g))
    /\ Uses(g) /\ Goto(g, "errCopy")
    /\ UNCHANGED <<mu, config, caller>>

ErrCopy(g) ==
    /\ pc[g] = "errCopy"
    /\ Goto(g, "idle")
    /\ UNCHANGED <<mu, config, buf, caller, intruded>>

-----------------------------------------------------------------------------
(* SetLevel, SetOutput, SetFlags and SetPrefix, each with l.mu held.       *)
(* SetModel sets a field that nothing reads.                               *)
Set ==
    /\ mu = Nobody
    /\ \/ level' \in Levels /\ UNCHANGED <<prefix, flag, out>>
       \/ out' \in Models /\ UNCHANGED <<prefix, flag, level>>
       \/ flag' \in BOOLEAN /\ UNCHANGED <<prefix, level, out>>
       \/ prefix' \in Prefixes /\ UNCHANGED <<flag, level, out>>
    /\ UNCHANGED <<mu, buf, pc, caller, intruded>>

Output(g) ==
    \/ Lock(g) \/ Relock(g)
    \/ FormatHeader(g) \/ AppendHeader(g) \/ AppendMessage(g) \/ Write(g)

Next ==
    \/ \E g \in Goroutines :
          \/ (\E v \in Levels : Call(g, v)) \/ Output(g)
          \/ NewErrCode(g) \/ ErrAppend(g) \/ ErrCopy(g)
    \/ Set

Spec == Init /\ [][Next]_vars

-----------------------------------------------------------------------------
(* A line is written whole, in one call, by the goroutine that holds l.mu, *)
(* and its header is made from one configuration, which holds until it is  *)
(* written, unless another goroutine has made an error meanwhile; and the  *)
(* text of an error is its own under the same condition.                   *)
WholeUnlessIntruded ==
    \A g \in Goroutines :
       ~intruded[g] =>
          /\ pc[g] = "write" => mu = g /\ buf = <<Header(g), Message(g)>>
          /\ pc[g] = "errCopy" => Len(buf) = 1 /\ buf[1].by = g

(* A line never shows a file that was not asked for: Output looks at the   *)
(* flags twice, and SetFlags may come in between, but not when the first   *)
(* look finds no file flag.                                                *)
FileIsKnown == \A g \in Goroutines : pc[g] = "write" /\ flag => caller[g]

(* logger.go: mu "ensures atomic writes; protects the following fields":   *)
(* what is about to be written is one header and its message.              *)
AtomicWrites ==
    \A g \in Goroutines : pc[g] = "write" => buf = <<Header(g), Message(g)>>
=============================================================================
