------------------------------ MODULE Encodings ------------------------------
(***************************************************************************)
(* encoding_size.c: the size of a value, parsed from the text of its type. *)
(* parse_type_and_advance and parse_struct_fields call each other: a frame *)
(* on the stack is a call of them that has begun.  Beside what the parser  *)
(* computes stands the layout that the platform gives the same type.       *)
(***************************************************************************)
EXTENDS Integers, Sequences

CONSTANT Encoded   \* texts of types, as sequences of tokens

Alignments == {1, 2, 4, 8}
Scalar(n) == [kind |-> "scalar", size |-> n]    \* c s i q f d B ...
Token(kind) == [kind |-> kind, size |-> 0]
Kinds == {"object",              \* @ # : *
          "mark",                \* the ? of a block or a function
          "pointer", "void",     \* ^ v
          "other",               \* [ b: what no type begins with
          "struct", "union",     \* up to the = behind the name
          "close"}

\* Every opening has its closing, as the compiler writes them.
ASSUME EncodingsAssumption ==
  Encoded \subseteq Seq({Scalar(n) : n \in Alignments} \cup {Token(k) : k \in Kinds})

VARIABLES
  encoding,
  cursor,    \* characters consumed
  parsing,   \* type, rest of an object, fields, value (a call has returned); done
  stack,     \* calls that have begun, for a pointer, a struct or a union
  value      \* what was returned last

parseVars == <<encoding, cursor, parsing, stack, value>>

\* A size (0: not known) and an alignment, beside those of the platform; shape
\* tells structs without a nested one, and skipped counts the objects that stand
\* behind an object and were passed over with it.
Of(n) ==
  [size |-> n, align |-> n, layout |-> [size |-> n, align |-> n], shape |-> "plain",
   skipped |-> 0]

Unknown == [Of(1) EXCEPT !.size = 0]

Begun(kind, failed) ==
  [kind |-> kind, failed |-> failed, offset |-> 0, align |-> 1,
   layout |-> [size |-> 0, align |-> 1], flat |-> TRUE]

ParseInit ==
  /\ encoding \in Encoded /\ cursor = 0 /\ parsing = "type" /\ stack = <<>> /\ value = Unknown

-----------------------------------------------------------------------------
\* The character at the cursor.
Kind == IF cursor < Len(encoding) THEN encoding[cursor + 1].kind ELSE "end"

Consume == cursor' = cursor + 1 /\ UNCHANGED encoding
Stay == UNCHANGED <<encoding, cursor>>

Top == stack[Len(stack)]
Push(frame) == stack' = Append(stack, frame)
Pop == stack' = SubSeq(stack, 1, Len(stack) - 1)

Return(v) == parsing' = "value" /\ value' = v

\* parse_type_and_advance
ReadScalar ==
  /\ parsing = "type" /\ Kind = "scalar" /\ Consume
  /\ Return(Of(encoding[cursor'].size)) /\ UNCHANGED stack

ReadVoid == parsing = "type" /\ Kind = "void" /\ Consume /\ Return(Unknown) /\ UNCHANGED stack

ReadNothing ==
  /\ parsing = "type" /\ Kind \in {"mark", "other", "close", "end"} /\ Stay
  /\ Return(Unknown) /\ UNCHANGED stack

ReadObject ==
  /\ parsing = "type" /\ Kind = "object" /\ Consume
  /\ parsing' = "rest" /\ value' = Of(8) /\ UNCHANGED stack

\* What is no letter and opens or closes nothing is skipped behind an object.
SkipRest ==
  /\ parsing = "rest" /\ Kind \in {"object", "mark"} /\ Consume
  /\ value' = [value EXCEPT !.skipped = IF Kind = "object" THEN @ + 1 ELSE @]
  /\ UNCHANGED <<parsing, stack>>

EndObject ==
  /\ parsing = "rest" /\ Kind \notin {"object", "mark"} /\ Stay
  /\ Return(value) /\ UNCHANGED stack

ReadPointer ==
  /\ parsing = "type" /\ Kind = "pointer" /\ Consume
  /\ Push(Begun("pointer", FALSE)) /\ UNCHANGED <<parsing, value>>

Enter ==
  /\ parsing = "type" /\ Kind \in {"struct", "union"} /\ Consume
  /\ parsing' = "fields" /\ Push(Begun(Kind, FALSE)) /\ UNCHANGED value

Returned == parsing = "value" /\ stack # <<>>

\* What is pointed to does not matter, but for the objects passed over behind it.
Pointed ==
  /\ Returned /\ Top.kind = "pointer" /\ Stay
  /\ Pop /\ Return([Of(8) EXCEPT !.skipped = value.skipped])

-----------------------------------------------------------------------------
RoundUp(n, a) == ((n + a - 1) \div a) * a
MaxOf(m, n) == IF m >= n THEN m ELSE n

\* Mutant: the guess is never more than 4.
Guess_AtMost4(n) == IF n >= 4 THEN 4 ELSE IF n >= 2 THEN 2 ELSE 1

\* The alignment of a nested struct or union, guessed from its size.
Guess(n) == IF n >= 8 THEN 8 ELSE IF n >= 4 THEN 4 ELSE IF n >= 2 THEN 2 ELSE 1

\* The platform's layout of a struct or union, with a member more and the objects
\* that the parser passed over behind it, each a member of its own to the platform.
Placed(layout, member, skipped, kind) ==
  [size |-> IF kind = "union" THEN MaxOf(layout.size, member.size)
            ELSE RoundUp(layout.size, member.align) + member.size + 8 * skipped,
   align |-> MaxOf(layout.align, member.align)]

\* parse_struct_fields: one turn of its loop.
WithField(frame, v) ==
  IF v.size = 0 THEN [frame EXCEPT !.failed = TRUE]
  ELSE [frame EXCEPT !.offset = RoundUp(@, v.align) + v.size, !.align = MaxOf(@, v.align),
                     !.layout = Placed(@, v.layout, v.skipped, frame.kind),
                     !.flat = @ /\ v.shape = "plain"]

AddField ==
  /\ Returned /\ Top.kind # "pointer" /\ Stay
  /\ stack' = [stack EXCEPT ![Len(stack)] = WithField(@, value)]
  /\ parsing' = "fields" /\ UNCHANGED value

NextField ==
  /\ parsing = "fields" /\ ~ Top.failed /\ Kind # "close" /\ Stay
  /\ parsing' = "type" /\ UNCHANGED <<stack, value>>

\* After a member of unknown size the cursor is moved to the end of the struct.
PassOver ==
  /\ parsing = "fields" /\ Top.failed /\ Kind \notin {"struct", "union", "close", "end"} /\ Consume
  /\ UNCHANGED <<parsing, stack, value>>

PassInto ==
  /\ parsing = "fields" /\ Top.failed /\ Kind \in {"struct", "union"} /\ Consume
  /\ Push(Begun(Kind, TRUE)) /\ UNCHANGED <<parsing, value>>

Whole(frame) ==
  LET size == RoundUp(frame.offset, frame.align)
      layout == frame.layout
  IN [size |-> size, align |-> Guess(size),
      layout |-> [layout EXCEPT !.size = RoundUp(@, layout.align)],
      shape |-> IF frame.kind = "struct" /\ frame.flat THEN "flat" ELSE "nested",
      skipped |-> 0]

Leave ==
  /\ parsing = "fields" /\ Kind = "close" /\ Consume
  /\ Pop /\ Return(IF Top.failed THEN Unknown ELSE Whole(Top))

\* get_size_of_type_from_type_encoding
Measure == parsing = "value" /\ stack = <<>> /\ parsing' = "done" /\ UNCHANGED <<encoding, cursor, stack, value>>

ParseNext ==
  \/ ReadScalar \/ ReadVoid \/ ReadNothing \/ ReadObject \/ SkipRest \/ EndObject
  \/ ReadPointer \/ Enter \/ Pointed
  \/ AddField \/ NextField \/ PassOver \/ PassInto \/ Leave \/ Measure

ParseSpec == ParseInit /\ [][ParseNext]_parseVars

-----------------------------------------------------------------------------
\* The parser never reads behind the end of the text, and ends with no call open.
CursorInside == cursor \in 0..Len(encoding) /\ (parsing = "done" => stack = <<>>)

\* An object stands behind another, with at most the marks of blocks between.
ObjectsAdjoin(text) ==
  \E i, j \in DOMAIN text :
    /\ i < j /\ text[i].kind = "object" /\ text[j].kind = "object"
    /\ \A k \in DOMAIN text : i < k /\ k < j => text[k].kind = "mark"

\* Of a type in which no object stands right behind another, the size that is found
\* is never too small, though nested alignments are guesses and a union is laid out
\* as a struct; without nesting it is exact.
CoversLayout ==
  parsing = "done" /\ value.size # 0 /\ ~ ObjectsAdjoin(encoding) =>
    /\ value.size >= value.layout.size
    /\ value.shape # "nested" => value.size = value.layout.size
=============================================================================
