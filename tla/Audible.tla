---------------------------- MODULE Audible ----------------------------
(***************************************************************************)
(* The audio converter of hw1: validargs and recode, one step per frame    *)
(* read, and one per frame that is put between two others.                 *)
(* A frame is kept as one int per byte, in arrays of 8 bytes: frames of    *)
(* more than two bytes run into what the linker put behind, so the frame   *)
(* arrays and the header live in one memory, counted in ints.              *)
(***************************************************************************)
EXTENDS Integers, Sequences

CONSTANTS Base,           \* values of a byte; an int has four of them
          Bytes,          \* bytes the input contains
          CommandLines,   \* sequences of arguments, see Argument
          Headers,        \* headers of the input
          XorByte(_, _),  \* ^ on two bytes
          Random(_, _),   \* myrand32: key, number of the call from 1 on -> four bytes
          Layouts,        \* addresses the linker can give to the arrays and hp
          AnnotationMax,  \* ANNOTATION_MAX
          ProgramName,    \* length of argv[0]
          MaxFrames       \* bound: frames of the input

\* second: the character a switch is known by; number: strToInt; digits: the hexadecimal
\* value, or -1 when validargs finds another character.
Argument == [length : Nat, dash : BOOLEAN, second : {"h", "u", "d", "c", "f", "k", "p", "other"},
             number : Int, digits : Int]

\* Bound: the part of the memory that is modelled; an array with a frame of eight ints is inside.
Memory == 0..30
Address == 0..23

Byte == 0..(Base - 1)
Keys == {0} \cup UNION {{args[k].digits : k \in DOMAIN args} : args \in CommandLines}

ASSUME AudibleAssumption ==
  /\ Base \in Nat /\ Base >= 2 /\ Bytes \subseteq Byte
  /\ CommandLines \subseteq Seq(Argument)
  /\ Headers \subseteq [data_offset : Nat, data_size : Nat, encoding : Nat, channels : Nat]
  /\ Layouts \subseteq [input : Address, output : Address, previous : Address, hp : Address]
  /\ AnnotationMax \in Nat /\ ProgramName \in Nat /\ MaxFrames \in Nat

\* ^ gives a byte and undoes itself; myrand32 gives four bytes.
ASSUME CipherAssumption ==
  /\ \A a, b \in Byte : XorByte(a, b) \in Byte /\ XorByte(XorByte(a, b), b) = a
  /\ \A key \in Keys, i \in 1..(2 * MaxFrames) : Random(key, i) \in [1..4 -> Byte]

VARIABLES phase,    \* where the program is
          argv,     \* argv[1], argv[2], ...
          options,  \* global_options
          hp,       \* the header; data_offset counts bytes
          layout, mem,
          counter,  \* frames read
          turn,     \* i of the loop that puts frames in between
          random,   \* calls of myrand32
          written,  \* length of the annotation, and the frames written
          source, feed, round   \* frames read in round 1; round 2 reads what round 1 wrote

vars == <<phase, argv, options, hp, layout, mem, counter, turn, random, written, source, feed, round>>

HeaderSize == 24
Chosen(m, N, K) == [mode |-> m, factor |-> N, key |-> K, preserve |-> FALSE]
Preserving(m, N, K) == [mode |-> m, factor |-> N, key |-> K, preserve |-> TRUE]   \* with -p
NoOptions == Chosen("none", 1, 0)
NoHeader == [data_offset |-> 0, data_size |-> 0, encoding |-> 0, channels |-> 0]
Nothing == [annotation |-> 0, frames |-> <<>>]

(***************************************************************************)
(* validargs: "usage" for what it refuses.                                 *)
(***************************************************************************)
Refused == Chosen("usage", 1, 0)

Second(args, k) == args[k].second

\* -u or -d, then -f N, -p, -f N -p or -p -f N; a negative N is looked for only in the first place.
SpeedOptions(args, m) ==
  LET n == Len(args)
      ok(N) == N \in 1..1024
  IN CASE n = 1 -> Chosen(m, 1, 0)
       [] n = 2 /\ Second(args, 2) = "p" -> Preserving(m, 1, 0)
       [] n = 3 /\ Second(args, 2) = "f" /\ ~ args[3].dash /\ ok(args[3].number) -> Chosen(m, args[3].number, 0)
       [] n = 4 /\ Second(args, 2) = "f" /\ ~ args[3].dash /\ ok(args[3].number) /\ Second(args, 4) = "p" ->
            Preserving(m, args[3].number, 0)
       [] n = 4 /\ Second(args, 2) = "p" /\ Second(args, 3) = "f" /\ ok(args[4].number) -> Preserving(m, args[4].number, 0)
       [] OTHER -> Refused

\* -c alone has key 0; after -p the digits are looked for in argv[3], which is "-k".
CryptOptions(args) ==
  LET n == Len(args)
      hex(k) == args[k].digits >= 0 /\ args[k].length <= 8
  IN CASE n = 1 -> Chosen("c", 1, 0)
       [] n = 3 /\ Second(args, 2) = "k" /\ hex(3) -> Chosen("c", 1, args[3].digits)
       [] n = 4 /\ Second(args, 2) = "k" /\ hex(3) /\ Second(args, 4) = "p" -> Preserving("c", 1, args[3].digits)
       [] n = 4 /\ Second(args, 2) = "p" /\ Second(args, 3) = "k" /\ hex(3) -> Preserving("c", 1, args[4].digits)
       [] OTHER -> Refused

ParseOptions(args) ==
  CASE args = <<>> -> Refused
    [] args # <<>> /\ Second(args, 1) = "h" -> Chosen("help", 1, 0)
    [] args # <<>> /\ Second(args, 1) \in {"u", "d"} -> SpeedOptions(args, Second(args, 1))
    [] args # <<>> /\ Second(args, 1) = "c" -> CryptOptions(args)
    [] OTHER -> Refused

(***************************************************************************)
(* Start, header, annotation.                                              *)
(***************************************************************************)
Init ==
  /\ phase = "start" /\ options = NoOptions /\ hp = NoHeader
  /\ argv \in CommandLines /\ layout \in Layouts
  /\ mem = [a \in Memory |-> 0]
  /\ counter = 0 /\ turn = 0 /\ random = 0 /\ written = Nothing /\ source = <<>> /\ feed = <<>> /\ round = 1

ValidArgs ==
  /\ phase = "start"
  /\ options' = ParseOptions(argv)
  /\ phase' = IF options'.mode \in {"usage", "help"} THEN "exited" ELSE "header"
  /\ UNCHANGED <<argv, hp, layout, mem, counter, turn, random, written, source, feed, round>>

\* data_offset is compared with ANNOTATION_MAX as a whole.
ValidHeader(h) ==
  /\ h.data_offset % 8 = 0 /\ h.data_offset <= AnnotationMax /\ h.data_offset >= HeaderSize
  /\ h.encoding \in 2..5 /\ h.channels \in 1..2

ReadHeader ==
  /\ phase = "header"
  /\ \E h \in IF round = 1 THEN Headers ELSE {hp} :
       /\ hp' = h
       /\ phase' = IF ValidHeader(h) THEN "annotation" ELSE "failed"
  /\ UNCHANGED <<argv, options, layout, mem, counter, turn, random, written, source, feed, round>>

Bps == hp.encoding - 1
FrameInts == hp.channels * Bps
WordSize == Base * Base * Base * Base
RoundUp(n) == ((n + 7) \div 8) * 8

\* The command line in front of the text; argv[2] is read even when there is none.
Prefix == ProgramName + 3 + (IF Len(argv) > 1 /\ Second(argv, 2) \in (IF options.mode = "c" THEN {"k"} ELSE {"f"})
                             THEN 4 + argv[3].length ELSE 0) + 1

\* Length of the annotation made from a text of the given length, with its final zeros.
Annotation(text) == RoundUp(Prefix + text + 1)

NewDataSize ==
  CASE options.mode = "u" -> hp.data_size \div options.factor
    [] options.mode = "d" -> (hp.data_size * options.factor) % WordSize
    [] options.mode = "c" -> hp.data_size

\* The text ends at the first zero; the last byte must be one.  With no annotation the tested
\* character was never read.  An annotation longer than the maximum is not written, after the header was,
\* and what it overran is not modelled.
ReadAnnotation ==
  LET size == hp.data_offset - HeaderSize IN
  /\ phase = "annotation"
  /\ \E text \in IF size = 0 THEN {0} ELSE 0..(size - 1), valid \in BOOLEAN :
       LET new == IF options.preserve THEN size ELSE Annotation(text) IN
       IF ~ valid THEN phase' = "failed" /\ UNCHANGED <<hp, written>>
       ELSE IF ~ options.preserve /\ Len(argv) = 1 THEN phase' = "crashed" /\ UNCHANGED <<hp, written>>
       ELSE IF new > AnnotationMax THEN phase' = "undefined" /\ UNCHANGED <<hp, written>>
       ELSE /\ hp' = [hp EXCEPT !.data_offset = HeaderSize + new, !.data_size = NewDataSize]
            /\ written' = [written EXCEPT !.annotation = new]
            /\ phase' = IF options.mode = "d" THEN "first" ELSE "frames"
  /\ UNCHANGED <<argv, options, layout, mem, counter, turn, random, source, feed, round>>

(***************************************************************************)
(* Frames.                                                                 *)
(***************************************************************************)
\* Frames are read up to the end of the input, whatever data_size says; a partial one is dropped.
NextFrames ==
  IF phase \notin {"first", "frames"} THEN {}
  ELSE IF round = 2 THEN (IF counter < Len(feed) THEN {feed[counter + 1]} ELSE {})
  ELSE IF counter < MaxFrames THEN [1..FrameInts -> Bytes] ELSE {}

Store(m, at, values) ==
  [a \in DOMAIN m |-> IF a - at + 1 \in DOMAIN values THEN values[a - at + 1] ELSE m[a]]

\* putchar writes the low byte of the int.
Fetch(m, at) == [j \in 1..FrameInts |-> m[at + j - 1] % Base]

\* Mutant: the last int is not copied.
CopyFrameShort(m, to, from) ==
  [a \in DOMAIN m |-> IF a \in to..(to + FrameInts - 2) THEN m[from + (a - to)] ELSE m[a]]

\* framecpy: one int after the other, upwards; what lies less than a frame below repeats itself.
CopyFrame(m, to, from) ==
  LET ahead == IF to > from THEN to - from ELSE FrameInts
  IN [a \in DOMAIN m |-> IF a \in to..(to + FrameInts - 1) THEN m[from + ((a - to) % ahead)] ELSE m[a]]

\* A frame in these arrays would reach the header: the program goes on with another format.
Overrun ==
  LET used == CASE phase = "first" -> {layout.previous}
                [] phase # "first" /\ options.mode = "d" ->
                     {layout.input, layout.previous} \cup (IF options.factor > 1 THEN {layout.output} ELSE {})
                [] options.mode = "u" -> {layout.input}
                [] options.mode = "c" -> {layout.input, layout.output}
  IN \E at \in used : at <= layout.hp + 5 /\ layout.hp <= at + FrameInts - 1

PutSample(m, c, bytes) == Store(m, layout.output + c * Bps, bytes)

Channel(m, at, c) == [j \in 1..Bps |-> m[at + c * Bps + j - 1]]

\* Mutant: the bytes of the encrypted sample are stored in the opposite order.
CryptSwapped(m, c) ==
  PutSample(m, c, [j \in 1..Bps |->
    XorByte(Channel(m, layout.input, c)[Bps + 1 - j], Random(options.key, random + c + 1)[5 - j])])

\* k ^ myrand32(): the low bytes of both.
CryptChannel(m, c) ==
  PutSample(m, c, [j \in 1..Bps |->
    XorByte(Channel(m, layout.input, c)[j], Random(options.key, random + c + 1)[4 - Bps + j])])

\* A channel of the output frame is computed after the one before it was stored; there are one or two.
Crypt(m) ==
  LET left == CryptChannel(m, 0) IN IF hp.channels = 1 THEN left ELSE CryptChannel(left, 1)

Int32(x) == LET w == x % WordSize IN IF 2 * w >= WordSize THEN w - WordSize ELSE w
Quotient(a, b) == IF a < 0 THEN -((-a) \div b) ELSE a \div b

\* The big-endian number of Bps bytes.
Number(b) ==
  CASE Bps = 1 -> b[1]
    [] Bps = 2 -> b[1] * Base + b[2]
    [] Bps = 3 -> (b[1] * Base + b[2]) * Base + b[3]
    [] Bps = 4 -> ((b[1] * Base + b[2]) * Base + b[3]) * Base + b[4]

\* Samples below four bytes are taken as unsigned.
Value(bytes) == Int32(Number(bytes))
Between(c, d, k, fac) == c + Quotient(Int32((d - c) * k), fac)

\* e without its lowest n bytes.
Shifted(e, n) ==
  CASE n = 0 -> e [] n = 1 -> e \div Base [] n = 2 -> e \div (Base * Base) [] n = 3 -> e \div (Base * Base * Base)

SignedByte(b) == IF 2 * b >= Base THEN b - Base ELSE b

Interpolated(m, k, c) ==
  Between(Value(Channel(m, layout.previous, c)), Value(Channel(m, layout.input, c)), k, options.factor)

\* Mutant: the higher bytes are not shifted out.
InterpolateWide(m, k, c) ==
  PutSample(m, c, [j \in 1..Bps |-> Shifted(Interpolated(m, k, c), Bps - j)])

\* The last shift keeps the sign.
InterpolateChannel(m, k, c) ==
  PutSample(m, c, [j \in 1..Bps |-> SignedByte(Shifted(Interpolated(m, k, c), Bps - j) % Base)])

\* calcu_frame for the k-th inserted frame.
Interpolate(m, k) ==
  LET left == InterpolateChannel(m, k, 0) IN IF hp.channels = 1 THEN left ELSE InterpolateChannel(left, k, 1)

\* One frame is read.
Get(frame) ==
  /\ counter' = counter + 1
  /\ source' = IF round = 1 THEN Append(source, frame) ELSE source
  /\ UNCHANGED <<argv, options, hp, layout, feed, round>>

Put(frames) == written' = [written EXCEPT !.frames = @ \o frames]

\* Mutant: the first frame is dropped, not kept.
SpeedUpLate(frame) ==
  /\ phase = "frames" /\ options.mode = "u" /\ ~ Overrun
  /\ Get(frame)
  /\ mem' = Store(mem, layout.input, frame)
  /\ Put(IF (counter + 1) % options.factor = 0 THEN <<Fetch(mem', layout.input)>> ELSE <<>>)
  /\ UNCHANGED <<phase, random, turn>>

SpeedUp(frame) ==
  /\ phase = "frames" /\ options.mode = "u" /\ ~ Overrun
  /\ Get(frame)
  /\ mem' = Store(mem, layout.input, frame)
  /\ Put(IF counter % options.factor = 0 THEN <<Fetch(mem', layout.input)>> ELSE <<>>)
  /\ UNCHANGED <<phase, random, turn>>

FirstFrame(frame) ==
  /\ phase = "first" /\ ~ Overrun
  /\ Get(frame)
  /\ mem' = Store(mem, layout.previous, frame)
  /\ Put(<<Fetch(mem', layout.previous)>>)
  /\ phase' = "frames" /\ UNCHANGED <<random, turn>>

SlowDown(frame) ==
  /\ phase = "frames" /\ options.mode = "d" /\ ~ Overrun
  /\ Get(frame)
  /\ mem' = Store(mem, layout.input, frame)
  /\ turn' = 1 /\ phase' = "between"
  /\ UNCHANGED <<random, written>>

InsertFrame ==
  /\ phase = "between" /\ turn < options.factor
  /\ mem' = Interpolate(mem, turn)
  /\ Put(<<Fetch(mem', layout.output)>>)
  /\ turn' = turn + 1
  /\ UNCHANGED <<phase, argv, options, hp, layout, counter, random, source, feed, round>>

\* After the inserted frames, the one read is written and becomes the previous one.
KeepFrame ==
  /\ phase = "between" /\ turn >= options.factor
  /\ Put(<<Fetch(mem, layout.input)>>)
  /\ mem' = CopyFrame(mem, layout.previous, layout.input)
  /\ phase' = "frames"
  /\ UNCHANGED <<argv, options, hp, layout, counter, turn, random, source, feed, round>>

CryptFrame(frame) ==
  /\ phase = "frames" /\ options.mode = "c" /\ ~ Overrun
  /\ Get(frame)
  /\ mem' = Crypt(Store(mem, layout.input, frame))
  /\ random' = random + hp.channels
  /\ Put(<<Fetch(mem', layout.output)>>)
  /\ UNCHANGED <<phase, turn>>

Smash ==
  /\ phase \in {"first", "frames"} /\ Overrun /\ NextFrames # {}
  /\ phase' = "undefined"
  /\ UNCHANGED <<argv, options, hp, layout, mem, counter, turn, random, written, source, feed, round>>

EndOfInput ==
  /\ phase \in {"first", "frames"} /\ (round = 1 \/ NextFrames = {})
  /\ phase' = "done"
  /\ UNCHANGED <<argv, options, hp, layout, mem, counter, turn, random, written, source, feed, round>>

\* The same command reads what the last one wrote.
RunAgain ==
  /\ phase = "done" /\ round = 1 /\ options.mode = "c"
  /\ phase' = "start" /\ round' = 2
  /\ feed' = written.frames /\ written' = Nothing
  /\ mem' = [a \in DOMAIN mem |-> 0] /\ counter' = 0 /\ turn' = 0 /\ random' = 0 /\ options' = NoOptions
  /\ UNCHANGED <<argv, hp, layout, source>>

Next ==
  \/ ValidArgs \/ ReadHeader \/ ReadAnnotation
  \/ \E frame \in NextFrames : SpeedUp(frame) \/ FirstFrame(frame) \/ SlowDown(frame) \/ CryptFrame(frame)
  \/ InsertFrame \/ KeepFrame \/ Smash \/ EndOfInput \/ RunAgain

Spec == Init /\ [][Next]_vars

(***************************************************************************)
(* Properties.                                                             *)
(***************************************************************************)
Frames == UNION {[1..n -> Byte] : n \in 1..8}

\* The arrays hold bytes, signed ones where calcu_frame stored them, and what was read and written are
\* frames of one length: no step of recode computes an int that putchar would cut.
AudibleTypeOK ==
  /\ phase \in {"start", "exited", "header", "annotation", "first", "frames", "between", "done", "failed", "crashed", "undefined"}
  /\ options.mode \in {"none", "usage", "help", "u", "d", "c"} /\ options.factor \in 1..1024
  /\ \A a \in DOMAIN mem : mem[a] \in -Base..(Base - 1)
  /\ counter \in 0..MaxFrames /\ turn \in 0..1024 /\ random \in 0..(2 * MaxFrames) /\ round \in 1..2
  /\ source \in Seq(Frames) /\ written.frames \in Seq(Frames) /\ feed \in Seq(Frames)

\* Two arrays do not run into each other with frames of this format.
Apart(a, b) == a + FrameInts <= b \/ b + FrameInts <= a

\* recode with -c, given its own output and the same key, writes the frames it first read: both runs draw
\* the same number of words from myrand32 for each frame, whatever the annotation and the -p, in every
\* format whose input and output arrays do not run into each other.
CryptTwice ==
  round = 2 /\ phase = "done" /\ Apart(layout.input, layout.output) => written.frames = source

FramesApart ==
  /\ Apart(layout.previous, layout.input) /\ Apart(layout.input, layout.output)
  /\ Apart(layout.previous, layout.output)

\* A sample as calcu_frame takes it below four bytes, and as include/audio.h defines it: two's complement.
Sample(frame, c) == Number([j \in 1..Bps |-> frame[c * Bps + j]])
Span == Number([j \in 1..Bps |-> Base - 1]) + 1
Signed(frame, c) == LET n == Sample(frame, c) IN IF 2 * n >= Span THEN n - Span ELSE n

Ordered(a, b, c) == (a <= b /\ b <= c) \/ (c <= b /\ b <= a)

\* No product in calcu_frame reaches 2^31 between samples a and b.
Moderate(a, b) == \A d \in {a - b, b - a} : 2 * (d * (options.factor - 1)) < WordSize

At(i) == 1 + (i - 1) * options.factor

\* From the frame read as i - 1 to frame i, channel c does not turn back.
Straight(i, c) ==
  \A x \in At(i - 1)..(At(i) - 1) :
    Ordered(Signed(written.frames[x], c), Signed(written.frames[x + 1], c), Signed(source[i], c))

SteadyPair(i, c) == Moderate(Signed(source[i - 1], c), Signed(source[i], c))
SameSign(i, c) == (Signed(source[i - 1], c) < 0) = (Signed(source[i], c) < 0)

\* recode with -d, while the frame arrays do not overlap: every frame read is written, factor - 1 frames lie
\* between it and the next one, and each channel moves from the one to the other without turning back,
\* when the two samples have the same sign and no product overflows.
SlowDownInterpolates ==
  options.mode = "d" /\ phase = "frames" /\ FramesApart =>
     /\ Len(written.frames) = At(Len(source))
     /\ \A i \in DOMAIN source : written.frames[At(i)] = source[i]
     /\ \A i \in 2..Len(source), c \in 0..(hp.channels - 1) :
          SameSign(i, c) /\ SteadyPair(i, c) => Straight(i, c)

Converted(n) ==
  CASE options.mode = "u" -> n \div options.factor
    [] options.mode = "d" -> n * options.factor
    [] options.mode = "c" -> n

\* The header is written before the frames are counted.  Its data_offset is where they start, a multiple of
\* eight.  When the input's data_size was that of its frames, -c announces what it writes, and at least
\* as many bytes as -u announces follow, exactly as many when the factor divides the number of frames.
HeaderCountsFrames ==
  LET n == Len(source) * FrameInts
      m == Len(written.frames) * FrameInts
  IN (round = 1 /\ phase = "done" /\ source # <<>>) =>
       /\ hp.data_offset = HeaderSize + written.annotation /\ hp.data_offset % 8 = 0
       /\ hp.data_size = Converted(n) =>
            /\ options.mode = "c" => m = hp.data_size
            /\ options.mode = "u" => hp.data_size <= m
            /\ options.mode = "u" /\ Len(source) % options.factor = 0 => hp.data_size = m
=============================================================================
