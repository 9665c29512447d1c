--------------------------- MODULE AudibleProofs ---------------------------
(* Proofs about the audio converter, for every width of a byte, every      *)
(* command line, header and input, and every place of the frame arrays in  *)
(* memory.                                                                 *)
EXTENDS Audible, SequenceTheorems, WellFoundedInduction, TLAPS

-----------------------------------------------------------------------------
(* Arithmetic. *)

LEMMA DivMod ==
  ASSUME NEW a \in Int, NEW b \in Nat, b > 0
  PROVE  /\ a \div b \in Int /\ a % b \in 0..(b - 1)
         /\ a = b * (a \div b) + (a % b)
  OBVIOUS

(* The quotient and the remainder are the only ones.                       *)
LEMMA DivModUnique ==
  ASSUME NEW a \in Int, NEW b \in Nat, b > 0, NEW q \in Int, NEW r \in 0..(b - 1), a = b * q + r
  PROVE  a \div b = q /\ a % b = r
  <1>1. PICK p : p = a \div b
    OBVIOUS
  <1>2. PICK s : s = a % b
    OBVIOUS
  <1>3. p \in Int /\ s \in 0..(b - 1) /\ a = b * p + s
    BY <1>1, <1>2, DivMod
  <1>4. b * (p - q) = r - s
    BY <1>3
  <1>5. ~ (p - q >= 1)
    <2> SUFFICES ASSUME p - q >= 1
                 PROVE  FALSE
      OBVIOUS
    <2>1. b * (p - q) >= b
      BY <1>3
    <2> QED BY <1>3, <1>4, <2>1
  <1>6. ~ (q - p >= 1)
    <2> SUFFICES ASSUME q - p >= 1
                 PROVE  FALSE
      OBVIOUS
    <2>1. b * (q - p) >= b
      BY <1>3
    <2>2. b * (q - p) = s - r
      BY <1>3
    <2> QED BY <1>3, <2>1, <2>2
  <1>7. p = q
    BY <1>3, <1>5, <1>6
  <1>8. s = r
    BY <1>3, <1>7
  <1> QED BY <1>1, <1>2, <1>7, <1>8

LEMMA ModSmall ==
  ASSUME NEW b \in Nat, NEW a \in 0..(b - 1)
  PROVE  a % b = a /\ a \div b = 0
  <1>1. a = b * 0 + a /\ b > 0
    OBVIOUS
  <1> QED BY <1>1, DivModUnique

LEMMA DivNat ==
  ASSUME NEW a \in Nat, NEW b \in Nat, b > 0
  PROVE  a \div b \in Nat /\ a % b \in Nat
  <1>1. a \div b \in Int /\ a % b \in 0..(b - 1) /\ a = b * (a \div b) + (a % b)
    BY DivMod
  <1>2. PICK q, s : q = a \div b /\ s = a % b
    OBVIOUS
  <1>3. ~ (q <= -1)
    <2> SUFFICES ASSUME q <= -1
                 PROVE  FALSE
      OBVIOUS
    <2>1. b * q <= -b
      BY <1>1, <1>2
    <2> QED BY <1>1, <1>2, <2>1
  <1> QED BY <1>1, <1>2, <1>3

(* Quotients keep the order.                                               *)
LEMMA DivMonotone ==
  ASSUME NEW a \in Int, NEW c \in Int, a <= c, NEW b \in Nat, b > 0
  PROVE  a \div b <= c \div b
  <1>1. PICK p, q : p = a \div b /\ q = c \div b
    OBVIOUS
  <1>2. p \in Int /\ q \in Int /\ a >= b * p /\ c < b * q + b
    BY <1>1, DivMod
  <1>3. ~ (p - q >= 1)
    <2> SUFFICES ASSUME p - q >= 1
                 PROVE  FALSE
      OBVIOUS
    <2>1. b * (p - q) >= b
      BY <1>2
    <2>2. b * (p - q) = b * p - b * q
      BY <1>2
    <2> QED BY <1>2, <2>1, <2>2
  <1> QED BY <1>1, <1>2, <1>3

LEMMA ProductPositive ==
  ASSUME NEW a \in Nat, a > 0, NEW b \in Nat, b > 0
  PROVE  a * b \in Nat /\ a * b > 0
  OBVIOUS

LEMMA WordSizePositive == WordSize \in Nat /\ WordSize > 0
  <1>1. Base \in Nat /\ Base > 0
    BY AudibleAssumption
  <1>2. Base * Base \in Nat /\ Base * Base > 0
    BY <1>1, ProductPositive
  <1>3. (Base * Base) * Base \in Nat /\ (Base * Base) * Base > 0
    BY <1>1, <1>2, ProductPositive
  <1> QED BY <1>1, <1>3, ProductPositive DEF WordSize

LEMMA RoundUpFacts ==
  ASSUME NEW n \in Nat
  PROVE  RoundUp(n) \in Nat /\ RoundUp(n) % 8 = 0
  BY DEF RoundUp

-----------------------------------------------------------------------------
(* The inductive invariant *)

Phases == {"start", "exited", "header", "annotation", "first", "frames", "between", "done", "failed",
           "crashed", "undefined"}

(* Where the header has been accepted.                                     *)
Working == {"annotation", "first", "frames", "between", "done"}

Format(h) ==
  h.encoding \in 2..5 /\ h.channels \in 1..2 /\ h.data_offset % 8 = 0 /\ h.data_offset >= HeaderSize

(* Frames of the format of the header.                                     *)
Frame == [1..FrameInts -> Byte]

Modes == {"none", "usage", "help", "u", "d", "c"}

(* What an element of memory can be: a byte, signed where calcu_frame stored it. *)
Cell == -Base..(Base - 1)

OptionSet == [mode : Modes, factor : 1..1024, key : Keys, preserve : BOOLEAN]

TypeInv ==
  /\ phase \in Phases /\ argv \in CommandLines /\ layout \in Layouts
  /\ options \in OptionSet
  /\ hp \in [data_offset : Nat, data_size : Nat, encoding : Nat, channels : Nat]
  /\ mem \in [Memory -> Cell]
  /\ counter \in 0..MaxFrames /\ turn \in 0..1024 /\ random \in 0..(2 * MaxFrames) /\ round \in 1..2
  /\ source \in Seq(Frames) /\ feed \in Seq(Frames)
  /\ written \in [annotation : Nat, frames : Seq(Frames)]

(* How far the program can be, with which options and in which round.      *)
ControlInv ==
  /\ phase # "start" => options = ParseOptions(argv)
  /\ phase \notin {"start", "exited"} => options.mode \in {"u", "d", "c"}
  /\ phase \in Working \/ round = 2 => Format(hp)
  /\ round = 2 => ParseOptions(argv).mode = "c"
  /\ phase = "first" => options.mode = "d"
  /\ phase = "between" => options.mode = "d" /\ turn \in 1..options.factor

(* What has been read, from the input or from what round 1 wrote.          *)
ReadInv ==
  /\ phase \in {"start", "header", "annotation", "first"} =>
       counter = 0 /\ random = 0 /\ written.frames = <<>> /\ mem = [a \in Memory |-> 0]
  /\ round = 1 => feed = <<>> /\ counter = Len(source)
  /\ round = 2 => counter <= Len(feed) /\ Len(feed) <= MaxFrames
  /\ (phase \in Working \/ round = 2) => source \in Seq(Frame) /\ feed \in Seq(Frame) /\ written.frames \in Seq(Frame)

(* Every frame that is encrypted draws one word for each channel.          *)
DrawInv ==
  /\ phase \in Working /\ options.mode = "c" =>
       /\ random = counter * hp.channels /\ Len(written.frames) = counter
       /\ mem \in [Memory -> Byte]
  /\ options.mode # "c" => random = 0

IInv == TypeInv /\ ControlInv /\ ReadInv /\ DrawInv

-----------------------------------------------------------------------------
(* Formats and arrays. *)

LEMMA FactorFacts ==
  ASSUME options.factor \in 1..1024
  PROVE  /\ \E f \in 1..1024 : f = options.factor
         /\ options.factor \in Nat /\ options.factor > 0
  <1>1. \E f \in 1..1024 : f = options.factor
    OBVIOUS
  <1>2. PICK f \in 1..1024 : f = options.factor
    BY <1>1
  <1>3. f \in Nat /\ f > 0
    OBVIOUS
  <1> QED BY <1>1, <1>2, <1>3

LEMMA FormatFacts ==
  ASSUME Format(hp)
  PROVE  Bps \in 1..4 /\ hp.channels \in 1..2 /\ FrameInts \in 1..8 /\ FrameInts = hp.channels * Bps
  <1>1. Bps \in 1..4 /\ hp.channels \in 1..2
    BY DEF Format, Bps
  <1> QED BY <1>1 DEF FrameInts

LEMMA FrameIsFrames == Format(hp) => Frame \subseteq Frames
  BY FormatFacts DEF Frame, Frames

(* Frames of the input have bytes only.                                    *)
LEMMA InputFrames ==
  ASSUME TypeInv, ControlInv, ReadInv, NEW frame \in NextFrames
  PROVE  frame \in Frame
  <1>1. phase \in {"first", "frames"}
    BY DEF NextFrames
  <1>2. feed \in Seq(Frame)
    BY <1>1 DEF ReadInv, Working
  <1>3. CASE round = 2
    <2>1. counter + 1 \in 1..Len(feed) /\ frame = feed[counter + 1]
      BY <1>1, <1>3, <1>2 DEF NextFrames, TypeInv
    <2> QED BY <1>2, <2>1
  <1>4. CASE round # 2
    BY <1>1, <1>4, AudibleAssumption DEF NextFrames, Frame
  <1> QED BY <1>3, <1>4

(* What Store leaves in memory.                                            *)
LEMMA StorePlaces ==
  ASSUME NEW m, NEW n \in Nat, NEW values, NEW at \in Int, DOMAIN m = Memory, DOMAIN values = 1..n
  PROVE  /\ Store(m, at, values) = [a \in Memory |-> IF a - at + 1 \in 1..n THEN values[a - at + 1] ELSE m[a]]
         /\ \A a \in Memory : a < at \/ a >= at + n => Store(m, at, values)[a] = m[a]
         /\ \A j \in 1..n : at + j - 1 \in Memory => Store(m, at, values)[at + j - 1] = values[j]
  <1>1. \A a \in Memory : a \in Int
    BY DEF Memory
  <1>2. Store(m, at, values) = [a \in Memory |-> IF a - at + 1 \in 1..n THEN values[a - at + 1] ELSE m[a]]
    BY DEF Store
  <1>3. \A a \in Memory : a < at \/ a >= at + n => Store(m, at, values)[a] = m[a]
    BY <1>1, <1>2
  <1>4. \A j \in 1..n : (at + j - 1) - at + 1 = j
    OBVIOUS
  <1>5. \A j \in 1..n : at + j - 1 \in Memory => Store(m, at, values)[at + j - 1] = values[j]
    BY <1>1, <1>2, <1>4
  <1> QED BY <1>2, <1>3, <1>5

LEMMA AddressFacts == Address \subseteq Int
  BY DEF Address

LEMMA CellFacts == Byte \subseteq Cell /\ Cell \subseteq Int /\ 0 \in Byte
  BY AudibleAssumption DEF Byte, Cell

LEMMA CellsAreInts == [Memory -> Cell] \subseteq [Memory -> Int]
  BY CellFacts

(* Signed bytes.                                                          *)
LEMMA StoreCells ==
  ASSUME NEW m \in [Memory -> Cell], NEW n \in Nat, NEW values \in [1..n -> Cell], NEW at \in Int
  PROVE  /\ Store(m, at, values) \in [Memory -> Cell]
         /\ \A a \in Memory : a < at \/ a >= at + n => Store(m, at, values)[a] = m[a]
         /\ \A j \in 1..n : at + j - 1 \in Memory => Store(m, at, values)[at + j - 1] = values[j]
  <1>1. Store(m, at, values) = [a \in Memory |-> IF a - at + 1 \in 1..n THEN values[a - at + 1] ELSE m[a]]
    BY StorePlaces
  <1>2. \A a \in Memory : a - at + 1 \in 1..n => values[a - at + 1] \in Cell
    OBVIOUS
  <1>3. Store(m, at, values) \in [Memory -> Cell]
    BY <1>1, <1>2
  <1> QED BY <1>3, StorePlaces

(* Bytes.                                                                 *)
LEMMA StoreBytes ==
  ASSUME NEW m \in [Memory -> Byte], NEW n \in Nat, NEW values \in [1..n -> Byte], NEW at \in Int
  PROVE  /\ Store(m, at, values) \in [Memory -> Byte]
         /\ \A a \in Memory : a < at \/ a >= at + n => Store(m, at, values)[a] = m[a]
         /\ \A j \in 1..n : at + j - 1 \in Memory => Store(m, at, values)[at + j - 1] = values[j]
  <1>1. Store(m, at, values) = [a \in Memory |-> IF a - at + 1 \in 1..n THEN values[a - at + 1] ELSE m[a]]
    BY StorePlaces
  <1>2. \A a \in Memory : a - at + 1 \in 1..n => values[a - at + 1] \in Byte
    OBVIOUS
  <1>3. Store(m, at, values) \in [Memory -> Byte]
    BY <1>1, <1>2
  <1> QED BY <1>3, StorePlaces

LEMMA FetchFacts ==
  ASSUME Format(hp), NEW m \in [Memory -> Int], NEW at \in Address
  PROVE  /\ Fetch(m, at) \in Frame
         /\ \A j \in 1..FrameInts : Fetch(m, at)[j] = m[at + j - 1] % Base
         /\ \A j \in 1..FrameInts : at + j - 1 \in Memory
  <1>1. FrameInts \in 1..8
    BY FormatFacts
  <1>2. \A j \in 1..FrameInts : at + j - 1 \in Memory
    BY <1>1 DEF Address, Memory
  <1>3. \A j \in 1..FrameInts : m[at + j - 1] % Base \in Byte
    BY <1>2, AudibleAssumption, DivMod DEF Byte
  <1> QED BY <1>2, <1>3 DEF Fetch, Frame
-----------------------------------------------------------------------------
(* The command line *)

LEMMA RefusedType ==
  /\ Refused \in OptionSet /\ Refused.mode = "usage"
  /\ NoOptions \in OptionSet /\ 0 \in Keys /\ Modes = {"none", "usage", "help", "u", "d", "c"}
  <1>1. 0 \in Keys
    BY DEF Keys
  <1> QED BY <1>1 DEF Refused, NoOptions, Modes, Chosen, OptionSet

(* What -u and -d accept.                                                  *)
Factors == 1..1024

LEMMA SpeedArms ==
  ASSUME NEW args, NEW m
  PROVE  /\ \/ SpeedOptions(args, m) = Refused
            \/ \E N \in Factors : SpeedOptions(args, m) = Chosen(m, N, 0) \/ SpeedOptions(args, m) = Preserving(m, N, 0)
         /\ \/ SpeedOptions(args, m) = Refused
            \/ Len(args) = 1 \/ Len(args) = 3 \/ Len(args) = 4 \/ Second(args, 2) = "p"
  <1> DEFINE r == SpeedOptions(args, m)
             n == Len(args)
             p2 == Second(args, 2) = "p"
             p4 == Second(args, 4) = "p"
             f2 == Second(args, 2) = "f"
             f3 == Second(args, 3) = "f"
             dash == args[3].dash
             N3 == args[3].number
             N4 == args[4].number
             ok3 == N3 \in 1..1024
             ok4 == N4 \in 1..1024
  <1>1. r = CASE n = 1 -> Chosen(m, 1, 0)
              [] n = 2 /\ p2 -> Preserving(m, 1, 0)
              [] n = 3 /\ f2 /\ ~ dash /\ ok3 -> Chosen(m, N3, 0)
              [] n = 4 /\ f2 /\ ~ dash /\ ok3 /\ p4 -> Preserving(m, N3, 0)
              [] n = 4 /\ p2 /\ f3 /\ ok4 -> Preserving(m, N4, 0)
              [] OTHER -> Refused
    BY Zenon DEF SpeedOptions
  <1> HIDE DEF r, n, p2, p4, f2, f3, dash, N3, N4, ok3, ok4
  <1>2. \/ r = Refused \/ (n = 1 /\ r = Chosen(m, 1, 0)) \/ (p2 /\ r = Preserving(m, 1, 0))
        \/ (n = 3 /\ ok3 /\ r = Chosen(m, N3, 0))
        \/ (n = 4 /\ ok3 /\ r = Preserving(m, N3, 0))
        \/ (n = 4 /\ ok4 /\ r = Preserving(m, N4, 0))
    BY <1>1
  <1>3. 1 \in Factors /\ (ok3 => N3 \in Factors) /\ (ok4 => N4 \in Factors)
    BY DEF Factors, ok3, ok4
  <1>4. /\ r = Refused \/ \E N \in Factors : r = Chosen(m, N, 0) \/ r = Preserving(m, N, 0)
        /\ r = Refused \/ n = 1 \/ n = 3 \/ n = 4 \/ p2
    BY <1>2, <1>3, Zenon
  <1> QED BY <1>4, Zenon DEF r, n, p2

LEMMA SpeedOptionsType ==
  ASSUME NEW args \in Seq(Argument), NEW m \in {"u", "d"}
  PROVE  /\ SpeedOptions(args, m) \in OptionSet /\ SpeedOptions(args, m).mode \in {m, "usage"}
         /\ SpeedOptions(args, m).mode = m /\ Len(args) > 1 /\ Second(args, 2) = "f" => Len(args) >= 3
  <1>1. PICK r : r = SpeedOptions(args, m)
    OBVIOUS
  <1>2. m \in Modes /\ 0 \in Keys
    BY RefusedType
  <1>3. \A N \in Factors : /\ Chosen(m, N, 0) \in OptionSet /\ Chosen(m, N, 0).mode = m
                           /\ Preserving(m, N, 0) \in OptionSet /\ Preserving(m, N, 0).mode = m
    BY <1>2 DEF Chosen, Preserving, OptionSet, Factors
  <1>4. r = Refused \/ \E N \in Factors : r = Chosen(m, N, 0) \/ r = Preserving(m, N, 0)
    BY <1>1, SpeedArms, Zenon
  <1>5. r = Refused \/ Len(args) = 1 \/ Len(args) = 3 \/ Len(args) = 4 \/ Second(args, 2) = "p"
    BY <1>1, SpeedArms, Zenon
  <1>6. r = Refused \/ (r \in OptionSet /\ r.mode = m)
    BY <1>3, <1>4, Zenon
  <1>7. Refused \in OptionSet /\ Refused.mode = "usage"
    BY RefusedType
  <1>8. ASSUME r.mode = m, Len(args) > 1, Second(args, 2) = "f"
        PROVE  Len(args) >= 3
    <2>1. r # Refused /\ Second(args, 2) # "p"
      BY <1>7, <1>8
    <2>2. Len(args) = 1 \/ Len(args) = 3 \/ Len(args) = 4
      BY <1>5, <2>1, Zenon
    <2>3. PICK n \in Nat : n = Len(args)
      BY LenProperties
    <2>4. n > 1
      BY <1>8, <2>3
    <2>5. n \in {1, 3, 4}
      BY <2>2, <2>3
    <2>6. n >= 3
      BY <2>4, <2>5
    <2> QED BY <2>3, <2>6
  <1> QED BY <1>1, <1>6, <1>7, <1>8

(* What -c accepts.                                                        *)
LEMMA CryptArms ==
  ASSUME NEW args
  PROVE  LET r == CryptOptions(args) IN
         \/ r = Refused
         \/ Len(args) = 1 /\ r = Chosen("c", 1, 0)
         \/ Len(args) = 3 /\ r = Chosen("c", 1, args[3].digits)
         \/ Len(args) = 4 /\ (r = Preserving("c", 1, args[3].digits) \/ r = Preserving("c", 1, args[4].digits))
  <1> DEFINE r == CryptOptions(args)
             n == Len(args)
             p2 == Second(args, 2) = "p"
             p4 == Second(args, 4) = "p"
             k2 == Second(args, 2) = "k"
             k3 == Second(args, 3) = "k"
             hex == args[3].digits >= 0 /\ args[3].length <= 8
             K3 == args[3].digits
             K4 == args[4].digits
  <1>1. r = CASE n = 1 -> Chosen("c", 1, 0)
              [] n = 3 /\ k2 /\ hex -> Chosen("c", 1, K3)
              [] n = 4 /\ k2 /\ hex /\ p4 -> Preserving("c", 1, K3)
              [] n = 4 /\ p2 /\ k3 /\ hex -> Preserving("c", 1, K4)
              [] OTHER -> Refused
    BY Zenon DEF CryptOptions
  <1> HIDE DEF r, n, p2, p4, k2, k3, hex, K3, K4
  <1>2. \/ r = Refused \/ (n = 1 /\ r = Chosen("c", 1, 0)) \/ (n = 3 /\ r = Chosen("c", 1, K3))
        \/ (n = 4 /\ (r = Preserving("c", 1, K3) \/ r = Preserving("c", 1, K4)))
    BY <1>1
  <1> QED BY <1>2, Zenon DEF r, n, K3, K4

LEMMA CryptOptionsType ==
  ASSUME NEW args \in CommandLines, args \in Seq(Argument)
  PROVE  /\ CryptOptions(args) \in OptionSet /\ CryptOptions(args).mode \in {"c", "usage"}
         /\ CryptOptions(args).mode = "c" /\ Len(args) > 1 /\ Second(args, 2) = "k" => Len(args) >= 3
  <1>1. PICK r : r = CryptOptions(args)
    OBVIOUS
  <1>2. "c" \in Modes /\ 0 \in Keys
    BY RefusedType
  <1>3. \A K \in Keys : /\ Chosen("c", 1, K) \in OptionSet /\ Chosen("c", 1, K).mode = "c"
                        /\ Preserving("c", 1, K) \in OptionSet /\ Preserving("c", 1, K).mode = "c"
    <2> SUFFICES ASSUME NEW K \in Keys
                 PROVE  /\ Chosen("c", 1, K) \in OptionSet /\ Chosen("c", 1, K).mode = "c"
                        /\ Preserving("c", 1, K) \in OptionSet /\ Preserving("c", 1, K).mode = "c"
      OBVIOUS
    <2>1. 1 \in 1..1024
      OBVIOUS
    <2> QED BY <1>2, <2>1 DEF Chosen, Preserving, OptionSet
  <1>4. \A k \in 1..Len(args) : args[k].digits \in Keys
    BY DEF Keys
  <1>5. /\ Len(args) = 3 => args[3].digits \in Keys
        /\ Len(args) = 4 => args[3].digits \in Keys /\ args[4].digits \in Keys
    BY <1>4
  <1>6. r = Refused \/ (Len(args) \in {1, 3, 4} /\ r \in OptionSet /\ r.mode = "c")
    <2>1. CASE Len(args) = 1 /\ r = Chosen("c", 1, 0)
      BY <1>2, <1>3, <2>1
    <2>2. CASE Len(args) = 3 /\ r = Chosen("c", 1, args[3].digits)
      BY <1>3, <1>5, <2>2
    <2>3. CASE Len(args) = 4 /\ (r = Preserving("c", 1, args[3].digits) \/ r = Preserving("c", 1, args[4].digits))
      BY <1>3, <1>5, <2>3
    <2> QED BY <1>1, <2>1, <2>2, <2>3, CryptArms, Zenon
  <1>7. Refused \in OptionSet /\ Refused.mode = "usage"
    BY RefusedType
  <1>8. ASSUME r.mode = "c", Len(args) > 1
        PROVE  Len(args) >= 3
    <2>1. Len(args) \in {1, 3, 4}
      BY <1>6, <1>7, <1>8
    <2>2. PICK n \in Nat : n = Len(args)
      BY LenProperties
    <2>3. n > 1 /\ n \in {1, 3, 4}
      BY <1>8, <2>1, <2>2
    <2>4. n >= 3
      BY <2>3
    <2> QED BY <2>2, <2>4
  <1> QED BY <1>1, <1>6, <1>7, <1>8

LEMMA ParseOptionsType ==
  ASSUME NEW args \in CommandLines
  PROVE  /\ args \in Seq(Argument) /\ ParseOptions(args) \in OptionSet /\ ParseOptions(args).mode # "none"
         /\ ParseOptions(args).mode \in {"u", "d", "c"} /\ Len(args) > 1
              /\ Second(args, 2) \in (IF ParseOptions(args).mode = "c" THEN {"k"} ELSE {"f"}) => Len(args) >= 3
  <1>1. args \in Seq(Argument)
    BY AudibleAssumption
  <1>2. PICK r : r = ParseOptions(args)
    OBVIOUS
  <1>3. \/ r = Refused
        \/ r = Chosen("help", 1, 0)
        \/ \E m \in {"u", "d"} : r = SpeedOptions(args, m)
        \/ r = CryptOptions(args)
    BY <1>1, <1>2 DEF ParseOptions, Chosen
  <1>4. Chosen("help", 1, 0) \in OptionSet /\ Chosen("help", 1, 0).mode = "help"
    BY RefusedType DEF Chosen, OptionSet
  <1>5. CASE r = Refused \/ r = Chosen("help", 1, 0)
    BY <1>1, <1>2, <1>4, <1>5, RefusedType
  <1>6. CASE r = CryptOptions(args)
    BY <1>1, <1>2, <1>6, CryptOptionsType
  <1>7. ASSUME NEW m \in {"u", "d"}, r = SpeedOptions(args, m)
        PROVE  r \in OptionSet /\ r.mode \in {m, "usage"}
               /\ (r.mode = m /\ Len(args) > 1 /\ Second(args, 2) = "f" => Len(args) >= 3)
    BY <1>1, <1>7, SpeedOptionsType
  <1> QED BY <1>1, <1>2, <1>3, <1>5, <1>6, <1>7

(* The length of the prefix exists: the option with a number has one.      *)
LEMMA PrefixType ==
  ASSUME TypeInv, options = ParseOptions(argv), options.mode \in {"u", "d", "c"}
  PROVE  Prefix \in Nat
  <1>1. argv \in Seq(Argument)
    BY ParseOptionsType DEF TypeInv
  <1>2. ASSUME Len(argv) > 1, Second(argv, 2) \in (IF options.mode = "c" THEN {"k"} ELSE {"f"})
        PROVE  Len(argv) >= 3
    BY <1>2, ParseOptionsType DEF TypeInv
  <1>3. Len(argv) >= 3 => argv[3].length \in Nat
    <2> SUFFICES ASSUME Len(argv) >= 3
                 PROVE  argv[3] \in Argument
      BY DEF Argument
    <2>1. 3 \in 1..Len(argv)
      BY <1>1
    <2> QED BY <1>1, <2>1
  <1> QED BY <1>2, <1>3, AudibleAssumption DEF Prefix

-----------------------------------------------------------------------------
(* The invariant holds at the start and is kept by every step. *)

LEMMA InitIInv == Init => IInv
  <1> SUFFICES ASSUME Init
               PROVE  IInv
    OBVIOUS
  <1>1. TypeInv
    BY AudibleAssumption, RefusedType, CellFacts DEF Init, TypeInv, Phases, NoHeader, Nothing, Memory
  <1>2. ControlInv
    BY DEF Init, ControlInv, Working
  <1>3. ReadInv
    BY DEF Init, ReadInv, Working, Nothing
  <1>4. DrawInv
    BY DEF Init, DrawInv, Working
  <1> QED BY <1>1, <1>2, <1>3, <1>4 DEF IInv
LEMMA SameFormat ==
  ASSUME hp'.encoding = hp.encoding, hp'.channels = hp.channels
  PROVE  Bps' = Bps /\ FrameInts' = FrameInts /\ Frame' = Frame
  BY DEF Bps, FrameInts, Frame

(* main and the header: nothing has been read.                             *)
LEMMA ValidArgsKeeps == IInv /\ ValidArgs => IInv'
  <1> SUFFICES ASSUME IInv, ValidArgs
               PROVE  IInv'
    OBVIOUS
  <1> DEFINE o == ParseOptions(argv)
  <1>1. options' = o /\ o \in OptionSet /\ o.mode # "none"
    BY ParseOptionsType DEF ValidArgs, IInv, TypeInv
  <1>2. o.mode \in {"usage", "help", "u", "d", "c"}
    BY <1>1, RefusedType DEF OptionSet
  <1>3. phase' = (IF o.mode \in {"usage", "help"} THEN "exited" ELSE "header")
    BY <1>1 DEF ValidArgs
  <1>4. TypeInv'
    BY <1>1, <1>3 DEF ValidArgs, IInv, TypeInv, Phases
  <1>5. ControlInv'
    BY <1>1, <1>2, <1>3 DEF ValidArgs, IInv, ControlInv, Working
  <1>6. ReadInv'
    <2>1. Frame' = Frame
      BY SameFormat DEF ValidArgs
    <2> QED BY <1>3, <2>1 DEF ValidArgs, IInv, ReadInv, Working
  <1>7. DrawInv'
    BY <1>3 DEF ValidArgs, IInv, ReadInv, DrawInv, Working
  <1> QED BY <1>4, <1>5, <1>6, <1>7 DEF IInv

LEMMA ReadHeaderKeeps == IInv /\ ReadHeader => IInv'
  <1> SUFFICES ASSUME IInv, ReadHeader
               PROVE  IInv'
    OBVIOUS
  <1>1. PICK h \in IF round = 1 THEN Headers ELSE {hp} :
          hp' = h /\ phase' = IF ValidHeader(h) THEN "annotation" ELSE "failed"
    BY DEF ReadHeader
  <1>2. h \in [data_offset : Nat, data_size : Nat, encoding : Nat, channels : Nat]
    BY AudibleAssumption DEF IInv, TypeInv
  <1>3. phase' \in {"annotation", "failed"} /\ (phase' = "annotation" => Format(h))
    BY <1>1 DEF ValidHeader, Format
  <1>4. round = 2 => hp' = hp /\ Frame' = Frame
    BY <1>1, SameFormat
  <1>5. TypeInv'
    BY <1>1, <1>2, <1>3 DEF ReadHeader, IInv, TypeInv, Phases
  <1>6. ControlInv'
    BY <1>1, <1>3, <1>4 DEF ReadHeader, IInv, ControlInv, Working
  <1>7. ReadInv'
    <2>1. round = 1 => source = <<>> /\ feed = <<>>
      BY DEF ReadHeader, IInv, ReadInv, TypeInv
    <2>2. written.frames = <<>> /\ round \in 1..2
      BY DEF ReadHeader, IInv, ReadInv, TypeInv
    <2>3. source' \in Seq(Frame') /\ feed' \in Seq(Frame') /\ written'.frames \in Seq(Frame')
      <3>1. CASE round = 1
        BY <2>1, <2>2, <3>1 DEF ReadHeader
      <3>2. CASE round = 2
        BY <1>4, <2>2, <3>2 DEF ReadHeader, IInv, ReadInv
      <3> QED BY <2>2, <3>1, <3>2
    <2> QED BY <1>3, <2>3 DEF ReadHeader, IInv, ReadInv
  <1>8. DrawInv'
    <2>1. mem \in [Memory -> Byte] /\ counter = 0 /\ random = 0 /\ written.frames = <<>>
      BY AudibleAssumption DEF ReadHeader, IInv, ReadInv, Byte
    <2>2. phase' = "annotation" => random = counter * h.channels
      BY <1>2, <2>1
    <2> QED BY <1>1, <1>3, <2>1, <2>2 DEF ReadHeader, DrawInv, Working
  <1> QED BY <1>5, <1>6, <1>7, <1>8 DEF IInv
(* The annotation: a failure, or a header for the output.                  *)
LEMMA AnnotationFacts ==
  ASSUME IInv, ReadAnnotation
  PROVE  \/ /\ phase' \in {"failed", "crashed", "undefined"} /\ hp' = hp /\ written' = written
         \/ \E new \in Nat :
              /\ phase' = (IF options.mode = "d" THEN "first" ELSE "frames")
              /\ hp' = [hp EXCEPT !.data_offset = HeaderSize + new, !.data_size = NewDataSize]
              /\ written' = [written EXCEPT !.annotation = new]
              /\ new % 8 = 0
  <1> DEFINE size == hp.data_offset - HeaderSize
             Room == IF size = 0 THEN {0} ELSE 0..(size - 1)
             New(text) == IF options.preserve THEN size ELSE Annotation(text)
  <1>1. PICK text \in Room, valid \in BOOLEAN :
          IF ~ valid THEN phase' = "failed" /\ UNCHANGED <<hp, written>>
          ELSE IF ~ options.preserve /\ Len(argv) = 1 THEN phase' = "crashed" /\ UNCHANGED <<hp, written>>
          ELSE IF New(text) > AnnotationMax THEN phase' = "undefined" /\ UNCHANGED <<hp, written>>
          ELSE /\ hp' = [hp EXCEPT !.data_offset = HeaderSize + New(text), !.data_size = NewDataSize]
               /\ written' = [written EXCEPT !.annotation = New(text)]
               /\ phase' = IF options.mode = "d" THEN "first" ELSE "frames"
    BY DEF ReadAnnotation
  <1>2. PICK new : new = New(text)
    OBVIOUS
  <1>3. Format(hp) /\ hp.data_offset \in Nat /\ options = ParseOptions(argv) /\ options.mode \in {"u", "d", "c"}
    BY DEF IInv, TypeInv, ControlInv, Working, ReadAnnotation
  <1>4. size \in Nat /\ size % 8 = 0
    BY <1>3 DEF Format, HeaderSize
  <1>5. text \in Nat
    BY <1>4
  <1>6. Prefix + text + 1 \in Nat
    BY <1>3, <1>5, PrefixType DEF IInv
  <1>7. new \in Nat /\ new % 8 = 0
    BY <1>2, <1>4, <1>6, RoundUpFacts DEF Annotation
  <1> QED BY <1>1, <1>2, <1>7

LEMMA ReadAnnotationKeeps == IInv /\ ReadAnnotation => IInv'
  <1> SUFFICES ASSUME IInv, ReadAnnotation
               PROVE  IInv'
    OBVIOUS
  <1>1. /\ phase = "annotation" /\ Format(hp) /\ options.mode \in {"u", "d", "c"}
        /\ UNCHANGED <<argv, options, layout, mem, counter, turn, random, source, feed, round>>
    BY DEF ReadAnnotation, IInv, ControlInv, Working
  <1>2. /\ hp' \in [data_offset : Nat, data_size : Nat, encoding : Nat, channels : Nat] /\ Format(hp')
        /\ hp'.encoding = hp.encoding /\ hp'.channels = hp.channels
        /\ written'.frames = written.frames /\ written' \in [annotation : Nat, frames : Seq(Frames)]
        /\ phase' \in {"failed", "crashed", "undefined", "first", "frames"}
        /\ phase' = "first" => options.mode = "d"
    <2>1. CASE phase' \in {"failed", "crashed", "undefined"} /\ hp' = hp /\ written' = written
      BY <1>1, <2>1 DEF IInv, TypeInv
    <2>2. ASSUME NEW new \in Nat,
                 phase' = (IF options.mode = "d" THEN "first" ELSE "frames"),
                 hp' = [hp EXCEPT !.data_offset = HeaderSize + new, !.data_size = NewDataSize],
                 written' = [written EXCEPT !.annotation = new], new % 8 = 0
          PROVE  /\ hp' \in [data_offset : Nat, data_size : Nat, encoding : Nat, channels : Nat] /\ Format(hp')
                 /\ hp'.encoding = hp.encoding /\ hp'.channels = hp.channels
                 /\ written'.frames = written.frames /\ written' \in [annotation : Nat, frames : Seq(Frames)]
                 /\ phase' \in {"first", "frames"}
                 /\ phase' = "first" => options.mode = "d"
      <3>1. hp \in [data_offset : Nat, data_size : Nat, encoding : Nat, channels : Nat]
            /\ written \in [annotation : Nat, frames : Seq(Frames)] /\ options.factor \in 1..1024
        BY DEF IInv, TypeInv, OptionSet
      <3>2. NewDataSize \in Nat
        <4>0. hp.data_size \in Nat /\ options.factor \in Nat /\ options.factor > 0
          <5>1. hp.data_size \in Nat
            BY <3>1
          <5>2. options.factor \in 1..1024
            BY <3>1
          <5> QED BY <5>1, <5>2, SMTT(30)
        <4> PICK d \in Nat : d = hp.data_size
          BY <4>0
        <4> PICK f \in Nat : f = options.factor
          BY <4>0
        <4>1. WordSize \in Nat /\ WordSize > 0
          BY WordSizePositive
        <4>2. d \div f \in Nat
          BY <4>0, DivNat
        <4>3. (d * f) % WordSize \in Nat
          BY <4>1, DivNat
        <4> QED BY <1>1, <4>2, <4>3 DEF NewDataSize
      <3>3. PICK size \in Nat : size = NewDataSize
        BY <3>2
      <3>4. HeaderSize + new \in Nat /\ (HeaderSize + new) % 8 = 0 /\ HeaderSize + new >= HeaderSize
        BY <2>2 DEF HeaderSize
      <3>5. /\ hp' \in [data_offset : Nat, data_size : Nat, encoding : Nat, channels : Nat]
            /\ hp'.encoding = hp.encoding /\ hp'.channels = hp.channels /\ hp'.data_offset = HeaderSize + new
        BY <2>2, <3>1, <3>3, <3>4
      <3>6. Format(hp')
        BY <1>1, <3>4, <3>5 DEF Format
      <3> QED BY <2>2, <3>1, <3>5, <3>6
    <2> QED BY <2>1, <2>2, AnnotationFacts
  <1>3. Frame' = Frame
    BY <1>2, SameFormat
  <1>4. TypeInv'
    BY <1>1, <1>2 DEF IInv, TypeInv, Phases
  <1>5. ControlInv'
    BY <1>1, <1>2 DEF IInv, ControlInv, Working
  <1>6. ReadInv'
    BY <1>1, <1>2, <1>3 DEF IInv, ReadInv, Working
  <1>7. DrawInv'
    BY <1>1, <1>2 DEF IInv, DrawInv, Working
  <1> QED BY <1>4, <1>5, <1>6, <1>7 DEF IInv
-----------------------------------------------------------------------------
(* Reading, writing and computing frames. *)

(* Where frames are read the header has been accepted.                     *)
LEMMA WorkingFacts ==
  ASSUME IInv, phase \in {"first", "frames", "between"}
  PROVE  /\ Format(hp) /\ options.mode \in {"u", "d", "c"} /\ options \in OptionSet
         /\ options.factor \in 1..1024 /\ options = ParseOptions(argv)
         /\ source \in Seq(Frame) /\ feed \in Seq(Frame) /\ written.frames \in Seq(Frame)
         /\ Frame \subseteq Frames
         /\ layout.input \in Address /\ layout.output \in Address /\ layout.previous \in Address
  <1>1. Format(hp) /\ options.mode \in {"u", "d", "c"} /\ options \in OptionSet /\ options = ParseOptions(argv)
    BY DEF IInv, TypeInv, ControlInv, Working
  <1>2. source \in Seq(Frame) /\ feed \in Seq(Frame) /\ written.frames \in Seq(Frame)
    BY DEF IInv, ReadInv, Working
  <1>3. options.factor \in 1..1024
    BY <1>1 DEF OptionSet
  <1>4. layout.input \in Address /\ layout.output \in Address /\ layout.previous \in Address
    BY AudibleAssumption DEF IInv, TypeInv
  <1> QED BY <1>1, <1>2, <1>3, <1>4, FrameIsFrames

LEMMA GetFacts ==
  ASSUME IInv, phase \in {"first", "frames"}, NEW frame \in NextFrames, Get(frame)
  PROVE  /\ counter' = counter + 1 /\ counter' \in 1..MaxFrames
         /\ frame \in Frame /\ source' \in Seq(Frame) /\ source' \in Seq(Frames)
         /\ round = 1 => counter' = Len(source') /\ source' = Append(source, frame)
         /\ round = 2 => counter' <= Len(feed) /\ source' = source /\ frame = feed[counter']
         /\ UNCHANGED <<argv, options, hp, layout, feed, round>> /\ Frame' = Frame
  <1>1. frame \in Frame
    BY InputFrames DEF IInv
  <1>2. /\ Format(hp) /\ source \in Seq(Frame) /\ Frame \subseteq Frames
        /\ source \in Seq(Frames)
    BY WorkingFacts DEF IInv, TypeInv
  <1>3. counter \in Nat /\ MaxFrames \in Nat /\ round \in 1..2
    BY AudibleAssumption DEF IInv, TypeInv
  <1>4. counter + 1 <= MaxFrames /\ (round = 2 => counter + 1 <= Len(feed) /\ frame = feed[counter + 1])
    <2>1. CASE round = 2
      <3>1. feed \in Seq(Frame) /\ Len(feed) <= MaxFrames
        BY <2>1, WorkingFacts DEF IInv, ReadInv
      <3>2. PICK n \in Nat : n = Len(feed)
        BY <3>1, LenProperties
      <3>3. counter < n /\ frame = feed[counter + 1]
        BY <2>1, <3>2 DEF NextFrames
      <3> QED BY <1>3, <3>1, <3>2, <3>3
    <2>2. CASE round = 1
      BY <1>3, <2>2 DEF NextFrames
    <2> QED BY <1>3, <2>1, <2>2
  <1>5. Append(source, frame) \in Seq(Frame) /\ Append(source, frame) \in Seq(Frames)
        /\ Len(Append(source, frame)) = Len(source) + 1
    BY <1>1, <1>2, AppendProperties
  <1>6. source' = (IF round = 1 THEN Append(source, frame) ELSE source) /\ counter' = counter + 1
    BY DEF Get
  <1>7. round = 1 => counter = Len(source)
    BY DEF IInv, ReadInv
  <1>8. UNCHANGED <<argv, options, hp, layout, feed, round>> /\ Frame' = Frame
    BY SameFormat DEF Get
  <1> QED BY <1>1, <1>2, <1>3, <1>4, <1>5, <1>6, <1>7, <1>8

LEMMA PutFacts ==
  ASSUME Format(hp), written \in [annotation : Nat, frames : Seq(Frames)], written.frames \in Seq(Frame),
         NEW s \in Seq(Frame), Put(s)
  PROVE  /\ written' \in [annotation : Nat, frames : Seq(Frames)]
         /\ written'.frames = written.frames \o s /\ written'.frames \in Seq(Frame)
         /\ Len(written'.frames) = Len(written.frames) + Len(s)
         /\ written'.annotation = written.annotation
  <1>1. PICK w : w = written.frames
    OBVIOUS
  <1>2. written' = [written EXCEPT !.frames = w \o s]
    BY <1>1 DEF Put
  <1>3. w \o s \in Seq(Frame) /\ Len(w \o s) = Len(w) + Len(s)
    BY <1>1, ConcatProperties
  <1>4. w \o s \in Seq(Frames)
    <2>1. Frame \subseteq Frames
      BY FrameIsFrames
    <2>2. w \in Seq(Frames) /\ s \in Seq(Frames)
      BY <1>1, <2>1
    <2> QED BY <2>2, ConcatProperties
  <1> QED BY <1>1, <1>2, <1>3, <1>4

(* One frame more.                                                         *)
LEMMA PutOne ==
  ASSUME Format(hp), written \in [annotation : Nat, frames : Seq(Frames)], written.frames \in Seq(Frame),
         NEW f \in Frame, Put(<<f>>)
  PROVE  /\ written' \in [annotation : Nat, frames : Seq(Frames)] /\ written'.frames \in Seq(Frame)
         /\ Len(written'.frames) = Len(written.frames) + 1
         /\ \A i \in 1..Len(written.frames) : written'.frames[i] = written.frames[i]
         /\ written'.frames[Len(written.frames) + 1] = f
         /\ written'.annotation = written.annotation
  <1>1. <<f>> \in Seq(Frame) /\ Len(<<f>>) = 1 /\ <<f>>[1] = f
    OBVIOUS
  <1>2. PICK w : w = written.frames
    OBVIOUS
  <1>3. /\ written' \in [annotation : Nat, frames : Seq(Frames)] /\ written'.frames \in Seq(Frame)
        /\ written'.frames = w \o <<f>> /\ Len(written'.frames) = Len(w) + Len(<<f>>)
        /\ written'.annotation = written.annotation
    BY <1>1, <1>2, PutFacts
  <1>4. Len(w) \in Nat
    BY <1>2, LenProperties
  <1>5. \A i \in 1..(Len(w) + Len(<<f>>)) : (w \o <<f>>)[i] = IF i <= Len(w) THEN w[i] ELSE <<f>>[i - Len(w)]
    BY <1>1, <1>2, ConcatProperties
  <1>6. \A i \in 1..Len(w) : (w \o <<f>>)[i] = w[i]
    BY <1>1, <1>4, <1>5
  <1>7. (w \o <<f>>)[Len(w) + 1] = f
    BY <1>1, <1>4, <1>5
  <1> QED BY <1>1, <1>2, <1>3, <1>6, <1>7
-----------------------------------------------------------------------------
(* What the computations leave in memory. *)

Channels == 0..(hp.channels - 1)

LEMMA ChannelIndex ==
  ASSUME Format(hp), NEW c \in Channels
  PROVE  /\ c * Bps \in 0..4 /\ c \in 0..1 /\ c * Bps + Bps <= FrameInts
         /\ \A j \in 1..Bps : c * Bps + j \in 1..FrameInts
         /\ \A at \in Address : at + c * Bps \in Int /\ \A j \in 1..Bps : at + c * Bps + j - 1 \in Memory
  <1>1. Bps \in 1..4 /\ hp.channels \in 1..2 /\ FrameInts = hp.channels * Bps
    BY FormatFacts
  <1>2. PICK b \in 1..4 : b = Bps
    BY <1>1
  <1>3. \/ c = 0 /\ c * Bps = 0 /\ FrameInts >= b
        \/ c = 1 /\ c * Bps = b /\ FrameInts = 2 * b
    BY <1>1, <1>2 DEF Channels
  <1>4. FrameInts \in 1..8
    BY FormatFacts
  <1>5. /\ c * Bps \in 0..4 /\ c \in 0..1 /\ c * Bps + Bps <= FrameInts
        /\ \A j \in 1..Bps : c * Bps + j \in 1..FrameInts
    BY <1>2, <1>3, <1>4
  <1>6. \A at \in Address : at + c * Bps \in Int /\ \A j \in 1..Bps : at + c * Bps + j - 1 \in Memory
    BY <1>2, <1>3 DEF Address, Memory
  <1> QED BY <1>5, <1>6

LEMMA ChannelType ==
  ASSUME Format(hp), NEW V, NEW m \in [Memory -> V], NEW at \in Address, NEW c \in Channels
  PROVE  Channel(m, at, c) \in [1..Bps -> V]
  BY ChannelIndex DEF Channel

LEMMA NumberType ==
  ASSUME Format(hp), NEW b \in [1..Bps -> Int]
  PROVE  Number(b) \in Int
  <1>1. Base \in Int /\ Bps \in 1..4
    BY FormatFacts, AudibleAssumption
  <1>2. CASE Bps = 1
    BY <1>2 DEF Number
  <1>3. CASE Bps = 2
    <2>1. b[1] \in Int /\ b[2] \in Int
      BY <1>3
    <2> QED BY <1>1, <1>3, <2>1 DEF Number
  <1>4. CASE Bps = 3
    <2>1. b[1] \in Int /\ b[2] \in Int /\ b[3] \in Int
      BY <1>4
    <2> QED BY <1>1, <1>4, <2>1 DEF Number
  <1>5. CASE Bps = 4
    <2>1. b[1] \in Int /\ b[2] \in Int /\ b[3] \in Int /\ b[4] \in Int
      BY <1>5
    <2> QED BY <1>1, <1>5, <2>1 DEF Number
  <1> QED BY <1>1, <1>2, <1>3, <1>4, <1>5

LEMMA Int32Type ==
  ASSUME NEW x \in Int
  PROVE  Int32(x) \in Int
  <1>1. x % WordSize \in Int /\ WordSize \in Int
    BY WordSizePositive, DivMod
  <1> QED BY <1>1 DEF Int32

LEMMA QuotientType ==
  ASSUME NEW a \in Int, NEW b \in Nat, b > 0
  PROVE  Quotient(a, b) \in Int
  <1>1. a \div b \in Int /\ (-a) \div b \in Int
    BY DivMod
  <1> QED BY <1>1 DEF Quotient

LEMMA BetweenType ==
  ASSUME NEW c \in Int, NEW d \in Int, NEW k \in Int, NEW fac \in Nat, fac > 0
  PROVE  Between(c, d, k, fac) \in Int
  <1>1. Int32((d - c) * k) \in Int
    BY Int32Type
  <1> QED BY <1>1, QuotientType DEF Between

LEMMA ShiftedType ==
  ASSUME NEW e \in Int, NEW n \in 0..3
  PROVE  Shifted(e, n) \in Int
  <1>1. Base \in Nat /\ Base > 0
    BY AudibleAssumption
  <1>2. Base * Base \in Nat /\ Base * Base > 0
    BY <1>1, ProductPositive
  <1>3. (Base * Base) * Base \in Nat /\ (Base * Base) * Base > 0
    BY <1>1, <1>2, ProductPositive
  <1>4. e \div Base \in Int /\ e \div (Base * Base) \in Int /\ e \div (Base * Base * Base) \in Int
    BY <1>1, <1>2, <1>3, DivMod
  <1> QED BY <1>4 DEF Shifted

LEMMA InterpolatedType ==
  ASSUME Format(hp), NEW m \in [Memory -> Int], NEW k \in Nat, NEW c \in Channels,
         layout.previous \in Address, layout.input \in Address, options.factor \in 1..1024
  PROVE  Interpolated(m, k, c) \in Int
  <1>1. Channel(m, layout.previous, c) \in [1..Bps -> Int] /\ Channel(m, layout.input, c) \in [1..Bps -> Int]
    BY ChannelType
  <1>2. Value(Channel(m, layout.previous, c)) \in Int /\ Value(Channel(m, layout.input, c)) \in Int
    BY <1>1, NumberType, Int32Type DEF Value
  <1>3. options.factor \in Nat /\ options.factor > 0
    BY FactorFacts
  <1> QED BY <1>2, <1>3, BetweenType DEF Interpolated

(* One channel of a frame between two others.                              *)
LEMMA InterpolateChannelFacts ==
  ASSUME Format(hp), NEW m \in [Memory -> Cell], NEW k \in Nat, NEW c \in Channels,
         layout.previous \in Address, layout.input \in Address, layout.output \in Address,
         options.factor \in 1..1024
  PROVE  LET r == InterpolateChannel(m, k, c) IN
         /\ r \in [Memory -> Cell]
         /\ \A a \in Memory : a < layout.output + c * Bps \/ a >= layout.output + c * Bps + Bps => r[a] = m[a]
         /\ \A j \in 1..Bps : r[layout.output + c * Bps + j - 1]
                                = SignedByte(Shifted(Interpolated(m, k, c), Bps - j) % Base)
  <1> DEFINE e == Interpolated(m, k, c)
             bytes == [j \in 1..Bps |-> SignedByte(Shifted(e, Bps - j) % Base)]
             at == layout.output + c * Bps
  <1>1. e \in Int
    <2>1. m \in [Memory -> Int]
      BY CellFacts
    <2> QED BY <2>1, InterpolatedType
  <1>2. Base \in Nat /\ Base > 0 /\ Bps \in 1..4
    BY FormatFacts, AudibleAssumption
  <1>3. \A j \in 1..Bps : SignedByte(Shifted(e, Bps - j) % Base) \in Cell
    <2> SUFFICES ASSUME NEW j \in 1..Bps
                 PROVE  SignedByte(Shifted(e, Bps - j) % Base) \in Cell
      OBVIOUS
    <2>1. Shifted(e, Bps - j) \in Int
      <3>1. Bps - j \in 0..3
        BY <1>2
      <3> HIDE DEF e
      <3> QED BY <1>1, <3>1, ShiftedType
    <2>2. PICK d \in 0..(Base - 1) : d = Shifted(e, Bps - j) % Base
      BY <1>2, <2>1, DivMod
    <2> QED BY <1>2, <2>2 DEF SignedByte, Cell
  <1>4. bytes \in [1..Bps -> Cell] /\ Bps \in Nat
    BY <1>2, <1>3
  <1>5. at \in Int /\ \A j \in 1..Bps : at + j - 1 \in Memory
    BY ChannelIndex, Zenon
  <1>6. InterpolateChannel(m, k, c) = Store(m, at, bytes)
    BY DEF InterpolateChannel, PutSample
  <1> HIDE DEF bytes, at, e
  <1>7. /\ Store(m, at, bytes) \in [Memory -> Cell]
        /\ \A a \in Memory : a < at \/ a >= at + Bps => Store(m, at, bytes)[a] = m[a]
        /\ \A j \in 1..Bps : at + j - 1 \in Memory => Store(m, at, bytes)[at + j - 1] = bytes[j]
    BY <1>4, <1>5, StoreCells
  <1>8. \A j \in 1..Bps : bytes[j] = SignedByte(Shifted(e, Bps - j) % Base)
    BY DEF bytes
  <1>9. /\ InterpolateChannel(m, k, c) \in [Memory -> Cell]
        /\ \A a \in Memory : a < at \/ a >= at + Bps => InterpolateChannel(m, k, c)[a] = m[a]
        /\ \A j \in 1..Bps : InterpolateChannel(m, k, c)[at + j - 1] = SignedByte(Shifted(e, Bps - j) % Base)
    BY <1>5, <1>6, <1>7, <1>8
  <1> QED BY <1>9 DEF at, e
(* Every element of a frame is one of the bytes of a channel.              *)
LEMMA FrameParts ==
  ASSUME Format(hp), NEW i \in 1..FrameInts
  PROVE  \E c \in Channels, j \in 1..Bps : i = c * Bps + j
  <1>1. Bps \in 1..4 /\ hp.channels \in 1..2 /\ FrameInts = hp.channels * Bps
    BY FormatFacts
  <1>2. PICK b \in 1..4 : b = Bps
    BY <1>1
  <1>3. CASE i <= b
    <2>1. 0 \in Channels /\ i \in 1..Bps /\ i = 0 * Bps + i
      BY <1>1, <1>2, <1>3 DEF Channels
    <2> QED BY <2>1
  <1>4. CASE i > b
    <2>1. hp.channels = 2 /\ FrameInts = 2 * b
      BY <1>1, <1>2, <1>4
    <2>2. i \in Int /\ i <= 2 * b
      BY <1>2, <2>1
    <2>3. i - b \in 1..b /\ i = 1 * b + (i - b)
      BY <1>2, <1>4, <2>2
    <2>4. 1 \in Channels
      BY <2>1 DEF Channels
    <2>5. i - b \in 1..Bps /\ i = 1 * Bps + (i - b)
      BY <1>2, <2>3
    <2> QED BY <2>4, <2>5
  <1> QED BY <1>2, <1>3, <1>4

(* Frames are equal when their channels are.                               *)
LEMMA FrameEqual ==
  ASSUME Format(hp), NEW f \in Frame, NEW g \in Frame,
         \A c \in Channels, j \in 1..Bps : f[c * Bps + j] = g[c * Bps + j]
  PROVE  f = g
  <1>1. \A i \in 1..FrameInts : f[i] = g[i]
    BY FrameParts
  <1>2. f = [i \in 1..FrameInts |-> f[i]] /\ g = [i \in 1..FrameInts |-> g[i]]
    BY DEF Frame
  <1> QED BY <1>1, <1>2

(* The places of a channel and those of the other one, in an array.        *)
LEMMA ChannelPlaces ==
  ASSUME Format(hp), hp.channels # 1
  PROVE  Channels = {0, 1} /\ FrameInts = Bps + Bps /\ 0 * Bps = 0 /\ 1 * Bps = Bps /\ Bps \in 1..4
  <1>1. Bps \in 1..4 /\ hp.channels = 2 /\ FrameInts = hp.channels * Bps
    BY FormatFacts
  <1> QED BY <1>1 DEF Channels

LEMMA OneChannel ==
  ASSUME Format(hp), hp.channels = 1
  PROVE  Channels = {0} /\ FrameInts = Bps /\ 0 * Bps = 0 /\ Bps \in 1..4
  <1>1. Bps \in 1..4 /\ FrameInts = hp.channels * Bps
    BY FormatFacts
  <1> QED BY <1>1 DEF Channels
(* calcu_frame leaves bytes in the output array and nothing anywhere else. *)
LEMMA InterpolateFacts ==
  ASSUME Format(hp), NEW m \in [Memory -> Cell], NEW k \in Nat,
         layout.previous \in Address, layout.input \in Address, layout.output \in Address,
         options.factor \in 1..1024
  PROVE  /\ Interpolate(m, k) \in [Memory -> Cell]
         /\ \A a \in Memory : a < layout.output \/ a >= layout.output + FrameInts => Interpolate(m, k)[a] = m[a]
         /\ FramesApart => \A c \in Channels, j \in 1..Bps :
              Interpolate(m, k)[layout.output + c * Bps + j - 1]
                = SignedByte(Shifted(Interpolated(m, k, c), Bps - j) % Base)
  <1> DEFINE at == layout.output
             left == InterpolateChannel(m, k, 0)
             both == InterpolateChannel(left, k, 1)
             Is(r, c) == \A j \in 1..Bps : r[at + c * Bps + j - 1]
                           = SignedByte(Shifted(Interpolated(m, k, c), Bps - j) % Base)
  <1>0. at \in Int /\ (\A j \in 1..Bps : j \in Int) /\ \A a \in Memory : a \in Int
    BY DEF Address, Memory
  <1>1. CASE hp.channels = 1
    <2>1. Channels = {0} /\ FrameInts = Bps /\ 0 * Bps = 0 /\ 0 \in Channels
      BY <1>1, OneChannel
    <2>2. /\ left \in [Memory -> Cell]
          /\ \A a \in Memory : a < at + 0 * Bps \/ a >= at + 0 * Bps + Bps => left[a] = m[a]
          /\ Is(left, 0)
      BY <2>1, InterpolateChannelFacts
    <2>3. Interpolate(m, k) = left
      BY <1>1 DEF Interpolate
    <2> HIDE DEF left
    <2>4. at + 0 * Bps = at
      BY <1>0, <2>1
    <2> QED BY <2>1, <2>2, <2>3, <2>4
  <1>2. CASE hp.channels # 1
    <2>1. Channels = {0, 1} /\ FrameInts = Bps + Bps /\ 0 * Bps = 0 /\ 1 * Bps = Bps /\ Bps \in 1..4
          /\ 0 \in Channels /\ 1 \in Channels
      BY <1>2, ChannelPlaces
    <2>2. /\ left \in [Memory -> Cell]
          /\ \A a \in Memory : a < at + 0 * Bps \/ a >= at + 0 * Bps + Bps => left[a] = m[a]
          /\ Is(left, 0)
      BY <2>1, InterpolateChannelFacts
    <2>3. /\ both \in [Memory -> Cell]
          /\ \A a \in Memory : a < at + 1 * Bps \/ a >= at + 1 * Bps + Bps => both[a] = left[a]
          /\ \A j \in 1..Bps : both[at + 1 * Bps + j - 1]
                = SignedByte(Shifted(Interpolated(left, k, 1), Bps - j) % Base)
      <3> HIDE DEF left
      <3> QED BY <2>1, <2>2, InterpolateChannelFacts
    <2>4. Interpolate(m, k) = both
      BY <1>2 DEF Interpolate
    <2> HIDE DEF both, left
    <2>5. at + 0 * Bps = at /\ at + 1 * Bps = at + Bps
      BY <1>0, <2>1
    <2>6. \A a \in Memory : a < at \/ a >= at + FrameInts => both[a] = m[a]
      BY <1>0, <2>1, <2>2, <2>3, <2>5
    <2>7. \A j \in 1..Bps : at + j - 1 \in Memory /\ both[at + j - 1] = left[at + j - 1]
      <3>1. \A j \in 1..Bps : at + 0 * Bps + j - 1 \in Memory
        BY <2>1, ChannelIndex
      <3> QED BY <1>0, <2>1, <2>3, <2>5, <3>1
    <2>8. Is(both, 0)
      BY <2>2, <2>5, <2>7
    <2>9. ASSUME FramesApart
          PROVE  Is(both, 1)
      <3>1. \A p \in {layout.previous, layout.input} : p \in Int /\ (p + FrameInts <= at \/ at + FrameInts <= p)
        BY <2>9 DEF FramesApart, Apart, Address
      <3>2. \A p \in {layout.previous, layout.input} : Channel(left, p, 1) = Channel(m, p, 1)
        <4> SUFFICES ASSUME NEW p \in {layout.previous, layout.input}, NEW j \in 1..Bps
                     PROVE  left[p + 1 * Bps + j - 1] = m[p + 1 * Bps + j - 1]
          BY DEF Channel
        <4>1. p + 1 * Bps + j - 1 \in Memory /\ p + 1 * Bps + j - 1 = p + Bps + j - 1
          BY <2>1, <3>1, ChannelIndex
        <4>2. p + Bps + j - 1 < at \/ p + Bps + j - 1 >= at + Bps
          BY <1>0, <2>1, <3>1
        <4> QED BY <2>2, <2>5, <4>1, <4>2
      <3>3. Interpolated(left, k, 1) = Interpolated(m, k, 1)
        BY <3>2 DEF Interpolated
      <3> QED BY <2>3, <3>3
    <2> QED BY <2>1, <2>3, <2>4, <2>6, <2>8, <2>9
  <1> QED BY <1>1, <1>2
(* The word drawn for a channel.                                           *)
LEMMA WordType ==
  ASSUME TypeInv, NEW c \in Channels, Format(hp), options.key \in Keys,
         random + hp.channels <= 2 * MaxFrames
  PROVE  Random(options.key, random + c + 1) \in [1..4 -> Byte]
  <1>1. hp.channels \in 1..2 /\ random \in Nat /\ MaxFrames \in Nat
    BY FormatFacts, AudibleAssumption DEF TypeInv
  <1>2. c \in Int /\ 0 <= c /\ c <= hp.channels - 1
    BY <1>1 DEF Channels
  <1>3. random + c + 1 \in 1..(2 * MaxFrames)
    BY <1>1, <1>2
  <1> QED BY <1>3, CipherAssumption

(* One channel of an encrypted frame.                                      *)
LEMMA CryptChannelFacts ==
  ASSUME TypeInv, Format(hp), NEW m \in [Memory -> Byte], NEW c \in Channels,
         layout.input \in Address, layout.output \in Address,
         options.key \in Keys, random + hp.channels <= 2 * MaxFrames
  PROVE  LET r == CryptChannel(m, c) IN
         /\ r \in [Memory -> Byte]
         /\ \A a \in Memory : a < layout.output + c * Bps \/ a >= layout.output + c * Bps + Bps => r[a] = m[a]
         /\ \A j \in 1..Bps : r[layout.output + c * Bps + j - 1]
              = XorByte(m[layout.input + c * Bps + j - 1], Random(options.key, random + c + 1)[4 - Bps + j])
  <1> DEFINE word == Random(options.key, random + c + 1)
             input == Channel(m, layout.input, c)
             bytes == [j \in 1..Bps |-> XorByte(input[j], word[4 - Bps + j])]
             at == layout.output + c * Bps
  <1>1. word \in [1..4 -> Byte]
    BY WordType
  <1>2. Bps \in 1..4
    BY FormatFacts
  <1>3. input \in [1..Bps -> Byte] /\ \A j \in 1..Bps : input[j] = m[layout.input + c * Bps + j - 1]
    <2>1. input \in [1..Bps -> Byte]
      BY ChannelType
    <2> QED BY <2>1 DEF Channel
  <1> HIDE DEF word, input
  <1>4. bytes \in [1..Bps -> Byte] /\ \A j \in 1..Bps : bytes[j] = XorByte(input[j], word[4 - Bps + j])
    <2>1. \A j \in 1..Bps : 4 - Bps + j \in 1..4
      BY <1>2
    <2>2. \A j \in 1..Bps : XorByte(input[j], word[4 - Bps + j]) \in Byte
      BY <1>1, <1>3, <2>1, CipherAssumption
    <2> QED BY <2>2
  <1>5. at \in Int /\ \A j \in 1..Bps : at + j - 1 \in Memory
    BY ChannelIndex, Zenon
  <1>6. CryptChannel(m, c) = Store(m, at, bytes)
    BY DEF CryptChannel, PutSample, word, input
  <1>7. Bps \in Nat
    BY <1>2
  <1> HIDE DEF bytes, at
  <1>8. /\ Store(m, at, bytes) \in [Memory -> Byte]
        /\ \A a \in Memory : a < at \/ a >= at + Bps => Store(m, at, bytes)[a] = m[a]
        /\ \A j \in 1..Bps : at + j - 1 \in Memory => Store(m, at, bytes)[at + j - 1] = bytes[j]
    BY <1>4, <1>5, <1>7, StoreBytes
  <1>9. /\ CryptChannel(m, c) \in [Memory -> Byte]
        /\ \A a \in Memory : a < at \/ a >= at + Bps => CryptChannel(m, c)[a] = m[a]
        /\ \A j \in 1..Bps : CryptChannel(m, c)[at + j - 1]
                               = XorByte(m[layout.input + c * Bps + j - 1], word[4 - Bps + j])
    BY <1>3, <1>4, <1>5, <1>6, <1>8
  <1> QED BY <1>9 DEF at, word

(* Encryption leaves bytes in the output array and nothing anywhere else.  *)
LEMMA CryptFacts ==
  ASSUME TypeInv, Format(hp), NEW m \in [Memory -> Byte],
         layout.input \in Address, layout.output \in Address,
         options.key \in Keys, random + hp.channels <= 2 * MaxFrames
  PROVE  /\ Crypt(m) \in [Memory -> Byte]
         /\ Apart(layout.input, layout.output) => \A c \in Channels, j \in 1..Bps :
              Crypt(m)[layout.output + c * Bps + j - 1]
                = XorByte(m[layout.input + c * Bps + j - 1], Random(options.key, random + c + 1)[4 - Bps + j])
  <1> DEFINE at == layout.output
             left == CryptChannel(m, 0)
             both == CryptChannel(left, 1)
             Is(r, c) == \A j \in 1..Bps : r[at + c * Bps + j - 1]
              = XorByte(m[layout.input + c * Bps + j - 1], Random(options.key, random + c + 1)[4 - Bps + j])
  <1>0. at \in Int /\ (\A j \in 1..Bps : j \in Int) /\ \A a \in Memory : a \in Int
    BY DEF Address, Memory
  <1>1. CASE hp.channels = 1
    <2>1. Channels = {0} /\ 0 \in Channels
      BY <1>1, OneChannel
    <2>2. left \in [Memory -> Byte] /\ Is(left, 0)
      BY <2>1, CryptChannelFacts
    <2>3. Crypt(m) = left
      BY <1>1 DEF Crypt
    <2> HIDE DEF left
    <2> QED BY <2>1, <2>2, <2>3
  <1>2. CASE hp.channels # 1
    <2>1. Channels = {0, 1} /\ FrameInts = Bps + Bps /\ 0 * Bps = 0 /\ 1 * Bps = Bps /\ Bps \in 1..4
          /\ 0 \in Channels /\ 1 \in Channels
      BY <1>2, ChannelPlaces
    <2>2. /\ left \in [Memory -> Byte]
          /\ \A a \in Memory : a < at + 0 * Bps \/ a >= at + 0 * Bps + Bps => left[a] = m[a]
          /\ Is(left, 0)
      BY <2>1, CryptChannelFacts
    <2>3. /\ both \in [Memory -> Byte]
          /\ \A a \in Memory : a < at + 1 * Bps \/ a >= at + 1 * Bps + Bps => both[a] = left[a]
          /\ \A j \in 1..Bps : both[at + 1 * Bps + j - 1]
              = XorByte(left[layout.input + 1 * Bps + j - 1], Random(options.key, random + 1 + 1)[4 - Bps + j])
      <3> HIDE DEF left
      <3> QED BY <2>1, <2>2, CryptChannelFacts
    <2>4. Crypt(m) = both
      BY <1>2 DEF Crypt
    <2> HIDE DEF both, left
    <2>5. at + 0 * Bps = at /\ at + 1 * Bps = at + Bps
      BY <1>0, <2>1
    <2>6. \A j \in 1..Bps : at + j - 1 \in Memory /\ both[at + j - 1] = left[at + j - 1]
      <3>1. \A j \in 1..Bps : at + 0 * Bps + j - 1 \in Memory
        BY <2>1, ChannelIndex
      <3> QED BY <1>0, <2>1, <2>3, <2>5, <3>1
    <2>7. Is(both, 0)
      BY <2>2, <2>5, <2>6
    <2>8. ASSUME Apart(layout.input, layout.output)
          PROVE  Is(both, 1)
      <3>1. PICK p \in Int : p = layout.input
        BY DEF Address
      <3>2. p + FrameInts <= at \/ at + FrameInts <= p
        BY <2>8, <3>1 DEF Apart
      <3>3. \A j \in 1..Bps : left[p + 1 * Bps + j - 1] = m[p + 1 * Bps + j - 1]
        <4> SUFFICES ASSUME NEW j \in 1..Bps
                     PROVE  left[p + 1 * Bps + j - 1] = m[p + 1 * Bps + j - 1]
          OBVIOUS
        <4>1. p + 1 * Bps + j - 1 \in Memory
          BY <2>1, <3>1, ChannelIndex
        <4>2. p + 1 * Bps + j - 1 = p + Bps + j - 1
          BY <2>1, <3>1
        <4>3. p + Bps + j - 1 < at \/ p + Bps + j - 1 >= at + Bps
          BY <1>0, <2>1, <3>1, <3>2
        <4> QED BY <2>2, <2>5, <4>1, <4>2, <4>3
      <3> QED BY <2>3, <3>1, <3>3
    <2> QED BY <2>1, <2>3, <2>4, <2>7, <2>8
  <1> QED BY <1>1, <1>2
LEMMA ModLess ==
  ASSUME NEW a \in Nat, NEW b \in Nat, b > 0
  PROVE  a % b \in 0..a /\ (a < b => a % b = a)
  <1>1. a \div b \in Nat /\ a % b \in 0..(b - 1) /\ a = b * (a \div b) + (a % b)
    BY DivNat, DivMod
  <1>2. PICK q, r : q = a \div b /\ r = a % b
    OBVIOUS
  <1>3. b * q >= 0
    BY <1>1, <1>2
  <1>4. r \in 0..a
    BY <1>1, <1>2, <1>3
  <1>5. a < b => a % b = a
    BY ModSmall
  <1> QED BY <1>2, <1>4, <1>5

(* framecpy between two arrays of the memory.                              *)
LEMMA CopyFacts ==
  ASSUME Format(hp), NEW m \in [Memory -> Cell], NEW to \in Address, NEW from \in Address
  PROVE  /\ CopyFrame(m, to, from) \in [Memory -> Cell]
         /\ \A a \in Memory : a < to \/ a >= to + FrameInts => CopyFrame(m, to, from)[a] = m[a]
         /\ Apart(to, from) => \A j \in 1..FrameInts : CopyFrame(m, to, from)[to + j - 1] = m[from + j - 1]
  <1> DEFINE ahead == IF to > from THEN to - from ELSE FrameInts
  <1>1. FrameInts \in 1..8 /\ to \in 0..23 /\ from \in 0..23
    BY FormatFacts DEF Address
  <1>2. ahead \in Nat /\ ahead > 0
    BY <1>1
  <1>3. CopyFrame(m, to, from)
          = [a \in Memory |-> IF a \in to..(to + FrameInts - 1) THEN m[from + ((a - to) % ahead)] ELSE m[a]]
    BY DEF CopyFrame
  <1> HIDE DEF ahead
  <1>4. \A a \in Memory : a \in to..(to + FrameInts - 1) =>
          /\ a - to \in Nat /\ a - to < FrameInts /\ (a - to) % ahead \in 0..(a - to)
          /\ from + ((a - to) % ahead) \in Memory
    <2> SUFFICES ASSUME NEW a \in to..(to + FrameInts - 1)
                 PROVE  /\ a - to \in Nat /\ a - to < FrameInts /\ (a - to) % ahead \in 0..(a - to)
                        /\ from + ((a - to) % ahead) \in Memory
      OBVIOUS
    <2>1. PICK i \in 0..7 : i = a - to
      BY <1>1
    <2>2. i < FrameInts
      BY <1>1, <2>1
    <2>3. i % ahead \in 0..i
      BY <1>2, ModLess
    <2>4. from + (i % ahead) \in Memory
      BY <1>1, <2>3 DEF Memory
    <2> QED BY <2>1, <2>2, <2>3, <2>4
  <1>5. CopyFrame(m, to, from) \in [Memory -> Cell]
    BY <1>3, <1>4
  <1>6. \A a \in Memory : a < to \/ a >= to + FrameInts => CopyFrame(m, to, from)[a] = m[a]
    BY <1>1, <1>3 DEF Memory
  <1>7. ASSUME Apart(to, from), NEW j \in 1..FrameInts
        PROVE  CopyFrame(m, to, from)[to + j - 1] = m[from + j - 1]
    <2>1. to + j - 1 \in Memory /\ to + j - 1 \in to..(to + FrameInts - 1) /\ (to + j - 1) - to = j - 1
      BY <1>1 DEF Memory
    <2>2. FrameInts <= ahead
      BY <1>1, <1>7 DEF Apart, ahead
    <2>3. j - 1 \in Nat /\ j - 1 < ahead
      BY <1>1, <1>2, <2>2
    <2>4. (j - 1) % ahead = j - 1
      BY <1>2, <2>3, ModLess
    <2>5. from + (j - 1) = from + j - 1
      BY <1>1
    <2> QED BY <1>3, <2>1, <2>4, <2>5
  <1> QED BY <1>5, <1>6, <1>7

(* A frame stored in an array is what is written from it.                  *)
LEMMA StoredFrame ==
  ASSUME Format(hp), NEW f \in Frame, NEW at \in Address, NEW m \in [Memory -> Cell]
  PROVE  /\ Store(m, at, f) \in [Memory -> Cell]
         /\ \A a \in Memory : a < at \/ a >= at + FrameInts => Store(m, at, f)[a] = m[a]
         /\ \A j \in 1..FrameInts : at + j - 1 \in Memory /\ Store(m, at, f)[at + j - 1] = f[j]
         /\ Fetch(Store(m, at, f), at) = f
  <1> DEFINE r == Store(m, at, f)
  <1>1. FrameInts \in 1..8 /\ at \in Int /\ FrameInts \in Nat
    BY FormatFacts DEF Address
  <1>2. f \in [1..FrameInts -> Cell] /\ f \in [1..FrameInts -> Byte]
    BY CellFacts DEF Frame
  <1>3. /\ r \in [Memory -> Cell]
        /\ \A a \in Memory : a < at \/ a >= at + FrameInts => r[a] = m[a]
        /\ \A j \in 1..FrameInts : at + j - 1 \in Memory => r[at + j - 1] = f[j]
    BY <1>1, <1>2, StoreCells
  <1>4. r \in [Memory -> Int]
    BY <1>3, CellFacts
  <1> HIDE DEF r
  <1>5. /\ Fetch(r, at) \in Frame /\ \A j \in 1..FrameInts : Fetch(r, at)[j] = r[at + j - 1] % Base
        /\ \A j \in 1..FrameInts : at + j - 1 \in Memory
    BY <1>4, FetchFacts
  <1>6. \A j \in 1..FrameInts : Fetch(r, at)[j] = f[j]
    <2> SUFFICES ASSUME NEW j \in 1..FrameInts
                 PROVE  f[j] % Base = f[j]
      BY <1>3, <1>5
    <2>1. f[j] \in 0..(Base - 1) /\ Base \in Nat
      BY <1>2, AudibleAssumption DEF Byte
    <2> QED BY <2>1, ModSmall
  <1>7. Fetch(r, at) = f
    <2>1. Fetch(r, at) = [j \in 1..FrameInts |-> Fetch(r, at)[j]] /\ f = [j \in 1..FrameInts |-> f[j]]
      BY <1>5 DEF Frame
    <2> QED BY <1>6, <2>1
  <1> QED BY <1>3, <1>5, <1>7 DEF r
-----------------------------------------------------------------------------
(* The steps that read and write frames keep the invariant. *)

LEMMA SpeedUpKeeps ==
  ASSUME IInv, NEW frame \in NextFrames, SpeedUp(frame)
  PROVE  IInv'
  <1>1. phase = "frames" /\ options.mode = "u" /\ Get(frame) /\ mem' = Store(mem, layout.input, frame)
        /\ UNCHANGED <<phase, random, turn>>
    BY DEF SpeedUp
  <1>2. /\ Format(hp) /\ written.frames \in Seq(Frame) /\ Frame \subseteq Frames /\ layout.input \in Address
        /\ feed \in Seq(Frame)
    BY <1>1, WorkingFacts
  <1>3. /\ counter' = counter + 1 /\ counter' \in 1..MaxFrames
        /\ frame \in Frame /\ source' \in Seq(Frame) /\ source' \in Seq(Frames)
        /\ round = 1 => counter' = Len(source')
        /\ round = 2 => counter' <= Len(feed)
        /\ UNCHANGED <<argv, options, hp, layout, feed, round>> /\ Frame' = Frame
    BY <1>1, GetFacts
  <1>4. mem \in [Memory -> Cell] /\ written \in [annotation : Nat, frames : Seq(Frames)]
    BY DEF IInv, TypeInv
  <1>5. mem' \in [Memory -> Cell] /\ Fetch(mem', layout.input) = frame
    BY <1>1, <1>2, <1>3, <1>4, StoredFrame
  <1>6. PICK s \in Seq(Frame) : Put(s)
    <2>1. Put(IF counter % options.factor = 0 THEN <<Fetch(mem', layout.input)>> ELSE <<>>)
      BY DEF SpeedUp
    <2>2. <<Fetch(mem', layout.input)>> \in Seq(Frame) /\ <<>> \in Seq(Frame)
      BY <1>3, <1>5
    <2> QED BY <2>1, <2>2
  <1>7. written' \in [annotation : Nat, frames : Seq(Frames)] /\ written'.frames \in Seq(Frame)
    BY <1>2, <1>4, <1>6, PutFacts
  <1>8. TypeInv'
    BY <1>1, <1>3, <1>5, <1>7 DEF IInv, TypeInv
  <1>9. ControlInv'
    BY <1>1, <1>2, <1>3 DEF IInv, ControlInv, Working
  <1>10. ReadInv'
    BY <1>1, <1>2, <1>3, <1>7 DEF IInv, ReadInv, Working
  <1>11. DrawInv'
    BY <1>1, <1>3 DEF IInv, DrawInv
  <1> QED BY <1>8, <1>9, <1>10, <1>11 DEF IInv

LEMMA FirstFrameKeeps ==
  ASSUME IInv, NEW frame \in NextFrames, FirstFrame(frame)
  PROVE  /\ IInv'
         /\ Len(written'.frames) = 1 /\ written'.frames[1] = frame
         /\ mem' = Store(mem, layout.previous, frame)
  <1>1. phase = "first" /\ Get(frame) /\ mem' = Store(mem, layout.previous, frame)
        /\ phase' = "frames" /\ UNCHANGED <<random, turn>> /\ Put(<<Fetch(mem', layout.previous)>>)
    BY DEF FirstFrame
  <1>2. /\ Format(hp) /\ written.frames \in Seq(Frame) /\ Frame \subseteq Frames /\ layout.previous \in Address
        /\ feed \in Seq(Frame) /\ options.mode = "d" /\ written.frames = <<>>
    BY <1>1, WorkingFacts DEF IInv, ControlInv, ReadInv
  <1>3. /\ counter' = counter + 1 /\ counter' \in 1..MaxFrames
        /\ frame \in Frame /\ source' \in Seq(Frame) /\ source' \in Seq(Frames)
        /\ round = 1 => counter' = Len(source')
        /\ round = 2 => counter' <= Len(feed)
        /\ UNCHANGED <<argv, options, hp, layout, feed, round>> /\ Frame' = Frame
    BY <1>1, GetFacts
  <1>4. mem \in [Memory -> Cell] /\ written \in [annotation : Nat, frames : Seq(Frames)]
    BY DEF IInv, TypeInv
  <1>5. mem' \in [Memory -> Cell] /\ Fetch(mem', layout.previous) = frame
    BY <1>1, <1>2, <1>3, <1>4, StoredFrame
  <1>6. Put(<<frame>>)
    BY <1>1, <1>5
  <1>7. /\ written' \in [annotation : Nat, frames : Seq(Frames)] /\ written'.frames \in Seq(Frame)
        /\ Len(written'.frames) = Len(written.frames) + 1
        /\ written'.frames[Len(written.frames) + 1] = frame
    BY <1>2, <1>3, <1>4, <1>6, PutOne
  <1>8. TypeInv'
    BY <1>1, <1>3, <1>5, <1>7 DEF IInv, TypeInv, Phases
  <1>9. ControlInv'
    BY <1>1, <1>2, <1>3 DEF IInv, ControlInv, Working
  <1>10. ReadInv'
    BY <1>1, <1>2, <1>3, <1>7 DEF IInv, ReadInv, Working
  <1>11. DrawInv'
    BY <1>1, <1>2, <1>3 DEF IInv, DrawInv
  <1>12. Len(written.frames) = 0
    BY <1>2
  <1> QED BY <1>1, <1>7, <1>8, <1>9, <1>10, <1>11, <1>12 DEF IInv

LEMMA SlowDownKeeps ==
  ASSUME IInv, NEW frame \in NextFrames, SlowDown(frame)
  PROVE  IInv'
  <1>1. phase = "frames" /\ options.mode = "d" /\ Get(frame) /\ mem' = Store(mem, layout.input, frame)
        /\ turn' = 1 /\ phase' = "between" /\ UNCHANGED <<random, written>>
    BY DEF SlowDown
  <1>2. /\ Format(hp) /\ written.frames \in Seq(Frame) /\ Frame \subseteq Frames /\ layout.input \in Address
        /\ feed \in Seq(Frame) /\ options.factor \in 1..1024
    BY <1>1, WorkingFacts
  <1>3. /\ counter' = counter + 1 /\ counter' \in 1..MaxFrames
        /\ frame \in Frame /\ source' \in Seq(Frame) /\ source' \in Seq(Frames)
        /\ round = 1 => counter' = Len(source')
        /\ round = 2 => counter' <= Len(feed)
        /\ UNCHANGED <<argv, options, hp, layout, feed, round>> /\ Frame' = Frame
    BY <1>1, GetFacts
  <1>4. mem \in [Memory -> Cell]
    BY DEF IInv, TypeInv
  <1>5. mem' \in [Memory -> Cell]
    BY <1>1, <1>2, <1>3, <1>4, StoredFrame
  <1>8. TypeInv'
    BY <1>1, <1>3, <1>5 DEF IInv, TypeInv, Phases
  <1>9. ControlInv'
    <2>0. 1 \in 1..options.factor
      <3> PICK f \in 1..1024 : f = options.factor
        BY <1>2, FactorFacts
      <3> QED OBVIOUS
    <2>1. turn' \in 1..options'.factor /\ options' = options /\ argv' = argv /\ hp' = hp /\ round' = round
      BY <1>1, <1>3, <2>0
    <2> QED BY <1>1, <1>2, <2>1 DEF IInv, ControlInv, Working
  <1>10. ReadInv'
    BY <1>1, <1>2, <1>3 DEF IInv, ReadInv, Working
  <1>11. DrawInv'
    BY <1>1, <1>3 DEF IInv, DrawInv
  <1> QED BY <1>8, <1>9, <1>10, <1>11 DEF IInv

LEMMA InsertFrameKeeps ==
  ASSUME IInv, InsertFrame
  PROVE  /\ IInv' /\ Fetch(mem', layout.output) \in Frame
         /\ Len(written'.frames) = Len(written.frames) + 1
         /\ \A i \in 1..Len(written.frames) : written'.frames[i] = written.frames[i]
         /\ written'.frames[Len(written.frames) + 1] = Fetch(mem', layout.output)
  <1>1. phase = "between" /\ turn < options.factor /\ mem' = Interpolate(mem, turn)
        /\ Put(<<Fetch(mem', layout.output)>>) /\ turn' = turn + 1
        /\ UNCHANGED <<phase, argv, options, hp, layout, counter, random, source, feed, round>>
    BY DEF InsertFrame
  <1>2. /\ Format(hp) /\ written.frames \in Seq(Frame) /\ options.factor \in 1..1024
        /\ layout.input \in Address /\ layout.output \in Address /\ layout.previous \in Address
    BY <1>1, WorkingFacts
  <1>3. mem \in [Memory -> Cell] /\ turn \in 1..options.factor /\ turn \in Nat
        /\ written \in [annotation : Nat, frames : Seq(Frames)]
    BY <1>1, <1>2 DEF IInv, TypeInv, ControlInv
  <1>4. mem' \in [Memory -> Cell]
    BY <1>1, <1>2, <1>3, InterpolateFacts
  <1>5. mem' \in [Memory -> Int]
    BY <1>4, CellFacts
  <1>6. Fetch(mem', layout.output) \in Frame
    BY <1>2, <1>5, FetchFacts
  <1>7. /\ written' \in [annotation : Nat, frames : Seq(Frames)] /\ written'.frames \in Seq(Frame)
        /\ Len(written'.frames) = Len(written.frames) + 1
        /\ \A i \in 1..Len(written.frames) : written'.frames[i] = written.frames[i]
        /\ written'.frames[Len(written.frames) + 1] = Fetch(mem', layout.output)
    BY <1>1, <1>2, <1>3, <1>6, PutOne
  <1>8. Frame' = Frame /\ turn' \in 1..options.factor /\ turn' \in 0..1024
    <2>1. Frame' = Frame
      BY <1>1, SameFormat
    <2>2. PICK f \in 1..1024 : f = options.factor
      BY <1>2, FactorFacts
    <2>3. turn \in 1..f /\ turn < f /\ turn' = turn + 1
      BY <1>1, <1>3, <2>2
    <2>4. turn' \in 1..f /\ turn' \in 0..1024
      BY <2>3
    <2> QED BY <2>1, <2>2, <2>4
  <1>9. TypeInv'
    BY <1>1, <1>4, <1>7, <1>8 DEF IInv, TypeInv
  <1>10. ControlInv'
    BY <1>1, <1>2, <1>8 DEF IInv, ControlInv, Working
  <1>11. ReadInv'
    BY <1>1, <1>2, <1>7, <1>8 DEF IInv, ReadInv, Working
  <1>12. DrawInv'
    BY <1>1 DEF IInv, DrawInv, ControlInv
  <1> QED BY <1>6, <1>7, <1>9, <1>10, <1>11, <1>12 DEF IInv

LEMMA KeepFrameKeeps ==
  ASSUME IInv, KeepFrame
  PROVE  /\ IInv' /\ Fetch(mem, layout.input) \in Frame
         /\ Len(written'.frames) = Len(written.frames) + 1
         /\ \A i \in 1..Len(written.frames) : written'.frames[i] = written.frames[i]
         /\ written'.frames[Len(written.frames) + 1] = Fetch(mem, layout.input)
  <1>1. phase = "between" /\ mem' = CopyFrame(mem, layout.previous, layout.input)
        /\ Put(<<Fetch(mem, layout.input)>>) /\ phase' = "frames"
        /\ UNCHANGED <<argv, options, hp, layout, counter, turn, random, source, feed, round>>
    BY DEF KeepFrame
  <1>2. /\ Format(hp) /\ written.frames \in Seq(Frame) /\ options.mode = "d"
        /\ layout.input \in Address /\ layout.previous \in Address
    BY <1>1, WorkingFacts DEF IInv, ControlInv
  <1>3. mem \in [Memory -> Cell] /\ written \in [annotation : Nat, frames : Seq(Frames)]
    BY DEF IInv, TypeInv
  <1>4. mem' \in [Memory -> Cell]
    BY <1>1, <1>2, <1>3, CopyFacts
  <1>5. mem \in [Memory -> Int]
    BY <1>3, CellFacts
  <1>6. Fetch(mem, layout.input) \in Frame
    BY <1>2, <1>5, FetchFacts
  <1>7. /\ written' \in [annotation : Nat, frames : Seq(Frames)] /\ written'.frames \in Seq(Frame)
        /\ Len(written'.frames) = Len(written.frames) + 1
        /\ \A i \in 1..Len(written.frames) : written'.frames[i] = written.frames[i]
        /\ written'.frames[Len(written.frames) + 1] = Fetch(mem, layout.input)
    BY <1>1, <1>2, <1>3, <1>6, PutOne
  <1>8. Frame' = Frame
    BY <1>1, SameFormat
  <1>9. TypeInv'
    BY <1>1, <1>4, <1>7 DEF IInv, TypeInv, Phases
  <1>10. ControlInv'
    BY <1>1, <1>2 DEF IInv, ControlInv, Working
  <1>11. ReadInv'
    BY <1>1, <1>2, <1>7, <1>8 DEF IInv, ReadInv, Working
  <1>12. DrawInv'
    BY <1>1, <1>2 DEF IInv, DrawInv
  <1> QED BY <1>6, <1>7, <1>9, <1>10, <1>11, <1>12 DEF IInv
(* What an encrypted frame is made of: each channel has a word of its own. *)
Encrypts(f, g, n, key, channels, bps) ==
  \A c \in 0..(channels - 1), j \in 1..bps :
    g[c * bps + j] = XorByte(f[c * bps + j], Random(key, n + c + 1)[4 - bps + j])

LEMMA CryptFrameKeeps ==
  ASSUME IInv, NEW frame \in NextFrames, CryptFrame(frame)
  PROVE  /\ IInv' /\ Fetch(mem', layout.output) \in Frame
         /\ Len(written'.frames) = Len(written.frames) + 1
         /\ \A i \in 1..Len(written.frames) : written'.frames[i] = written.frames[i]
         /\ written'.frames[Len(written.frames) + 1] = Fetch(mem', layout.output)
         /\ Apart(layout.input, layout.output) =>
              Encrypts(frame, Fetch(mem', layout.output), counter * hp.channels, ParseOptions(argv).key, hp.channels, Bps)
  <1> DEFINE before == Store(mem, layout.input, frame)
  <1>1. phase = "frames" /\ options.mode = "c" /\ Get(frame) /\ mem' = Crypt(before)
        /\ random' = random + hp.channels /\ Put(<<Fetch(mem', layout.output)>>) /\ UNCHANGED <<phase, turn>>
    BY DEF CryptFrame
  <1>2. /\ Format(hp) /\ written.frames \in Seq(Frame) /\ Frame \subseteq Frames /\ layout.input \in Address
        /\ feed \in Seq(Frame) /\ layout.output \in Address /\ options.key \in Keys /\ options = ParseOptions(argv)
    BY <1>1, WorkingFacts DEF OptionSet
  <1>3. /\ counter' = counter + 1 /\ counter' \in 1..MaxFrames
        /\ frame \in Frame /\ source' \in Seq(Frame) /\ source' \in Seq(Frames)
        /\ round = 1 => counter' = Len(source')
        /\ round = 2 => counter' <= Len(feed)
        /\ UNCHANGED <<argv, options, hp, layout, feed, round>> /\ Frame' = Frame
    BY <1>1, GetFacts
  <1>4. /\ written \in [annotation : Nat, frames : Seq(Frames)] /\ counter \in Nat /\ MaxFrames \in Nat
        /\ hp.channels \in 1..2 /\ FrameInts \in 1..8
    BY <1>2, FormatFacts, AudibleAssumption DEF IInv, TypeInv
  <1>5. random = counter * hp.channels /\ Len(written.frames) = counter /\ mem \in [Memory -> Byte]
    BY <1>1 DEF IInv, DrawInv, Working
  <1>6. /\ random + hp.channels <= 2 * MaxFrames /\ random + hp.channels = (counter + 1) * hp.channels
        /\ random' \in 0..(2 * MaxFrames)
    <2>1. PICK n \in 1..2 : n = hp.channels
      BY <1>4
    <2>2. counter * n \in Nat /\ (counter + 1) * n = counter * n + n /\ (counter + 1) * n <= 2 * MaxFrames
      <3>1. CASE n = 1
        BY <1>3, <1>4, <3>1
      <3>2. CASE n = 2
        BY <1>3, <1>4, <3>2
      <3> QED BY <2>1, <3>1, <3>2
    <2> QED BY <1>1, <1>5, <2>1, <2>2
  <1>7. /\ before \in [Memory -> Byte]
        /\ \A j \in 1..FrameInts : layout.input + j - 1 \in Memory /\ before[layout.input + j - 1] = frame[j]
    <2>0. layout.input \in Int
      BY <1>2, AddressFacts
    <2>1. frame \in [1..FrameInts -> Byte] /\ FrameInts \in Nat /\ layout.input \in Int
      BY <1>3, <1>4, <2>0 DEF Frame
    <2>2. before \in [Memory -> Byte]
      BY <1>5, <2>1, StoreBytes
    <2>3. mem \in [Memory -> Cell]
      BY <1>5, CellFacts
    <2> QED BY <1>2, <1>3, <2>2, <2>3, StoredFrame
  <1> HIDE DEF before
  <1>8. /\ mem' \in [Memory -> Byte]
        /\ Apart(layout.input, layout.output) => \A c \in Channels, j \in 1..Bps :
              mem'[layout.output + c * Bps + j - 1]
                = XorByte(before[layout.input + c * Bps + j - 1], Random(options.key, random + c + 1)[4 - Bps + j])
    BY <1>1, <1>2, <1>6, <1>7, CryptFacts DEF IInv
  <1>9. mem' \in [Memory -> Cell] /\ mem' \in [Memory -> Int]
    BY <1>8, CellFacts
  <1>10. /\ Fetch(mem', layout.output) \in Frame
         /\ \A j \in 1..FrameInts : /\ Fetch(mem', layout.output)[j] = mem'[layout.output + j - 1] % Base
                                    /\ layout.output + j - 1 \in Memory
    BY <1>2, <1>9, FetchFacts
  <1>11. /\ written' \in [annotation : Nat, frames : Seq(Frames)] /\ written'.frames \in Seq(Frame)
         /\ Len(written'.frames) = Len(written.frames) + 1
         /\ \A i \in 1..Len(written.frames) : written'.frames[i] = written.frames[i]
         /\ written'.frames[Len(written.frames) + 1] = Fetch(mem', layout.output)
    BY <1>1, <1>2, <1>4, <1>10, PutOne
  <1>12. ASSUME Apart(layout.input, layout.output), NEW c \in Channels, NEW j \in 1..Bps
         PROVE  Fetch(mem', layout.output)[c * Bps + j] = XorByte(frame[c * Bps + j],
                  Random(ParseOptions(argv).key, counter * hp.channels + c + 1)[4 - Bps + j])
    <2>1. PICK i \in 1..FrameInts : i = c * Bps + j
      BY <1>2, ChannelIndex
    <2>2. c * Bps \in Int /\ j \in Int /\ layout.input \in Int /\ layout.output \in Int
      <3>1. c * Bps \in Int /\ j \in Int
        BY <1>2, ChannelIndex
      <3> QED BY <1>2, <3>1, AddressFacts
    <2>3. layout.output + c * Bps + j - 1 = layout.output + i - 1
          /\ layout.input + c * Bps + j - 1 = layout.input + i - 1
      BY <2>1, <2>2
    <2>4. mem'[layout.output + i - 1]
            = XorByte(frame[i], Random(ParseOptions(argv).key, counter * hp.channels + c + 1)[4 - Bps + j])
      BY <1>2, <1>5, <1>7, <1>8, <1>12, <2>3
    <2>5. mem'[layout.output + i - 1] % Base = mem'[layout.output + i - 1]
      <3>1. mem'[layout.output + i - 1] \in 0..(Base - 1) /\ Base \in Nat
        BY <1>8, <1>10, AudibleAssumption DEF Byte
      <3> QED BY <3>1, ModSmall
    <2> QED BY <1>10, <2>1, <2>4, <2>5
  <1>13. TypeInv'
    BY <1>1, <1>3, <1>6, <1>9, <1>11 DEF IInv, TypeInv
  <1>14. ControlInv'
    BY <1>1, <1>2, <1>3 DEF IInv, ControlInv, Working
  <1>15. ReadInv'
    BY <1>1, <1>2, <1>3, <1>11 DEF IInv, ReadInv, Working
  <1>16. DrawInv'
    BY <1>1, <1>3, <1>5, <1>6, <1>8, <1>11 DEF IInv, DrawInv
  <1>17. Apart(layout.input, layout.output) =>
              Encrypts(frame, Fetch(mem', layout.output), counter * hp.channels, ParseOptions(argv).key, hp.channels, Bps)
    BY <1>12 DEF Encrypts, Channels
  <1> QED BY <1>10, <1>11, <1>13, <1>14, <1>15, <1>16, <1>17 DEF IInv
(* The steps that read nothing.                                            *)
LEMMA StopKeeps == IInv /\ (Smash \/ EndOfInput) => IInv'
  <1> SUFFICES ASSUME IInv, Smash \/ EndOfInput
               PROVE  IInv'
    OBVIOUS
  <1>1. /\ phase \in {"first", "frames"} /\ phase' \in {"undefined", "done"}
        /\ UNCHANGED <<argv, options, hp, layout, mem, counter, turn, random, written, source, feed, round>>
    BY DEF Smash, EndOfInput
  <1>2. Frame' = Frame
    BY <1>1, SameFormat
  <1>3. TypeInv'
    BY <1>1 DEF IInv, TypeInv, Phases
  <1>4. ControlInv'
    BY <1>1 DEF IInv, ControlInv, Working
  <1>5. ReadInv'
    BY <1>1, <1>2 DEF IInv, ReadInv, Working
  <1>6. DrawInv'
    BY <1>1 DEF IInv, DrawInv, Working
  <1> QED BY <1>3, <1>4, <1>5, <1>6 DEF IInv

LEMMA RunAgainKeeps == IInv /\ RunAgain => IInv'
  <1> SUFFICES ASSUME IInv, RunAgain
               PROVE  IInv'
    OBVIOUS
  <1>1. /\ phase = "done" /\ round = 1 /\ options.mode = "c" /\ phase' = "start" /\ round' = 2
        /\ feed' = written.frames /\ written' = Nothing
        /\ mem' = [a \in DOMAIN mem |-> 0] /\ counter' = 0 /\ turn' = 0 /\ random' = 0 /\ options' = NoOptions
        /\ UNCHANGED <<argv, hp, layout, source>>
    BY DEF RunAgain
  <1>2. /\ Format(hp) /\ options = ParseOptions(argv) /\ source \in Seq(Frame) /\ written.frames \in Seq(Frame)
        /\ Len(written.frames) = counter /\ Frame' = Frame
    BY <1>1, SameFormat DEF IInv, ControlInv, ReadInv, DrawInv, Working
  <1>3. written'.frames = <<>> /\ written' \in [annotation : Nat, frames : Seq(Frames)]
    BY <1>1 DEF Nothing
  <1>4. mem' = [a \in Memory |-> 0] /\ mem' \in [Memory -> Cell]
    BY <1>1, CellFacts DEF IInv, TypeInv
  <1>5. feed' \in Seq(Frames)
    BY <1>1, <1>2 DEF IInv, TypeInv
  <1>6. options' \in OptionSet /\ options'.mode = "none"
    BY <1>1, RefusedType DEF NoOptions, Chosen
  <1>7. TypeInv'
    BY <1>1, <1>3, <1>4, <1>5, <1>6, AudibleAssumption, SMTT(60) DEF IInv, TypeInv, Phases
  <1>8. ControlInv'
    BY <1>1, <1>2 DEF IInv, ControlInv, Working
  <1>9. ReadInv'
    <2>1. source' \in Seq(Frame') /\ feed' \in Seq(Frame') /\ written'.frames \in Seq(Frame')
      BY <1>1, <1>2, <1>3
    <2>2. counter' <= Len(feed') /\ Len(feed') <= MaxFrames
      BY <1>1, <1>2 DEF IInv, TypeInv
    <2> QED BY <1>1, <1>3, <1>4, <2>1, <2>2 DEF ReadInv
  <1>10. DrawInv'
    BY <1>1, <1>6 DEF DrawInv, Working
  <1> QED BY <1>7, <1>8, <1>9, <1>10 DEF IInv

LEMMA StutterKeeps == IInv /\ UNCHANGED vars => IInv'
  <1> SUFFICES ASSUME IInv, UNCHANGED vars
               PROVE  IInv'
    OBVIOUS
  <1>1. Frame' = Frame
    BY SameFormat DEF vars
  <1>2. TypeInv'
    BY DEF IInv, TypeInv, vars
  <1>3. ControlInv'
    BY DEF IInv, ControlInv, vars
  <1>4. ReadInv'
    BY <1>1 DEF IInv, ReadInv, vars
  <1>5. DrawInv'
    BY DEF IInv, DrawInv, vars
  <1> QED BY <1>2, <1>3, <1>4, <1>5 DEF IInv

LEMMA NextKeeps == IInv /\ [Next]_vars => IInv'
  <1> SUFFICES ASSUME IInv, [Next]_vars
               PROVE  IInv'
    OBVIOUS
  <1>1. CASE ValidArgs \/ ReadHeader \/ ReadAnnotation
    BY <1>1, ValidArgsKeeps, ReadHeaderKeeps, ReadAnnotationKeeps
  <1>2. ASSUME NEW frame \in NextFrames, SpeedUp(frame) \/ FirstFrame(frame) \/ SlowDown(frame) \/ CryptFrame(frame)
        PROVE  IInv'
    BY <1>2, SpeedUpKeeps, FirstFrameKeeps, SlowDownKeeps, CryptFrameKeeps
  <1>3. CASE InsertFrame \/ KeepFrame
    BY <1>3, InsertFrameKeeps, KeepFrameKeeps
  <1>4. CASE Smash \/ EndOfInput \/ RunAgain
    BY <1>4, StopKeeps, RunAgainKeeps
  <1>5. CASE UNCHANGED vars
    BY <1>5, StutterKeeps
  <1> QED BY <1>1, <1>2, <1>3, <1>4, <1>5 DEF Next

THEOREM IInvAlways == Spec => []IInv
  <1>1. Init => IInv
    BY InitIInv
  <1>2. IInv /\ [Next]_vars => IInv'
    BY NextKeeps
  <1> QED BY <1>1, <1>2, PTL DEF Spec

(* Every value that recode computes is a byte, and every frame that it     *)
(* reads and writes has the length that the header says.                   *)
THEOREM TypeCorrect == Spec => []AudibleTypeOK
  <1>1. IInv => AudibleTypeOK
    <2> SUFFICES ASSUME IInv
                 PROVE  AudibleTypeOK
      OBVIOUS
    <2>1. options \in OptionSet /\ options.mode \in Modes /\ options.factor \in 1..1024
      BY DEF IInv, TypeInv, OptionSet
    <2>2. \A a \in DOMAIN mem : mem[a] \in -Base..(Base - 1)
      BY DEF IInv, TypeInv, Cell
    <2>3. written.frames \in Seq(Frames)
      BY DEF IInv, TypeInv
    <2> QED BY <2>1, <2>2, <2>3 DEF IInv, TypeInv, AudibleTypeOK, Phases, Modes
  <1>2. Spec => []IInv
    BY IInvAlways
  <1> QED BY <1>1, <1>2, PTL
-----------------------------------------------------------------------------
(* What -c, -u and -d have written so far. *)

(* -c: in round 1 every frame written is the encryption of the one read,   *)
(* with the words drawn for it; in round 2 it is the one round 1 read.     *)
CipherInv ==
  LET key == ParseOptions(argv).key IN
  Apart(layout.input, layout.output) =>
    /\ (round = 1 /\ phase \in Working /\ options.mode = "c") =>
         \A i \in 1..counter :
           Encrypts(source[i], written.frames[i], (i - 1) * hp.channels, key, hp.channels, Bps)
    /\ round = 2 =>
         /\ Len(feed) = Len(source)
         /\ \A i \in 1..Len(source) : Encrypts(source[i], feed[i], (i - 1) * hp.channels, key, hp.channels, Bps)
         /\ phase \in Working => \A i \in 1..counter : written.frames[i] = source[i]
         /\ phase = "done" => counter = Len(feed)

(* How many frames are written, and where they start.                      *)
CountInv ==
  LET W == Len(written.frames) IN
  /\ phase \in {"first", "frames", "between", "done"} => hp.data_offset = HeaderSize + written.annotation
  /\ (phase \in Working /\ options.mode = "u") =>
       counter <= W * options.factor /\ (W - 1) * options.factor < counter
  /\ (phase = "frames" /\ options.mode = "d") => counter >= 1 /\ W = At(counter)
  /\ phase = "between" => counter >= 2 /\ W = At(counter - 1) + (turn - 1)
  /\ (phase = "done" /\ options.mode = "d" /\ counter >= 1) => W = At(counter)

(* The frame in an array.                                                  *)
Holds(m, at, f) == \A j \in 1..FrameInts : m[at + j - 1] = f[j]

(* Each channel goes from g to h on its way to f.                          *)
Passes(g, h, f) == \A c \in Channels : Ordered(Sample(g, c), Sample(h, c), Sample(f, c))

(* The first n frames read are at their places, the last of them is in the *)
(* array of the previous frame, and what was put between two of them goes  *)
(* from the one to the other.                                              *)
Placed(w, s, m, n) ==
  /\ \A i \in 1..n : w[At(i)] = s[i]
  /\ Holds(m, layout.previous, s[n])
  /\ \A i \in 2..n : \A x \in At(i - 1)..(At(i) - 1) : Passes(w[x], w[x + 1], s[i])

(* The next frame read is in the input array, and what was put behind the  *)
(* n-th goes towards it: k - 1 parts of factor are done.                   *)
Underway(w, s, m, n, k) ==
  /\ Holds(m, layout.input, s[n + 1])
  /\ \A x \in At(n)..(At(n) + k - 2) : Passes(w[x], w[x + 1], s[n + 1])
  /\ \A c \in Channels : Sample(w[At(n) + k - 1], c)
       = Between(Sample(s[n], c), Sample(s[n + 1], c), k - 1, options.factor)

(* No product in calcu_frame reaches 2^31, whatever the two samples.       *)
NoOverflow == 2 * (Number([j \in 1..Bps |-> Base - 1]) * (options.factor - 1)) < WordSize

(* What -d has written.                                                    *)
SlowInv ==
  (options.mode = "d" /\ Bps < 4 /\ FramesApart /\ NoOverflow) =>
    /\ phase = "frames" => Placed(written.frames, source, mem, counter)
    /\ phase = "between" => /\ Placed(written.frames, source, mem, counter - 1)
                            /\ Underway(written.frames, source, mem, counter - 1, turn)
-----------------------------------------------------------------------------
(* -c. *)

(* Where no frame is encrypted: only the beginning, or the other options.  *)
LEMMA CipherNothing ==
  ASSUME IInv, CipherInv, UNCHANGED <<argv, layout, source, feed, round>>,
         counter' = 0 \/ (options'.mode # "c" /\ round = 1), phase' # "done" \/ round = 1,
         round = 2 => Bps' = Bps /\ FrameInts' = FrameInts /\ hp'.channels = hp.channels
  PROVE  CipherInv'
  <1>1. CASE round = 2
    <2>1. Apart(layout.input, layout.output)' => Apart(layout.input, layout.output)
      BY <1>1 DEF Apart
    <2> QED BY <1>1, <2>1 DEF CipherInv
  <1>2. CASE round # 2
    <2>1. ASSUME counter' = 0
          PROVE  1..counter' = {}
      BY <2>1
    <2> QED BY <1>2, <2>1 DEF CipherInv
  <1> QED BY <1>1, <1>2

(* Only -c is run twice.                                                   *)
LEMMA RoundFacts ==
  ASSUME IInv, phase # "start", options.mode # "c"
  PROVE  round = 1
  BY DEF IInv, TypeInv, ControlInv

(* A frame encrypted twice with the same words is the first one.           *)
LEMMA EncryptsTwice ==
  ASSUME Format(hp), NEW f \in Frame, NEW g \in Frame, NEW h \in Frame, NEW n \in Nat, NEW key \in Keys,
         n + hp.channels <= 2 * MaxFrames,
         Encrypts(f, g, n, key, hp.channels, Bps), Encrypts(g, h, n, key, hp.channels, Bps)
  PROVE  h = f
  <1> SUFFICES ASSUME NEW c \in Channels, NEW j \in 1..Bps
               PROVE  h[c * Bps + j] = f[c * Bps + j]
    BY FrameEqual
  <1> DEFINE word == Random(key, n + c + 1)
  <1>1. c \in 0..(hp.channels - 1) /\ hp.channels \in 1..2 /\ Bps \in 1..4 /\ MaxFrames \in Nat
    BY FormatFacts, AudibleAssumption DEF Channels
  <1>2. n + c + 1 \in 1..(2 * MaxFrames)
    BY <1>1
  <1>3. word \in [1..4 -> Byte]
    BY <1>2, CipherAssumption
  <1>4. PICK i \in 1..FrameInts : i = c * Bps + j
    BY ChannelIndex
  <1>5. f[i] \in Byte /\ 4 - Bps + j \in 1..4
    BY <1>1 DEF Frame
  <1>6. g[i] = XorByte(f[i], word[4 - Bps + j]) /\ h[i] = XorByte(g[i], word[4 - Bps + j])
    BY <1>1, <1>4 DEF Encrypts
  <1> HIDE DEF word
  <1>7. XorByte(XorByte(f[i], word[4 - Bps + j]), word[4 - Bps + j]) = f[i]
    BY <1>3, <1>5, CipherAssumption
  <1> QED BY <1>4, <1>6, <1>7

LEMMA CryptFrameCipher ==
  ASSUME IInv, CipherInv, NEW frame \in NextFrames, CryptFrame(frame)
  PROVE  CipherInv'
  <1> SUFFICES ASSUME Apart(layout.input, layout.output)'
               PROVE  CipherInv'
    BY DEF CipherInv
  <1> DEFINE key == ParseOptions(argv).key
             g == Fetch(mem', layout.output)
  <1>1. phase = "frames" /\ options.mode = "c" /\ Get(frame) /\ phase' = "frames"
    BY DEF CryptFrame
  <1>2. /\ Format(hp) /\ written.frames \in Seq(Frame) /\ source \in Seq(Frame) /\ feed \in Seq(Frame)
        /\ options = ParseOptions(argv) /\ key \in Keys
    BY <1>1, WorkingFacts DEF OptionSet
  <1>3. /\ counter' = counter + 1 /\ counter' \in 1..MaxFrames
        /\ frame \in Frame
        /\ round = 1 => counter' = Len(source') /\ source' = Append(source, frame)
        /\ round = 2 => counter' <= Len(feed) /\ source' = source /\ frame = feed[counter']
        /\ UNCHANGED <<argv, options, hp, layout, feed, round>> /\ Frame' = Frame
    BY <1>1, GetFacts
  <1>4. Bps' = Bps /\ FrameInts' = FrameInts /\ Apart(layout.input, layout.output)
    <2>1. Bps' = Bps /\ FrameInts' = FrameInts
      BY <1>3, SameFormat
    <2> QED BY <1>3, <2>1 DEF Apart
  <1>5. /\ g \in Frame
        /\ \A i \in 1..Len(written.frames) : written'.frames[i] = written.frames[i]
        /\ written'.frames[Len(written.frames) + 1] = g
        /\ Encrypts(frame, g, counter * hp.channels, key, hp.channels, Bps)
    BY <1>4, CryptFrameKeeps
  <1> HIDE DEF g, key
  <1>6. Len(written.frames) = counter /\ counter \in Nat /\ MaxFrames \in Nat /\ round \in 1..2
    BY <1>1, AudibleAssumption DEF IInv, TypeInv, DrawInv, Working
  <1>7. CASE round = 1
    <2>1. counter = Len(source)
      BY <1>7 DEF IInv, ReadInv
    <2>2. \A i \in 1..counter : source'[i] = source[i]
      BY <1>2, <1>3, <1>7, <2>1
    <2>3. source'[counter + 1] = frame
      BY <1>2, <1>3, <1>7, <2>1
    <2>4. \A i \in 1..counter : Encrypts(source[i], written.frames[i], (i - 1) * hp.channels, key, hp.channels, Bps)
      BY <1>1, <1>4, <1>7 DEF CipherInv, Working, key
    <2>5. (counter + 1) - 1 = counter
      BY <1>6
    <2>6. \A i \in 1..counter' : i \in 1..counter \/ i = counter + 1
      BY <1>3, <1>6
    <2>7. \A i \in 1..counter' :
            Encrypts(source'[i], written'.frames[i], (i - 1) * hp.channels, key, hp.channels, Bps)
      <3> SUFFICES ASSUME NEW i \in 1..counter'
                   PROVE  Encrypts(source'[i], written'.frames[i], (i - 1) * hp.channels, key, hp.channels, Bps)
        OBVIOUS
      <3>1. CASE i \in 1..counter
        BY <1>5, <1>6, <2>2, <2>4, <3>1
      <3>2. CASE i = counter + 1
        BY <1>5, <1>6, <2>3, <2>5, <3>2
      <3> QED BY <2>6, <3>1, <3>2
    <2> QED BY <1>3, <1>4, <1>7, <2>7 DEF CipherInv, key
  <1>8. CASE round = 2
    <2>1. /\ Len(feed) = Len(source)
          /\ \A i \in 1..Len(source) : Encrypts(source[i], feed[i], (i - 1) * hp.channels, key, hp.channels, Bps)
          /\ \A i \in 1..counter : written.frames[i] = source[i]
      BY <1>1, <1>4, <1>8 DEF CipherInv, Working, key
    <2>2. PICK n \in Nat : n = Len(source)
      BY <1>2, LenProperties
    <2>3. counter + 1 \in 1..n /\ frame = feed[counter + 1]
      BY <1>3, <1>6, <1>8, <2>1, <2>2
    <2>4. source[counter + 1] \in Frame /\ (counter + 1) - 1 = counter
      BY <1>2, <1>6, <2>2, <2>3
    <2>5. Encrypts(source[counter + 1], frame, counter * hp.channels, key, hp.channels, Bps)
      BY <2>1, <2>2, <2>3, <2>4
    <2>6. counter * hp.channels \in Nat /\ counter * hp.channels + hp.channels <= 2 * MaxFrames
      <3>1. PICK k \in 1..2 : k = hp.channels
        BY <1>2, FormatFacts
      <3>2. CASE k = 1
        BY <1>3, <1>6, <3>1, <3>2
      <3>3. CASE k = 2
        BY <1>3, <1>6, <3>1, <3>3
      <3> QED BY <3>1, <3>2, <3>3
    <2>7. g = source[counter + 1]
      BY <1>2, <1>3, <1>5, <2>4, <2>5, <2>6, EncryptsTwice DEF key
    <2>8. \A i \in 1..counter' : i \in 1..counter \/ i = counter + 1
      BY <1>3, <1>6
    <2>9. \A i \in 1..counter' : written'.frames[i] = source[i]
      BY <1>5, <1>6, <2>1, <2>7, <2>8
    <2> QED BY <1>1, <1>3, <1>4, <1>8, <2>1, <2>9 DEF CipherInv, key
  <1> QED BY <1>6, <1>7, <1>8
LEMMA CipherKeeps == IInv /\ CipherInv /\ [Next]_vars => CipherInv'
  <1> SUFFICES ASSUME IInv, CipherInv, [Next]_vars
               PROVE  CipherInv'
    OBVIOUS
  <1>1. CASE ValidArgs
    <2>1. /\ phase = "start" /\ phase' # "done"
          /\ UNCHANGED <<argv, hp, layout, mem, counter, turn, random, written, source, feed, round>>
      BY <1>1 DEF ValidArgs
    <2>2. counter = 0
      BY <2>1 DEF IInv, ReadInv
    <2> QED BY <2>1, <2>2, SameFormat, CipherNothing
  <1>2. CASE ReadHeader
    <2>1. /\ phase = "header" /\ phase' # "done" /\ (round = 2 => hp' = hp)
          /\ UNCHANGED <<argv, options, layout, mem, counter, turn, random, written, source, feed, round>>
      BY <1>2 DEF ReadHeader
    <2>2. counter = 0
      BY <2>1 DEF IInv, ReadInv
    <2> QED BY <2>1, <2>2, SameFormat, CipherNothing
  <1>3. CASE ReadAnnotation
    <2>1. /\ phase = "annotation" /\ phase' # "done"
          /\ UNCHANGED <<argv, options, layout, mem, counter, turn, random, source, feed, round>>
      BY <1>3 DEF ReadAnnotation
    <2>2. hp \in [data_offset : Nat, data_size : Nat, encoding : Nat, channels : Nat]
      BY DEF IInv, TypeInv
    <2>3. hp'.encoding = hp.encoding /\ hp'.channels = hp.channels
      BY <1>3, <2>2 DEF ReadAnnotation
    <2>4. counter = 0
      BY <2>1 DEF IInv, ReadInv
    <2> QED BY <2>1, <2>3, <2>4, SameFormat, CipherNothing
  <1>4. ASSUME NEW frame \in NextFrames, SpeedUp(frame) \/ FirstFrame(frame) \/ SlowDown(frame)
        PROVE  CipherInv'
    <2>1. phase \in {"first", "frames"} /\ options.mode # "c" /\ Get(frame) /\ phase' # "done"
      BY <1>4 DEF SpeedUp, FirstFrame, SlowDown, IInv, ControlInv
    <2>2. round = 1
      BY <2>1, RoundFacts
    <2>3. UNCHANGED <<argv, options, hp, layout, feed, round>>
      BY <2>1 DEF Get
    <2> QED BY <2>1, <2>2, <2>3 DEF CipherInv
  <1>5. ASSUME NEW frame \in NextFrames, CryptFrame(frame)
        PROVE  CipherInv'
    BY <1>5, CryptFrameCipher
  <1>6. CASE InsertFrame \/ KeepFrame
    <2>1. phase = "between" /\ options.mode = "d" /\ phase' # "done"
          /\ UNCHANGED <<argv, options, hp, layout, source, feed, round>>
      BY <1>6 DEF InsertFrame, KeepFrame, IInv, ControlInv
    <2> QED BY <2>1, RoundFacts, CipherNothing
  <1>7. CASE Smash
    <2>1. /\ phase' = "undefined"
          /\ UNCHANGED <<argv, options, hp, layout, mem, counter, turn, random, written, source, feed, round>>
      BY <1>7 DEF Smash
    <2>2. Bps' = Bps /\ FrameInts' = FrameInts
      BY <2>1, SameFormat
    <2> QED BY <2>1, <2>2 DEF CipherInv, Apart, Working
  <1>8. CASE EndOfInput
    <2>1. /\ phase \in {"first", "frames"} /\ phase' = "done" /\ (round = 1 \/ NextFrames = {})
          /\ UNCHANGED <<argv, options, hp, layout, mem, counter, turn, random, written, source, feed, round>>
      BY <1>8 DEF EndOfInput
    <2>2. Bps' = Bps /\ FrameInts' = FrameInts
      BY <2>1, SameFormat
    <2>3. round = 2 => counter = Len(feed)
      <3> SUFFICES ASSUME round = 2
                   PROVE  counter = Len(feed)
        OBVIOUS
      <3>1. PICK n \in Nat : n = Len(feed)
        BY <2>1, WorkingFacts, LenProperties
      <3>2. ~ (counter < n)
        BY <2>1, <3>1 DEF NextFrames
      <3> QED BY <3>1, <3>2 DEF IInv, TypeInv, ReadInv
    <2> QED BY <2>1, <2>2, <2>3 DEF CipherInv, Apart, Working
  <1>9. CASE RunAgain
    <2>1. /\ phase = "done" /\ round = 1 /\ options.mode = "c" /\ phase' = "start" /\ round' = 2
          /\ feed' = written.frames /\ counter' = 0
          /\ UNCHANGED <<argv, hp, layout, source>>
      BY <1>9 DEF RunAgain
    <2>2. Bps' = Bps /\ FrameInts' = FrameInts
      BY <2>1, SameFormat
    <2>3. Len(written.frames) = counter /\ counter = Len(source)
      BY <2>1 DEF IInv, ReadInv, DrawInv, Working
    <2>4. Apart(layout.input, layout.output)' => Apart(layout.input, layout.output)
      BY <2>1, <2>2 DEF Apart
    <2> QED BY <2>1, <2>2, <2>3, <2>4 DEF CipherInv, Working
  <1>10. CASE UNCHANGED vars
    <2>1. Bps' = Bps /\ FrameInts' = FrameInts
      BY <1>10, SameFormat DEF vars
    <2> QED BY <1>10, <2>1 DEF CipherInv, Apart, vars
  <1> QED BY <1>1, <1>2, <1>3, <1>4, <1>5, <1>6, <1>7, <1>8, <1>9, <1>10 DEF Next

(* What -c writes of its own output, with the same key, is what it first   *)
(* read, whatever XorByte and Random are: crypt draws one word for each    *)
(* channel of each frame in both runs.                                     *)
THEOREM CryptTwiceHolds == Spec => []CryptTwice
  <1>1. Init => CipherInv
    BY DEF Init, CipherInv, Working
  <1>2. IInv /\ CipherInv /\ [Next]_vars => CipherInv'
    BY CipherKeeps
  <1>3. IInv /\ CipherInv => CryptTwice
    <2> SUFFICES ASSUME IInv, CipherInv, round = 2, phase = "done", Apart(layout.input, layout.output)
                 PROVE  written.frames = source
      BY DEF CryptTwice
    <2>1. options.mode = "c" /\ source \in Seq(Frame) /\ written.frames \in Seq(Frame)
      BY DEF IInv, ControlInv, ReadInv, Working
    <2>2. Len(written.frames) = counter
      BY <2>1 DEF IInv, DrawInv, Working
    <2>3. counter = Len(source) /\ \A i \in 1..counter : written.frames[i] = source[i]
      BY DEF CipherInv, Working
    <2> QED BY <2>1, <2>2, <2>3, SeqEqual
  <1>4. Spec => []IInv
    BY IInvAlways
  <1> QED BY <1>1, <1>2, <1>3, <1>4, PTL DEF Spec
-----------------------------------------------------------------------------
(* The header and the number of frames. *)

(* Every factor-th frame is kept, from the first one on.                   *)
LEMMA KeptFrames ==
  ASSUME NEW n \in Nat, NEW W \in Nat, NEW f \in Nat, f > 0, n <= W * f, (W - 1) * f < n
  PROVE  /\ n % f = 0 => n + 1 <= (W + 1) * f /\ ((W + 1) - 1) * f < n + 1
         /\ n % f # 0 => n + 1 <= W * f /\ (W - 1) * f < n + 1
  <1>1. PICK q, r : q = n \div f /\ r = n % f
    OBVIOUS
  <1>2. q \in Nat /\ r \in 0..(f - 1) /\ n = f * q + r
    BY <1>1, DivMod, DivNat
  <1>3. CASE r = 0
    <2>1. ~ (W >= q + 1)
      <3> SUFFICES ASSUME W >= q + 1
                   PROVE  FALSE
        OBVIOUS
      <3>1. PICK d \in Nat : W - 1 = q + d
        BY <1>2
      <3>2. (W - 1) * f = q * f + d * f /\ d * f >= 0
        BY <1>2, <3>1
      <3> QED BY <1>2, <1>3, <3>2
    <2>2. (W + 1) * f = W * f + f /\ ((W + 1) - 1) * f = W * f
      OBVIOUS
    <2>3. W * f <= n
      <3>1. PICK d \in Nat : q = W + d
        BY <1>2, <2>1
      <3>2. f * q = W * f + d * f /\ d * f >= 0
        BY <3>1
      <3> QED BY <1>2, <1>3, <3>2
    <2> QED BY <1>1, <1>3, <2>2, <2>3
  <1>4. CASE r # 0
    <2>1. n # W * f
      <3> SUFFICES ASSUME n = W * f
                   PROVE  FALSE
        OBVIOUS
      <3>1. n = f * W + 0 /\ 0 \in 0..(f - 1)
        OBVIOUS
      <3> QED BY <1>1, <1>4, <3>1, DivModUnique
    <2>2. W * f \in Nat /\ (W - 1) * f \in Int
      OBVIOUS
    <2> QED BY <1>1, <1>4, <2>1, <2>2
  <1> QED BY <1>3, <1>4

LEMMA AtFacts ==
  ASSUME options.factor \in 1..1024, NEW i \in Int
  PROVE  At(i) \in Int /\ At(1) = 1 /\ At(i + 1) = At(i) + options.factor
  <1>1. PICK f \in 1..1024 : f = options.factor
    OBVIOUS
  <1>2. (i - 1) * f \in Int /\ ((i + 1) - 1) * f = (i - 1) * f + f /\ (1 - 1) * f = 0
    BY <1>1
  <1> QED BY <1>1, <1>2 DEF At

(* What the frames say of the header does not change while they are read.  *)
LEMMA OffsetKeeps ==
  ASSUME CountInv, phase \in {"first", "frames", "between"}, hp' = hp,
         written'.annotation = written.annotation
  PROVE  hp'.data_offset = HeaderSize + written'.annotation
  BY DEF CountInv

LEMMA SpeedUpCount ==
  ASSUME IInv, CountInv, NEW frame \in NextFrames, SpeedUp(frame)
  PROVE  CountInv'
  <1> DEFINE f == options.factor
             W == Len(written.frames)
  <1>1. phase = "frames" /\ options.mode = "u" /\ Get(frame) /\ mem' = Store(mem, layout.input, frame)
        /\ phase' = "frames" /\ UNCHANGED <<argv, options, hp, layout, feed, round>> /\ counter' = counter + 1
        /\ Put(IF counter % options.factor = 0 THEN <<Fetch(mem', layout.input)>> ELSE <<>>)
    BY DEF SpeedUp, Get
  <1>2. /\ Format(hp) /\ written.frames \in Seq(Frame) /\ layout.input \in Address /\ f \in 1..1024
        /\ frame \in Frame /\ written \in [annotation : Nat, frames : Seq(Frames)]
        /\ mem \in [Memory -> Cell] /\ counter \in Nat
    BY <1>1, WorkingFacts, GetFacts DEF IInv, TypeInv
  <1>3. f \in Nat /\ f > 0
    BY <1>2, FactorFacts
  <1>4. W \in Nat /\ counter <= W * f /\ (W - 1) * f < counter
    BY <1>1, <1>2, LenProperties DEF CountInv, Working
  <1>5. Fetch(mem', layout.input) = frame
    BY <1>1, <1>2, StoredFrame
  <1> HIDE DEF f, W
  <1>6. Len(written'.frames) = (IF counter % f = 0 THEN W + 1 ELSE W) /\ written'.annotation = written.annotation
    <2>1. <<frame>> \in Seq(Frame) /\ Len(<<frame>>) = 1 /\ <<>> \in Seq(Frame) /\ Len(<<>>) = 0
      BY <1>2
    <2>2. CASE counter % f = 0
      <3>1. Put(<<frame>>)
        BY <1>1, <1>5, <2>2 DEF f
      <3> QED BY <1>2, <2>1, <2>2, <3>1, PutFacts DEF W
    <2>3. CASE counter % f # 0
      <3>1. Put(<<>>)
        BY <1>1, <2>3 DEF f
      <3>2. Len(written'.frames) = W + 0 /\ written'.annotation = written.annotation
        BY <1>2, <2>1, <3>1, PutFacts DEF W
      <3> QED BY <1>4, <2>3, <3>2
    <2> QED BY <2>2, <2>3
  <1>7. counter' <= Len(written'.frames) * f /\ (Len(written'.frames) - 1) * f < counter'
    BY <1>1, <1>2, <1>3, <1>4, <1>6, KeptFrames
  <1>8. hp'.data_offset = HeaderSize + written'.annotation
    BY <1>1, <1>6, OffsetKeeps
  <1>9. options' = options /\ options'.factor = f
    BY <1>1 DEF f
  <1> QED BY <1>1, <1>7, <1>8, <1>9 DEF CountInv

LEMMA CountKeeps == IInv /\ CountInv /\ [Next]_vars => CountInv'
  <1> SUFFICES ASSUME IInv, CountInv, [Next]_vars
               PROVE  CountInv'
    OBVIOUS
  <1> DEFINE f == options.factor
             W == Len(written.frames)
  <1>0. options.factor \in 1..1024 /\ f \in Nat /\ f > 0
    <2>1. options.factor \in 1..1024
      BY DEF IInv, TypeInv, OptionSet
    <2> QED BY <2>1
  <1>1. CASE ValidArgs
    <2>1. phase' \in {"exited", "header"}
      BY <1>1 DEF ValidArgs
    <2> QED BY <2>1 DEF CountInv, Working
  <1>z. ASSUME counter' = 0, written'.frames = <<>>, options' = options
        PROVE  counter' <= Len(written'.frames) * options'.factor
               /\ (Len(written'.frames) - 1) * options'.factor < counter'
    <2>1. 0 * f = 0 /\ (0 - 1) * f < 0 /\ Len(<<>>) = 0
      BY <1>0
    <2> QED BY <1>z, <2>1
  <1>2. CASE ReadHeader
    <2>1. /\ phase = "header" /\ phase' \in {"annotation", "failed"}
          /\ UNCHANGED <<argv, options, layout, mem, counter, turn, random, written, source, feed, round>>
      BY <1>2 DEF ReadHeader
    <2>2. counter = 0 /\ written.frames = <<>>
      BY <2>1 DEF IInv, ReadInv
    <2> QED BY <1>z, <2>1, <2>2 DEF CountInv
  <1>3. CASE ReadAnnotation
    <2>1. /\ phase = "annotation"
          /\ UNCHANGED <<argv, options, layout, mem, counter, turn, random, source, feed, round>>
      BY <1>3 DEF ReadAnnotation
    <2>2. counter = 0 /\ written.frames = <<>>
      BY <2>1 DEF IInv, ReadInv
    <2>3. hp \in [data_offset : Nat, data_size : Nat, encoding : Nat, channels : Nat]
          /\ written \in [annotation : Nat, frames : Seq(Frames)]
      BY DEF IInv, TypeInv
    <2>4. /\ written'.frames = written.frames
          /\ \/ phase' \in {"failed", "crashed", "undefined"}
             \/ /\ phase' = (IF options.mode = "d" THEN "first" ELSE "frames")
                /\ hp'.data_offset = HeaderSize + written'.annotation
      BY <1>3, <2>3 DEF ReadAnnotation
    <2> QED BY <1>z, <2>1, <2>2, <2>4 DEF CountInv, Working
  <1>4. ASSUME NEW frame \in NextFrames, SpeedUp(frame)
        PROVE  CountInv'
    BY <1>4, SpeedUpCount
  <1>5. ASSUME NEW frame \in NextFrames, FirstFrame(frame)
        PROVE  CountInv'
    <2>1. /\ phase = "first" /\ phase' = "frames" /\ options.mode = "d" /\ counter = 0
          /\ counter' = counter + 1 /\ UNCHANGED <<options, hp>>
      BY <1>5 DEF FirstFrame, Get, IInv, ControlInv, ReadInv
    <2>2. Len(written'.frames) = 1
      BY <1>5, FirstFrameKeeps
    <2>3. written'.annotation = written.annotation
      BY <1>5 DEF FirstFrame, Put, IInv, TypeInv
    <2>4. counter' = 1 /\ At(1)' = 1
      BY <1>0, <2>1, AtFacts DEF At
    <2>5. hp'.data_offset = HeaderSize + written'.annotation
      BY <2>1, <2>3, OffsetKeeps
    <2> QED BY <2>1, <2>2, <2>4, <2>5 DEF CountInv
  <1>6. ASSUME NEW frame \in NextFrames, SlowDown(frame)
        PROVE  CountInv'
    <2>1. /\ phase = "frames" /\ phase' = "between" /\ options.mode = "d"
          /\ counter' = counter + 1 /\ turn' = 1 /\ UNCHANGED <<options, hp, written>>
      BY <1>6 DEF SlowDown, Get
    <2>2. counter \in Nat /\ counter >= 1 /\ W = At(counter)
      BY <2>1 DEF IInv, TypeInv, CountInv
    <2>3. At(counter) \in Int
      BY <1>0, <2>2, AtFacts
    <2>4. counter' >= 2 /\ counter' - 1 = counter /\ W = At(counter) + (turn' - 1)
      BY <2>1, <2>2, <2>3
    <2>5. hp'.data_offset = HeaderSize + written'.annotation
      BY <2>1, OffsetKeeps
    <2> QED BY <2>1, <2>4, <2>5 DEF CountInv, At
  <1>7. ASSUME NEW frame \in NextFrames, CryptFrame(frame)
        PROVE  CountInv'
    <2>1. phase = "frames" /\ phase' = "frames" /\ options.mode = "c" /\ UNCHANGED <<options, hp>>
      BY <1>7 DEF CryptFrame, Get
    <2>2. written'.annotation = written.annotation
      BY <1>7 DEF CryptFrame, Put, IInv, TypeInv
    <2>3. hp'.data_offset = HeaderSize + written'.annotation
      BY <2>1, <2>2, OffsetKeeps
    <2> QED BY <2>1, <2>3 DEF CountInv
  <1>8. CASE InsertFrame
    <2>1. /\ phase = "between" /\ phase' = "between" /\ turn' = turn + 1 /\ options.mode = "d"
          /\ UNCHANGED <<options, hp, counter>>
      BY <1>8 DEF InsertFrame, IInv, ControlInv
    <2>2. Len(written'.frames) = W + 1 /\ counter >= 2 /\ W = At(counter - 1) + (turn - 1)
      BY <1>8, <2>1, InsertFrameKeeps DEF CountInv
    <2>3. written'.annotation = written.annotation
      BY <1>8 DEF InsertFrame, Put, IInv, TypeInv
    <2>4. counter \in Nat /\ turn \in Nat /\ At(counter - 1) \in Int
      <3>1. counter \in Nat /\ counter - 1 \in Int /\ turn \in Nat
        BY DEF IInv, TypeInv
      <3> QED BY <1>0, <3>1, AtFacts
    <2>5. Len(written'.frames) = At(counter - 1) + (turn' - 1)
      BY <2>1, <2>2, <2>4
    <2>6. hp'.data_offset = HeaderSize + written'.annotation
      BY <2>1, <2>3, OffsetKeeps
    <2> QED BY <2>1, <2>2, <2>5, <2>6 DEF CountInv, At
  <1>9. CASE KeepFrame
    <2>1. /\ phase = "between" /\ phase' = "frames" /\ turn >= f /\ turn \in 1..f /\ options.mode = "d"
          /\ UNCHANGED <<options, hp, counter>>
      BY <1>9 DEF KeepFrame, IInv, ControlInv
    <2>2. Len(written'.frames) = W + 1 /\ counter >= 2 /\ W = At(counter - 1) + (turn - 1)
      BY <1>9, <2>1, KeepFrameKeeps DEF CountInv
    <2>3. written'.annotation = written.annotation
      BY <1>9 DEF KeepFrame, Put, IInv, TypeInv
    <2>4. counter \in Nat /\ turn = f /\ At(counter - 1) \in Int /\ At((counter - 1) + 1) = At(counter - 1) + f
      <3>1. counter \in Nat /\ counter - 1 \in Int
        BY DEF IInv, TypeInv
      <3>2. turn = f
        BY <1>0, <2>1
      <3> QED BY <1>0, <3>1, <3>2, AtFacts
    <2>5. Len(written'.frames) = At(counter) /\ counter >= 1
      <3>1. (counter - 1) + 1 = counter
        BY <2>4
      <3> QED BY <1>0, <2>2, <2>4, <3>1
    <2>6. hp'.data_offset = HeaderSize + written'.annotation
      BY <2>1, <2>3, OffsetKeeps
    <2> QED BY <2>1, <2>5, <2>6 DEF CountInv, At
  <1>10. CASE Smash \/ RunAgain
    <2>1. phase' \in {"undefined", "start"}
      BY <1>10 DEF Smash, RunAgain
    <2> QED BY <2>1 DEF CountInv, Working
  <1>11. CASE EndOfInput
    <2>1. /\ phase \in {"first", "frames"} /\ phase' = "done"
          /\ UNCHANGED <<argv, options, hp, layout, mem, counter, turn, random, written, source, feed, round>>
      BY <1>11 DEF EndOfInput
    <2>2. phase = "first" => counter = 0 /\ options.mode = "d"
      BY DEF IInv, ReadInv, ControlInv
    <2> QED BY <2>1, <2>2 DEF CountInv, At, Working
  <1>12. CASE UNCHANGED vars
    BY <1>12 DEF CountInv, At, Working, vars
  <1> QED BY <1>1, <1>2, <1>3, <1>4, <1>5, <1>6, <1>7, <1>8, <1>9, <1>10, <1>11, <1>12 DEF Next
LEMMA TimesOrder ==
  ASSUME NEW a \in Int, NEW b \in Int, NEW k \in Nat
  PROVE  /\ a * k \in Int /\ a * k = k * a
         /\ a <= b => a * k <= b * k
         /\ a < b /\ k > 0 => a * k < b * k
  <1>1. a <= b => a * k <= b * k
    <2> SUFFICES ASSUME a <= b
                 PROVE  a * k <= b * k
      OBVIOUS
    <2>1. PICK d \in Nat : b = a + d
      OBVIOUS
    <2>2. b * k = a * k + d * k /\ d * k >= 0
      BY <2>1
    <2> QED BY <2>2
  <1>2. a < b /\ k > 0 => a * k < b * k
    <2> SUFFICES ASSUME a < b, k > 0
                 PROVE  a * k < b * k
      OBVIOUS
    <2>1. PICK d \in Nat : b = a + d /\ d > 0
      OBVIOUS
    <2>2. b * k = a * k + d * k /\ d * k > 0
      BY <2>1, ProductPositive
    <2> QED BY <2>2
  <1> QED BY <1>1, <1>2

(* The size of the frames kept and the quotient of the size of all.        *)
LEMMA KeptSize ==
  ASSUME NEW n \in Nat, NEW W \in Nat, NEW f \in Nat, f > 0, NEW k \in Nat, k > 0,
         n <= W * f, (W - 1) * f < n
  PROVE  /\ (n * k) \div f <= W * k
         /\ n % f = 0 => (n * k) \div f = W * k
  <1>1. n * k \in Nat /\ W * f \in Nat /\ W * k \in Nat /\ (W - 1) * f \in Int
    OBVIOUS
  <1>2. PICK q \in Nat, r \in 0..(f - 1) : q = (n * k) \div f /\ n * k = f * q + r
    BY <1>1, DivMod, DivNat
  <1>3. n * k <= (W * f) * k /\ ((W - 1) * f) * k < n * k
    BY <1>1, TimesOrder
  <1>4. PICK p \in Nat : p = W * k
    BY <1>1
  <1>5. (W * f) * k = p * f /\ ((W - 1) * f) * k = (p - k) * f
    BY <1>4
  <1>6. f * q = q * f
    OBVIOUS
  <1>7. ~ (p + 1 <= q)
    <2> SUFFICES ASSUME p + 1 <= q
                 PROVE  FALSE
      OBVIOUS
    <2>1. (p + 1) * f <= q * f
      BY TimesOrder
    <2>2. (p + 1) * f = p * f + f
      OBVIOUS
    <2> QED BY <1>2, <1>3, <1>5, <1>6, <2>1, <2>2
  <1>8. ASSUME n % f = 0
        PROVE  (n * k) \div f = W * k
    <2>1. PICK e \in Nat : e = n \div f /\ n = f * e + 0
      BY <1>8, DivMod, DivNat
    <2>2. f * e = e * f /\ (W - 1) * f = W * f - f
      OBVIOUS
    <2>3. ~ (e + 1 <= W)
      <3> SUFFICES ASSUME e + 1 <= W
                   PROVE  FALSE
        OBVIOUS
      <3>1. (e + 1) * f <= W * f /\ (e + 1) * f = e * f + f
        BY TimesOrder
      <3> QED BY <1>1, <2>1, <2>2, <3>1
    <2>4. ~ (W + 1 <= e)
      <3> SUFFICES ASSUME W + 1 <= e
                   PROVE  FALSE
        OBVIOUS
      <3>1. (W + 1) * f <= e * f /\ (W + 1) * f = W * f + f
        BY TimesOrder
      <3> QED BY <1>1, <2>1, <2>2, <3>1
    <2>5. e = W
      BY <2>3, <2>4
    <2>6. n * k = f * p + 0 /\ 0 \in 0..(f - 1) /\ p \in Int /\ n * k \in Int
      <3>1. n = f * W
        BY <2>1, <2>5
      <3>2. (f * W) * k = f * (W * k)
        OBVIOUS
      <3> QED BY <1>4, <3>1, <3>2
    <2>7. (n * k) \div f = p
      BY <2>6, DivModUnique
    <2> QED BY <1>4, <2>7
  <1> QED BY <1>2, <1>4, <1>7, <1>8

(* The header that recode writes before the frames: its data_offset is     *)
(* where they start, -c announces what it writes, and at least as much as  *)
(* -u announces follows, exactly as much when no group is cut short.       *)
THEOREM HeaderCountsFramesHolds == Spec => []HeaderCountsFrames
  <1>1. Init => CountInv
    BY DEF Init, CountInv, Working
  <1>2. IInv /\ CountInv /\ [Next]_vars => CountInv'
    BY CountKeeps
  <1>3. IInv /\ CountInv => HeaderCountsFrames
    <2> SUFFICES ASSUME IInv, CountInv, round = 1, phase = "done", source # <<>>
                 PROVE  HeaderCountsFrames
      BY DEF HeaderCountsFrames
    <2>1. /\ Format(hp) /\ options.mode \in {"u", "d", "c"} /\ source \in Seq(Frame) /\ written.frames \in Seq(Frame)
          /\ counter = Len(source)
      BY DEF IInv, ControlInv, ReadInv, Working
    <2>2. hp.data_offset = HeaderSize + written.annotation /\ hp.data_offset % 8 = 0
      BY <2>1 DEF CountInv, Format
    <2>3. PICK k \in 1..8 : k = FrameInts
      BY <2>1, FormatFacts
    <2>4. PICK f \in 1..1024 : f = options.factor
      <3>1. options.factor \in 1..1024
        BY DEF IInv, TypeInv, OptionSet
      <3> QED BY <3>1, FactorFacts
    <2>5. PICK n \in Nat : n = Len(source) /\ n >= 1
      BY <2>1, LenProperties, EmptySeq
    <2>6. PICK W \in Nat : W = Len(written.frames)
      BY <2>1, LenProperties
    <2>7. CASE options.mode = "c"
      <3>1. W = n
        BY <2>1, <2>5, <2>6, <2>7 DEF IInv, DrawInv, Working
      <3> QED BY <2>2, <2>5, <2>6, <2>7, <3>1 DEF HeaderCountsFrames, Converted
    <2>8. CASE options.mode = "u"
      <3>1. n <= W * f /\ (W - 1) * f < n
        BY <2>1, <2>4, <2>5, <2>6, <2>8 DEF CountInv, Working
      <3>2. (n * k) \div f <= W * k /\ (n % f = 0 => (n * k) \div f = W * k)
        <4>1. f \in Nat /\ f > 0 /\ k \in Nat /\ k > 0 /\ n \in Nat /\ W \in Nat
          OBVIOUS
        <4> QED BY <3>1, <4>1, KeptSize, ZenonT(30)
      <3>3. Converted(Len(source) * FrameInts) = (n * k) \div f
        BY <2>3, <2>4, <2>5, <2>8 DEF Converted
      <3>4. Len(source) % options.factor = n % f /\ Len(written.frames) * FrameInts = W * k
        BY <2>3, <2>4, <2>5, <2>6
      <3> QED BY <2>2, <2>8, <3>2, <3>3, <3>4 DEF HeaderCountsFrames
    <2>9. CASE options.mode = "d"
      BY <2>2, <2>9 DEF HeaderCountsFrames
    <2> QED BY <2>1, <2>7, <2>8, <2>9
  <1>4. Spec => []IInv
    BY IInvAlways
  <1> QED BY <1>1, <1>2, <1>3, <1>4, PTL DEF Spec
-----------------------------------------------------------------------------
(* Samples. *)

(* The values that Bps bytes have, below four.                             *)
Top == IF Bps = 1 THEN Base ELSE IF Bps = 2 THEN Base * Base ELSE Base * Base * Base

LEMMA PowersOfBase ==
  /\ Base \in Nat /\ Base >= 2
  /\ Base * Base \in Nat /\ Base * Base >= 2 * Base
  /\ Base * Base * Base \in Nat /\ Base * Base * Base >= 2 * (Base * Base)
  /\ WordSize \in Nat /\ WordSize >= 2 * (Base * Base * Base)
  <1>1. Base \in Nat /\ Base >= 2
    BY AudibleAssumption
  <1>2. \A a \in Nat : a * Base \in Nat /\ a * Base >= 2 * a
    <2> SUFFICES ASSUME NEW a \in Nat
                 PROVE  a * Base \in Nat /\ a * Base >= 2 * a
      OBVIOUS
    <2>1. 2 * a <= Base * a /\ a * Base = Base * a
      BY <1>1, TimesOrder
    <2> QED BY <1>1, <2>1
  <1>3. Base * Base \in Nat /\ Base * Base >= 2 * Base
    BY <1>1, <1>2
  <1>4. (Base * Base) * Base \in Nat /\ (Base * Base) * Base >= 2 * (Base * Base)
    BY <1>2, <1>3
  <1>5. ((Base * Base) * Base) * Base \in Nat /\ ((Base * Base) * Base) * Base >= 2 * ((Base * Base) * Base)
    BY <1>2, <1>4
  <1> QED BY <1>1, <1>3, <1>4, <1>5 DEF WordSize

LEMMA TopFacts ==
  ASSUME Format(hp), Bps < 4
  PROVE  Bps \in 1..3 /\ Top \in Nat /\ Top > 0 /\ 2 * (Top - 1) < WordSize
  <1>1. Bps \in 1..3
    BY FormatFacts
  <1>2. PICK p \in Nat, q \in Nat, w \in Nat : p = Base * Base /\ q = Base * Base * Base /\ w = WordSize
    BY PowersOfBase
  <1>3. PICK b \in Nat : b = Base
    BY PowersOfBase
  <1>4. b >= 2 /\ p >= 2 * b /\ q >= 2 * p /\ w >= 2 * q
    BY <1>2, <1>3, PowersOfBase
  <1>5. Top \in {b, p, q}
    BY <1>2, <1>3 DEF Top
  <1> QED BY <1>1, <1>2, <1>4, <1>5

(* A digit in front of a number.                                           *)
LEMMA Digit ==
  ASSUME NEW n \in Nat, NEW h \in 0..(n - 1), NEW d \in 0..(Base - 1)
  PROVE  h * Base + d \in 0..(n * Base - 1)
  <1>1. Base \in Nat
    BY AudibleAssumption
  <1>2. h * Base \in Nat /\ h * Base <= (n - 1) * Base /\ (n - 1) * Base = n * Base - Base
    BY <1>1, TimesOrder
  <1>3. n * Base \in Int
    BY <1>1
  <1> QED BY <1>1, <1>2, <1>3

LEMMA NumberBound ==
  ASSUME Format(hp), Bps < 4, NEW b \in [1..Bps -> Byte]
  PROVE  Number(b) \in 0..(Top - 1)
  <1>1. Bps \in 1..3 /\ Base \in Nat /\ Base * Base \in Nat
    BY TopFacts, PowersOfBase
  <1>2. CASE Bps = 1
    BY <1>2 DEF Number, Top, Byte
  <1>3. CASE Bps = 2
    <2>1. b[1] \in 0..(Base - 1) /\ b[2] \in 0..(Base - 1)
      BY <1>3 DEF Byte
    <2>2. b[1] * Base + b[2] \in 0..(Base * Base - 1)
      BY <1>1, <2>1, Digit
    <2> QED BY <1>3, <2>2 DEF Number, Top
  <1>4. CASE Bps = 3
    <2>1. b[1] \in 0..(Base - 1) /\ b[2] \in 0..(Base - 1) /\ b[3] \in 0..(Base - 1)
      BY <1>4 DEF Byte
    <2>2. b[1] * Base + b[2] \in 0..(Base * Base - 1)
      BY <1>1, <2>1, Digit
    <2>3. (b[1] * Base + b[2]) * Base + b[3] \in 0..((Base * Base) * Base - 1)
      BY <1>1, <2>1, <2>2, Digit
    <2> QED BY <1>4, <2>3 DEF Number, Top
  <1> QED BY <1>1, <1>2, <1>3, <1>4

LEMMA NumberTop ==
  ASSUME Format(hp), Bps < 4
  PROVE  Number([j \in 1..Bps |-> Base - 1]) = Top - 1
  <1>1. Bps \in 1..3 /\ Base \in Nat /\ Base * Base \in Nat
    BY TopFacts, PowersOfBase
  <1>2. CASE Bps = 1
    BY <1>2 DEF Number, Top
  <1>3. (Base - 1) * Base + (Base - 1) = Base * Base - 1
    BY <1>1
  <1>4. CASE Bps = 2
    BY <1>3, <1>4 DEF Number, Top
  <1>5. (Base * Base - 1) * Base + (Base - 1) = Base * Base * Base - 1
    <2>1. PICK p \in Nat : p = Base * Base
      BY <1>1
    <2>2. (p - 1) * Base = p * Base - Base /\ p * Base \in Int
      BY <1>1
    <2>3. (p - 1) * Base + (Base - 1) = p * Base - 1
      BY <1>1, <2>2
    <2> QED BY <2>1, <2>3
  <1>6. CASE Bps = 3
    BY <1>3, <1>5, <1>6 DEF Number, Top
  <1> QED BY <1>1, <1>2, <1>4, <1>6

(* The low digit and the others.                                           *)
LEMMA DivDiv ==
  ASSUME NEW e \in Nat, NEW b \in Nat, b > 0, NEW q \in Nat, q = e \div b, NEW r \in Nat, r = e % b
  PROVE  /\ q \in Nat /\ r \in 0..(b - 1) /\ e = q * b + r
         /\ q \div b = e \div (b * b)
  <1>1. q \in Nat /\ r \in 0..(b - 1) /\ e = b * q + r
    BY DivMod, DivNat
  <1>2. PICK p \in Nat, s \in 0..(b - 1) : p = q \div b /\ q = b * p + s
    BY <1>1, DivMod, DivNat
  <1>3. b * b \in Nat /\ b * b > 0
    BY ProductPositive
  <1>4. b * s + r \in 0..(b * b - 1)
    <2>1. s * b <= (b - 1) * b /\ s * b \in Nat /\ b * s = s * b /\ (b - 1) * b = b * b - b
      BY TimesOrder
    <2> QED BY <1>1, <1>3, <2>1
  <1>5. e = (b * b) * p + (b * s + r)
    <2>1. b * q = b * (b * p) + b * s
      BY <1>2
    <2>2. b * (b * p) = (b * b) * p
      OBVIOUS
    <2>3. (b * b) * p \in Int /\ b * s \in Int /\ b * q \in Int
      BY <1>1, <1>3
    <2> QED BY <1>1, <2>1, <2>2, <2>3
  <1>6. e \div (b * b) = p
    BY <1>3, <1>4, <1>5, DivModUnique
  <1>7. b * q = q * b
    BY <1>1
  <1> QED BY <1>1, <1>2, <1>6, <1>7

LEMMA QuotientBound ==
  ASSUME NEW n \in Nat, NEW b \in Nat, b > 0, NEW e \in 0..(n * b - 1)
  PROVE  e \div b \in 0..(n - 1)
  <1>1. n * b \in Nat /\ e \in Nat
    OBVIOUS
  <1>2. PICK q \in Nat, r \in 0..(b - 1) : q = e \div b /\ e = b * q + r
    BY <1>1, DivMod, DivNat
  <1>3. ~ (n <= q)
    <2> SUFFICES ASSUME n <= q
                 PROVE  FALSE
      OBVIOUS
    <2>1. n * b <= q * b /\ q * b = b * q
      BY TimesOrder
    <2> QED BY <1>1, <1>2, <2>1
  <1> QED BY <1>2, <1>3

(* A number is the one of its digits.                                      *)
LEMMA NumberDigits ==
  ASSUME Format(hp), Bps < 4, NEW e \in 0..(Top - 1)
  PROVE  Number([j \in 1..Bps |-> Shifted(e, Bps - j) % Base]) = e
  <1> DEFINE d == [j \in 1..Bps |-> Shifted(e, Bps - j) % Base]
  <1>0. PICK b \in Nat : b = Base /\ b > 0
    BY PowersOfBase
  <1>1. Bps \in 1..3 /\ b * b \in Nat /\ Top \in Nat
    BY TopFacts
  <1>2. /\ Bps = 1 => Top = b
        /\ Bps = 2 => Top = b * b
        /\ Bps = 3 => Top = (b * b) * b
    BY <1>0 DEF Top
  <1>3. e \in Nat
    BY <1>1
  <1>4. PICK q \in Nat, r \in Nat : q = e \div b /\ r = e % b
    BY <1>0, <1>3, DivNat
  <1>5. q \in Nat /\ r \in 0..(b - 1) /\ e = q * b + r /\ q \div b = e \div (b * b)
    BY <1>0, <1>3, <1>4, DivDiv
  <1>6. PICK p \in Nat, s \in Nat : p = q \div b /\ s = q % b
    BY <1>0, DivNat
  <1>7. p \in Nat /\ s \in 0..(b - 1) /\ q = p * b + s /\ p = e \div (b * b)
    BY <1>0, <1>5, <1>6, DivDiv
  <1>8. Shifted(e, 0) = e /\ Shifted(e, 1) = q /\ Shifted(e, 2) = p
    BY <1>0, <1>4, <1>7 DEF Shifted
  <1>9. CASE Bps = 1
    <2>1. r = e
      BY <1>0, <1>1, <1>2, <1>4, <1>9, ModSmall
    <2>2. d[1] = r
      BY <1>0, <1>4, <1>8, <1>9
    <2> HIDE DEF d
    <2>3. Number(d) = e
      BY <1>9, <2>1, <2>2 DEF Number
    <2> QED BY <2>3 DEF d
  <1>10. CASE Bps = 2
    <2>1. q \in 0..(b - 1)
      BY <1>0, <1>1, <1>2, <1>4, <1>10, QuotientBound
    <2>2. s = q
      BY <1>6, <2>1, ModSmall
    <2>3. d[1] = s /\ d[2] = r
      BY <1>0, <1>4, <1>6, <1>8, <1>10
    <2> HIDE DEF d
    <2>4. Number(d) = q * b + r
      BY <1>0, <1>10, <2>2, <2>3 DEF Number
    <2>5. Number(d) = e
      BY <1>5, <2>4
    <2> QED BY <2>5 DEF d
  <1>11. CASE Bps = 3
    <2>1. q \in 0..(b * b - 1)
      BY <1>0, <1>1, <1>2, <1>4, <1>11, QuotientBound
    <2>2. p \in 0..(b - 1)
      BY <1>0, <1>1, <1>6, <2>1, QuotientBound
    <2>3. p % b = p
      BY <2>2, ModSmall
    <2>4. d[1] = p /\ d[2] = s /\ d[3] = r
      BY <1>0, <1>4, <1>6, <1>8, <1>11, <2>3
    <2> HIDE DEF d
    <2>5. Number(d) = (p * b + s) * b + r
      BY <1>0, <1>11, <2>4 DEF Number
    <2>6. Number(d) = e
      BY <1>5, <1>7, <2>5
    <2> QED BY <2>6 DEF d
  <1> QED BY <1>1, <1>9, <1>10, <1>11
-----------------------------------------------------------------------------
(* The values between two samples. *)

LEMMA Int32Exact ==
  ASSUME NEW x \in Int, 2 * x < WordSize, 2 * (-x) < WordSize
  PROVE  Int32(x) = x
  <1>1. PICK w \in Nat : w = WordSize /\ w > 0
    BY WordSizePositive
  <1>2. CASE x >= 0
    <2>1. x \in 0..(w - 1)
      BY <1>1, <1>2
    <2>2. x % w = x
      BY <2>1, ModSmall
    <2> QED BY <1>1, <1>2, <2>2 DEF Int32
  <1>3. CASE x < 0
    <2>1. x = w * (-1) + (w + x) /\ w + x \in 0..(w - 1)
      BY <1>1, <1>3
    <2>2. x % w = w + x
      BY <1>1, <2>1, DivModUnique
    <2>3. Int32(x) = (IF 2 * (w + x) >= w THEN (w + x) - w ELSE w + x)
      BY <1>1, <2>2 DEF Int32
    <2> QED BY <1>1, <1>3, <2>3
  <1> QED BY <1>2, <1>3

(* The part of the way that is done.                                       *)
Part(D, k, f) == (D * k) \div f

LEMMA PartFacts ==
  ASSUME NEW D \in Nat, NEW f \in Nat, f > 0, NEW k \in Nat, k <= f
  PROVE  /\ Part(D, k, f) \in 0..D
         /\ k > 0 => Part(D, k - 1, f) <= Part(D, k, f)
         /\ Part(D, 0, f) = 0
  <1>1. D * k \in Nat /\ D * f \in Nat /\ D * (k - 1) \in Int /\ D * 0 = 0
    OBVIOUS
  <1>2. k * D <= f * D /\ k * D = D * k /\ f * D = D * f
    BY TimesOrder
  <1>3. (D * f) \div f = D
    <2>1. D * f = f * D + 0 /\ 0 \in 0..(f - 1)
      OBVIOUS
    <2> QED BY <1>1, <2>1, DivModUnique
  <1>4. (D * k) \div f \in Nat /\ (D * k) \div f <= (D * f) \div f
    BY <1>1, <1>2, DivNat, DivMonotone
  <1>5. (k - 1) * D <= k * D /\ (k - 1) * D = D * (k - 1)
    BY TimesOrder
  <1>6. (D * (k - 1)) \div f <= (D * k) \div f
    BY <1>1, <1>2, <1>5, DivMonotone
  <1>7. 0 \div f = 0
    BY ModSmall
  <1> QED BY <1>1, <1>3, <1>4, <1>6, <1>7 DEF Part

(* calcu_frame computes the part of the difference, up or down.            *)
LEMMA BetweenValue ==
  ASSUME NEW t \in Nat, NEW f \in Nat, f > 0, 2 * (t * (f - 1)) < WordSize,
         NEW a \in 0..t, NEW D \in 0..t, NEW k \in Nat, k < f
  PROVE  /\ Between(a, a + D, k, f) = a + Part(D, k, f)
         /\ Between(a, a - D, k, f) = a - Part(D, k, f)
  <1>1. PICK w \in Nat : w = WordSize
    BY WordSizePositive
  <1>2. PICK g \in Nat : g = f - 1
    OBVIOUS
  <1>3. k <= g
    BY <1>2
  <1>4. D * k <= t * k
    BY TimesOrder
  <1>5. k * t <= g * t
    BY <1>3, TimesOrder
  <1>6. k * t = t * k /\ g * t = t * g
    OBVIOUS
  <1>7. PICK x \in Nat, y \in Nat, z \in Nat : x = D * k /\ y = t * k /\ z = t * g
    OBVIOUS
  <1>8. 2 * z < w
    BY <1>1, <1>2, <1>7
  <1>9. x <= y /\ y <= z
    BY <1>4, <1>5, <1>6, <1>7
  <1>10. 2 * x < w
    BY <1>8, <1>9
  <1>11. Int32(x) = x /\ Int32(-x) = -x
    BY <1>1, <1>10, Int32Exact
  <1>12. PICK q \in Nat : q = x \div f
    BY DivNat
  <1>13. Part(D, k, f) = q
    BY <1>7, <1>12 DEF Part
  <1>14. Quotient(x, f) = q
    BY <1>12 DEF Quotient
  <1>15. Quotient(-x, f) = -q
    <2>1. CASE x = 0
      <3>1. x \div f = 0
        BY <2>1, ModSmall
      <3> QED BY <1>12, <2>1, <3>1 DEF Quotient
    <2>2. CASE x > 0
      <3>1. -(-x) = x /\ -x < 0
        BY <2>2
      <3> QED BY <1>12, <3>1 DEF Quotient
    <2> QED BY <2>1, <2>2
  <1>16. Between(a, a + D, k, f) = a + Quotient(Int32(x), f)
    <2>1. (a + D) - a = D
      OBVIOUS
    <2> QED BY <1>7, <2>1 DEF Between
  <1>17. Between(a, a - D, k, f) = a + Quotient(Int32(-x), f)
    <2>1. (a - D) - a = -D /\ (-D) * k = -(D * k)
      OBVIOUS
    <2> QED BY <1>7, <2>1 DEF Between
  <1> QED BY <1>11, <1>13, <1>14, <1>15, <1>16, <1>17

(* ... which does not turn back.                                           *)
LEMMA BetweenOrdered ==
  ASSUME NEW t \in Nat, NEW f \in Nat, f > 0, 2 * (t * (f - 1)) < WordSize,
         NEW a \in 0..t, NEW b \in 0..t, NEW k \in Nat, k < f
  PROVE  /\ Between(a, b, k, f) \in 0..t
         /\ k > 0 => Ordered(Between(a, b, k - 1, f), Between(a, b, k, f), b)
         /\ Between(a, b, 0, f) = a
  <1>1. \A D \in 0..t, i \in Nat : i < f => /\ Between(a, a + D, i, f) = a + Part(D, i, f)
                                           /\ Between(a, a - D, i, f) = a - Part(D, i, f)
    BY BetweenValue
  <1>2. \A D \in 0..t : /\ Part(D, k, f) \in 0..D /\ Part(D, 0, f) = 0
                        /\ k > 0 => Part(D, k - 1, f) \in Int /\ Part(D, k - 1, f) <= Part(D, k, f)
    <2> SUFFICES ASSUME NEW D \in 0..t
                 PROVE  /\ Part(D, k, f) \in 0..D /\ Part(D, 0, f) = 0
                        /\ k > 0 => Part(D, k - 1, f) \in Int /\ Part(D, k - 1, f) <= Part(D, k, f)
      OBVIOUS
    <2>1. /\ Part(D, k, f) \in 0..D /\ Part(D, 0, f) = 0
          /\ k > 0 => Part(D, k - 1, f) <= Part(D, k, f)
      BY PartFacts
    <2>2. ASSUME k > 0
          PROVE  Part(D, k - 1, f) \in Int
      <3>1. PICK i \in Nat : i = k - 1
        BY <2>2
      <3>2. i <= f
        BY <3>1
      <3>3. Part(D, i, f) \in 0..D
        BY <3>2, PartFacts
      <3> QED BY <3>1, <3>3
    <2> QED BY <2>1, <2>2
  <1>3. k > 0 => k - 1 \in Nat /\ k - 1 < f
    OBVIOUS
  <1>4. 0 \in Nat /\ 0 < f
    OBVIOUS
  <1>5. CASE b >= a
    <2>1. PICK D \in 0..t : b = a + D
      <3>1. b - a \in 0..t /\ b = a + (b - a)
        BY <1>5
      <3> QED BY <3>1
    <2>2. PICK q \in 0..D : q = Part(D, k, f)
      BY <1>2
    <2>3. Between(a, b, k, f) = a + q
      BY <1>1, <2>1, <2>2
    <2>4. Between(a, b, 0, f) = a
      <3>1. Between(a, a + D, 0, f) = a + Part(D, 0, f)
        BY <1>1, <1>4
      <3>2. Part(D, 0, f) = 0
        BY <1>2
      <3> QED BY <2>1, <3>1, <3>2
    <2>5. ASSUME k > 0
          PROVE  Ordered(Between(a, b, k - 1, f), Between(a, b, k, f), b)
      <3>1. PICK p \in Int : p = Part(D, k - 1, f) /\ p <= q
        BY <1>2, <2>2, <2>5
      <3>2. Between(a, b, k - 1, f) = a + p
        BY <1>1, <1>3, <2>1, <2>5, <3>1
      <3>3. a + p <= a + q /\ a + q <= b
        BY <2>1, <3>1
      <3> QED BY <2>3, <3>2, <3>3 DEF Ordered
    <2>6. a + q \in 0..t
      BY <2>1
    <2> QED BY <2>3, <2>4, <2>5, <2>6
  <1>6. CASE b < a
    <2>1. PICK D \in 0..t : b = a - D
      <3>1. a - b \in 0..t /\ b = a - (a - b)
        BY <1>6
      <3> QED BY <3>1
    <2>2. PICK q \in 0..D : q = Part(D, k, f)
      BY <1>2
    <2>3. Between(a, b, k, f) = a - q
      BY <1>1, <2>1, <2>2
    <2>4. Between(a, b, 0, f) = a
      <3>1. Between(a, a - D, 0, f) = a - Part(D, 0, f)
        BY <1>1, <1>4
      <3>2. Part(D, 0, f) = 0
        BY <1>2
      <3> QED BY <2>1, <3>1, <3>2
    <2>5. ASSUME k > 0
          PROVE  Ordered(Between(a, b, k - 1, f), Between(a, b, k, f), b)
      <3>1. PICK p \in Int : p = Part(D, k - 1, f) /\ p <= q
        BY <1>2, <2>2, <2>5
      <3>2. Between(a, b, k - 1, f) = a - p
        BY <1>1, <1>3, <2>1, <2>5, <3>1
      <3>3. a - q <= a - p /\ b <= a - q
        BY <2>1, <3>1
      <3> QED BY <2>3, <3>2, <3>3 DEF Ordered
    <2>6. a - q \in 0..t
      BY <2>1
    <2> QED BY <2>3, <2>4, <2>5, <2>6
  <1> QED BY <1>5, <1>6
-----------------------------------------------------------------------------
(* -d. *)

LEMMA SampleFacts ==
  ASSUME Format(hp), Bps < 4, NEW f \in Frame, NEW c \in Channels
  PROVE  /\ [j \in 1..Bps |-> f[c * Bps + j]] \in [1..Bps -> Byte]
         /\ Sample(f, c) \in 0..(Top - 1)
  <1>1. \A j \in 1..Bps : c * Bps + j \in 1..FrameInts
    BY ChannelIndex
  <1>2. \A j \in 1..Bps : f[c * Bps + j] \in Byte
    BY <1>1 DEF Frame
  <1>3. [j \in 1..Bps |-> f[c * Bps + j]] \in [1..Bps -> Byte]
    BY <1>2
  <1> QED BY <1>3, NumberBound DEF Sample

(* The value of a channel in an array that holds a frame is its sample.    *)
LEMMA HeldSample ==
  ASSUME Format(hp), Bps < 4, NEW f \in Frame, NEW c \in Channels, NEW m, NEW at \in Address, Holds(m, at, f)
  PROVE  Value(Channel(m, at, c)) = Sample(f, c)
  <1>1. \A j \in 1..Bps : m[at + c * Bps + j - 1] = f[c * Bps + j]
    <2> SUFFICES ASSUME NEW j \in 1..Bps
                 PROVE  m[at + c * Bps + j - 1] = f[c * Bps + j]
      OBVIOUS
    <2>1. PICK i \in 1..FrameInts : i = c * Bps + j
      BY ChannelIndex
    <2>2. m[at + i - 1] = f[i]
      BY DEF Holds
    <2>3. at \in Int /\ c * Bps \in Int
      BY AddressFacts, ChannelIndex
    <2>4. at + c * Bps + j - 1 = at + i - 1
      BY <2>1, <2>3
    <2> QED BY <2>1, <2>2, <2>4
  <1>2. Channel(m, at, c) = [j \in 1..Bps |-> f[c * Bps + j]]
    BY <1>1 DEF Channel
  <1>3. Number(Channel(m, at, c)) = Sample(f, c)
    BY <1>2 DEF Sample
  <1>4. PICK x \in Nat : x = Sample(f, c) /\ x \in 0..(Top - 1)
    BY SampleFacts, TopFacts
  <1>5. 2 * x < WordSize /\ 2 * (-x) < WordSize
    <2>1. PICK t \in Nat, w \in Nat : t = Top /\ w = WordSize /\ 2 * (t - 1) < w
      BY TopFacts, WordSizePositive
    <2> QED BY <1>4, <2>1
  <1>6. Int32(x) = x
    BY <1>5, Int32Exact
  <1> QED BY <1>3, <1>4, <1>6 DEF Value

LEMMA SignedByteMod ==
  ASSUME NEW d \in 0..(Base - 1)
  PROVE  SignedByte(d) % Base = d
  <1>1. PICK b \in Nat : b = Base /\ b > 0
    BY PowersOfBase
  <1>2. d % b = d
    BY <1>1, ModSmall
  <1>3. (d - b) % b = d
    <2>1. d - b = b * (-1) + d /\ d - b \in Int
      BY <1>1
    <2> QED BY <1>1, <2>1, DivModUnique
  <1> QED BY <1>1, <1>2, <1>3 DEF SignedByte

(* The products of calcu_frame, for any two samples.                       *)
LEMMA NoOverflowFacts ==
  ASSUME Format(hp), Bps < 4, NoOverflow
  PROVE  2 * ((Top - 1) * (options.factor - 1)) < WordSize
  BY NumberTop DEF NoOverflow

(* The frame that calcu_frame puts between g and h.                        *)
LEMMA InsertedFrame ==
  ASSUME Format(hp), Bps < 4, FramesApart, NoOverflow, options.factor \in 1..1024,
         layout.previous \in Address, layout.input \in Address, layout.output \in Address,
         NEW m \in [Memory -> Cell], NEW k \in Nat, k < options.factor, NEW g \in Frame, NEW h \in Frame,
         Holds(m, layout.previous, g), Holds(m, layout.input, h)
  PROVE  /\ \A c \in Channels : Sample(Fetch(Interpolate(m, k), layout.output), c)
                                  = Between(Sample(g, c), Sample(h, c), k, options.factor)
         /\ Holds(Interpolate(m, k), layout.previous, g) /\ Holds(Interpolate(m, k), layout.input, h)
  <1> DEFINE r == Interpolate(m, k)
             F == Fetch(r, layout.output)
  <1>1. /\ r \in [Memory -> Cell]
        /\ \A a \in Memory : a < layout.output \/ a >= layout.output + FrameInts => r[a] = m[a]
        /\ \A c \in Channels, j \in 1..Bps : r[layout.output + c * Bps + j - 1]
             = SignedByte(Shifted(Interpolated(m, k, c), Bps - j) % Base)
    BY InterpolateFacts
  <1> HIDE DEF r
  <1>2. r \in [Memory -> Int]
    BY <1>1, CellsAreInts
  <1>3. F \in Frame /\ \A i \in 1..FrameInts : F[i] = r[layout.output + i - 1] % Base
    BY <1>2, FetchFacts, Zenon
  <1> HIDE DEF F
  <1>4. PICK at \in 0..23, f \in 1..1024, n \in 1..8 : at = layout.output /\ f = options.factor /\ n = FrameInts
    <2>1. layout.output \in 0..23
      BY DEF Address
    <2>2. FrameInts \in 1..8
      BY FormatFacts
    <2>3. PICK f \in 1..1024 : f = options.factor
      BY FactorFacts
    <2> QED BY <2>1, <2>2, <2>3, ZenonT(60)
  <1>5. ASSUME NEW c \in Channels
        PROVE  Sample(F, c) = Between(Sample(g, c), Sample(h, c), k, options.factor)
    <2> DEFINE e == Interpolated(m, k, c)
    <2>1. e = Between(Sample(g, c), Sample(h, c), k, f)
      BY <1>4, HeldSample DEF Interpolated
    <2>2. PICK t \in Nat : t = Top - 1
      BY TopFacts
    <2>3. Sample(g, c) \in 0..t /\ Sample(h, c) \in 0..t
      BY <2>2, SampleFacts
    <2>4. 2 * (t * (f - 1)) < WordSize
      BY <1>4, <2>2, NoOverflowFacts
    <2>5. f \in Nat /\ f > 0 /\ k < f
      BY <1>4
    <2>6. Between(Sample(g, c), Sample(h, c), k, f) \in 0..t
      BY <2>3, <2>4, <2>5, BetweenOrdered, ZenonT(60)
    <2>7. e \in 0..(Top - 1)
      BY <2>1, <2>2, <2>6
    <2> HIDE DEF e
    <2>8. \A j \in 1..Bps : F[c * Bps + j] = Shifted(e, Bps - j) % Base
      <3> SUFFICES ASSUME NEW j \in 1..Bps
                   PROVE  F[c * Bps + j] = Shifted(e, Bps - j) % Base
        OBVIOUS
      <3>1. PICK i \in 1..FrameInts : i = c * Bps + j
        BY ChannelIndex
      <3>2. c * Bps \in Int
        BY ChannelIndex
      <3>3. layout.output + c * Bps + j - 1 = layout.output + i - 1
        BY <1>4, <3>1, <3>2
      <3>4. PICK d \in 0..(Base - 1) : d = Shifted(e, Bps - j) % Base
        <4>1. Bps \in 1..3 /\ e \in Int
          BY <2>2, <2>7, TopFacts
        <4>2. Bps - j \in 0..3
          BY <4>1
        <4>3. Shifted(e, Bps - j) \in Int
          BY <4>1, <4>2, ShiftedType
        <4> QED BY <4>3, PowersOfBase, DivMod
      <3>5. r[layout.output + i - 1] = SignedByte(d)
        BY <1>1, <3>3, <3>4 DEF e
      <3>6. SignedByte(d) % Base = d
        BY SignedByteMod
      <3> QED BY <1>3, <3>1, <3>4, <3>5, <3>6
    <2>9. [j \in 1..Bps |-> F[c * Bps + j]] = [j \in 1..Bps |-> Shifted(e, Bps - j) % Base]
      BY <2>8
    <2>10. Sample(F, c) = e
      BY <2>7, <2>9, NumberDigits, ZenonT(60) DEF Sample
    <2> QED BY <1>4, <2>1, <2>10
  <1>6. ASSUME NEW p \in Address, Apart(p, layout.output) \/ Apart(layout.output, p), NEW q, Holds(m, p, q)
        PROVE  Holds(r, p, q)
    <2> SUFFICES ASSUME NEW j \in 1..FrameInts
                 PROVE  r[p + j - 1] = m[p + j - 1]
      BY <1>6 DEF Holds
    <2>1. p \in 0..23 /\ (p + n <= at \/ at + n <= p)
      BY <1>4, <1>6 DEF Apart, Address
    <2>2. p + j - 1 \in Memory /\ (p + j - 1 < at \/ p + j - 1 >= at + n)
      BY <1>4, <2>1 DEF Memory
    <2> QED BY <1>1, <1>4, <2>2
  <1>7. Holds(r, layout.previous, g) /\ Holds(r, layout.input, h)
    BY <1>6 DEF FramesApart
  <1> QED BY <1>5, <1>7 DEF F, r
(* What -d has written depends on the format and the options, which do not *)
(* change while frames are read.                                           *)
LEMMA SlowSame ==
  ASSUME UNCHANGED <<options, hp, layout>>
  PROVE  /\ (FramesApart <=> FramesApart') /\ (NoOverflow <=> NoOverflow') /\ Bps' = Bps
         /\ \A w, s, m, n : Placed(w, s, m, n)' <=> Placed(w, s, m, n)
         /\ \A w, s, m, n, k : Underway(w, s, m, n, k)' <=> Underway(w, s, m, n, k)
  <1>1. Bps' = Bps /\ FrameInts' = FrameInts /\ Channels' = Channels
    BY SameFormat DEF Channels
  <1>2. \A i : At(i)' = At(i)
    BY DEF At
  <1>3. \A b : Number(b)' = Number(b)
    BY <1>1 DEF Number
  <1>4. \A f, c : Sample(f, c)' = Sample(f, c)
    BY <1>1, <1>3 DEF Sample
  <1>5. \A g, h, f : Passes(g, h, f)' <=> Passes(g, h, f)
    BY <1>1, <1>4 DEF Passes
  <1>6. \A m, at, f : Holds(m, at, f)' <=> Holds(m, at, f)
    BY <1>1 DEF Holds
  <1>7. FramesApart <=> FramesApart'
    BY <1>1 DEF FramesApart, Apart
  <1>8. NoOverflow <=> NoOverflow'
    BY <1>1, <1>3 DEF NoOverflow
  <1>9. \A w, s, m, n : Placed(w, s, m, n)' <=> Placed(w, s, m, n)
    BY <1>2, <1>5, <1>6 DEF Placed
  <1>10. \A w, s, m, n, k : Underway(w, s, m, n, k)' <=> Underway(w, s, m, n, k)
    BY <1>1, <1>2, <1>4, <1>5, <1>6 DEF Underway
  <1> QED BY <1>1, <1>7, <1>8, <1>9, <1>10

(* Places of frames that were read are behind one another.                 *)
LEMMA AtOrder ==
  ASSUME options.factor \in 1..1024, NEW i \in Int, NEW n \in Int, i <= n
  PROVE  At(i) \in Int /\ At(n) \in Int /\ At(i) <= At(n) /\ (i >= 1 => At(i) >= 1)
  <1>1. PICK f \in Nat : f = options.factor
    OBVIOUS
  <1>2. (i - 1) * f <= (n - 1) * f /\ (i - 1) * f \in Int /\ (n - 1) * f \in Int
    <2>1. i - 1 <= n - 1 /\ i - 1 \in Int /\ n - 1 \in Int
      OBVIOUS
    <2> HIDE DEF At
    <2> QED BY <2>1, TimesOrder
  <1>3. i >= 1 => (i - 1) * f >= 0
    <2> SUFFICES ASSUME i >= 1
                 PROVE  (i - 1) * f >= 0
      OBVIOUS
    <2>1. PICK d \in Nat : d = i - 1
      OBVIOUS
    <2> QED BY <2>1
  <1>4. PICK x \in Int, y \in Int : x = (i - 1) * f /\ y = (n - 1) * f
    BY <1>2
  <1>5. At(i) = 1 + x /\ At(n) = 1 + y
    BY <1>1, <1>4 DEF At
  <1>6. x <= y /\ (i >= 1 => x >= 0)
    BY <1>2, <1>3, <1>4
  <1> QED BY <1>4, <1>5, <1>6

(* What was placed stays when a frame is written behind it.                *)
LEMMA PlacedStays ==
  ASSUME options.factor \in 1..1024, NEW n \in Nat, n >= 1,
         NEW w, NEW s, NEW m, Placed(w, s, m, n), NEW v, NEW t, NEW p,
         \A i \in 1..At(n) : v[i] = w[i], \A i \in 1..n : t[i] = s[i], Holds(p, layout.previous, t[n])
  PROVE  Placed(v, t, p, n)
  <1>1. \A i \in 1..n : v[At(i)] = t[i]
    <2> SUFFICES ASSUME NEW i \in 1..n
                 PROVE  v[At(i)] = t[i]
      OBVIOUS
    <2>1. At(i) \in 1..At(n)
      BY AtOrder
    <2> QED BY <2>1 DEF Placed
  <1>2. ASSUME NEW i \in 2..n, NEW x \in At(i - 1)..(At(i) - 1)
        PROVE  Passes(v[x], v[x + 1], t[i])
    <2>1. At(i) \in Int /\ At(n) \in Int /\ At(i) <= At(n)
      BY AtOrder
    <2>2. At(i - 1) \in Int /\ At(i - 1) >= 1
      <3>1. i - 1 \in Int /\ i - 1 <= n /\ i - 1 >= 1
        OBVIOUS
      <3> QED BY <3>1, AtOrder
    <2>3. x \in 1..At(n) /\ x + 1 \in 1..At(n) /\ i \in 1..n
      BY <2>1, <2>2
    <2>4. v[x] = w[x] /\ v[x + 1] = w[x + 1] /\ t[i] = s[i]
      BY <2>3
    <2> QED BY <2>4 DEF Placed
  <1> QED BY <1>1, <1>2 DEF Placed

LEMMA FirstFrameSlow ==
  ASSUME IInv, NEW frame \in NextFrames, FirstFrame(frame)
  PROVE  SlowInv'
  <1>1. phase = "first" /\ Get(frame) /\ phase' = "frames" /\ UNCHANGED <<options, hp, layout>>
    BY DEF FirstFrame, Get
  <1>2. /\ Format(hp) /\ options.mode = "d" /\ options.factor \in 1..1024 /\ source \in Seq(Frame)
        /\ layout.previous \in Address /\ counter = 0
    BY <1>1, WorkingFacts DEF IInv, ControlInv, ReadInv
  <1>3. round = 1
    BY <1>1, <1>2, RoundFacts
  <1>4. /\ frame \in Frame /\ counter' = 1 /\ counter' = Len(source') /\ source' = Append(source, frame)
    BY <1>1, <1>2, <1>3, GetFacts
  <1>5. written'.frames[1] = frame /\ mem' = Store(mem, layout.previous, frame)
    BY FirstFrameKeeps
  <1>6. source'[1] = frame
    <2>1. Len(source) = 0
      BY <1>2, <1>3 DEF IInv, ReadInv
    <2> QED BY <1>2, <1>4, <2>1
  <1>7. mem \in [Memory -> Cell]
    BY DEF IInv, TypeInv
  <1>8. Holds(mem', layout.previous, frame)
    BY <1>2, <1>4, <1>5, <1>7, StoredFrame DEF Holds
  <1>9. At(1) = 1
    BY <1>2, AtFacts
  <1>10. Placed(written'.frames, source', mem', 1)
    BY <1>5, <1>6, <1>8, <1>9 DEF Placed
  <1> QED BY <1>1, <1>4, <1>10, SlowSame DEF SlowInv

LEMMA SlowDownSlow ==
  ASSUME IInv, CountInv, SlowInv, NEW frame \in NextFrames, SlowDown(frame)
  PROVE  SlowInv'
  <1>1. /\ phase = "frames" /\ options.mode = "d" /\ Get(frame) /\ mem' = Store(mem, layout.input, frame)
        /\ turn' = 1 /\ phase' = "between" /\ UNCHANGED <<options, hp, layout, written>>
    BY DEF SlowDown, Get
  <1> SUFFICES ASSUME Bps < 4, FramesApart, NoOverflow
               PROVE  /\ Placed(written.frames, source', mem', counter)
                      /\ Underway(written.frames, source', mem', counter, 1)
    <2>1. counter' - 1 = counter
      BY <1>1 DEF Get, IInv, TypeInv
    <2> QED BY <1>1, <2>1, SlowSame DEF SlowInv
  <1>2. /\ Format(hp) /\ options.factor \in 1..1024 /\ source \in Seq(Frame)
        /\ layout.previous \in Address /\ layout.input \in Address
    BY <1>1, WorkingFacts
  <1>3. round = 1
    BY <1>1, RoundFacts
  <1>4. /\ frame \in Frame /\ counter' = counter + 1 /\ source' = Append(source, frame)
        /\ counter = Len(source) /\ source' \in Seq(Frame)
    BY <1>1, <1>3, GetFacts DEF IInv, ReadInv
  <1>5. PICK n \in Nat : n = counter /\ n >= 1
    BY <1>1 DEF IInv, TypeInv, CountInv
  <1>6. (\A i \in 1..n : source'[i] = source[i]) /\ source'[n + 1] = frame
    BY <1>2, <1>4, <1>5
  <1>7. mem \in [Memory -> Cell] /\ Placed(written.frames, source, mem, n)
    BY <1>1, <1>5 DEF IInv, TypeInv, SlowInv
  <1>8. /\ \A a \in Memory : a < layout.input \/ a >= layout.input + FrameInts => mem'[a] = mem[a]
        /\ Holds(mem', layout.input, frame)
    BY <1>1, <1>2, <1>4, <1>7, StoredFrame DEF Holds
  <1>9. Holds(mem', layout.previous, source'[n])
    <2>1. Holds(mem, layout.previous, source[n]) /\ source'[n] = source[n]
      BY <1>5, <1>6, <1>7 DEF Placed
    <2>2. PICK p \in 0..23, q \in 0..23, l \in 1..8 : p = layout.previous /\ q = layout.input /\ l = FrameInts
      BY <1>2, FormatFacts DEF Address
    <2>3. p + l <= q \/ q + l <= p
      BY <2>2 DEF FramesApart, Apart
    <2>4. ASSUME NEW j \in 1..FrameInts
          PROVE  mem'[layout.previous + j - 1] = mem[layout.previous + j - 1]
      <3>1. p + j - 1 \in Memory /\ (p + j - 1 < q \/ p + j - 1 >= q + l)
        BY <2>2, <2>3 DEF Memory
      <3> QED BY <1>8, <2>2, <3>1
    <2> QED BY <2>1, <2>4 DEF Holds
  <1>10. Placed(written.frames, source', mem', n)
    BY <1>2, <1>5, <1>6, <1>7, <1>9, PlacedStays
  <1>11. At(n) \in Int /\ At(n) + 1 - 1 = At(n) /\ At(n) + 1 - 2 = At(n) - 1
    <2>1. At(n) \in Int
      BY <1>2, AtFacts
    <2> QED BY <2>1
  <1>12. written.frames[At(n)] = source'[n] /\ source'[n] \in Frame
    <2>1. written.frames[At(n)] = source[n] /\ source'[n] = source[n]
      BY <1>5, <1>6, <1>7 DEF Placed
    <2>2. source[n] \in Frame
      BY <1>2, <1>4, <1>5
    <2> QED BY <2>1, <2>2
  <1>13. ASSUME NEW c \in Channels
         PROVE  Sample(written.frames[At(n) + 1 - 1], c)
                  = Between(Sample(source'[n], c), Sample(source'[n + 1], c), 1 - 1, options.factor)
    <2>1. PICK t \in Nat : t = Top - 1
      BY <1>2, TopFacts
    <2>2. Sample(source'[n], c) \in 0..t /\ Sample(frame, c) \in 0..t
      BY <1>2, <1>4, <1>12, <2>1, SampleFacts
    <2>3. 2 * (t * (options.factor - 1)) < WordSize
      BY <1>2, <2>1, NoOverflowFacts
    <2>4. options.factor \in Nat /\ options.factor > 0
      BY <1>2, FactorFacts
    <2>5. Between(Sample(source'[n], c), Sample(frame, c), 0, options.factor) = Sample(source'[n], c)
      BY <2>2, <2>3, <2>4, BetweenOrdered
    <2>6. 1 - 1 = 0
      OBVIOUS
    <2> QED BY <1>6, <1>11, <1>12, <2>5, <2>6
  <1>14. Underway(written.frames, source', mem', n, 1)
    <2>1. \A x \in At(n)..(At(n) + 1 - 2) : FALSE
      BY <1>11
    <2> QED BY <1>6, <1>8, <1>13, <2>1 DEF Underway
  <1> QED BY <1>5, <1>10, <1>14

LEMMA InsertFrameSlow ==
  ASSUME IInv, CountInv, SlowInv, InsertFrame
  PROVE  SlowInv'
  <1>1. /\ phase = "between" /\ turn < options.factor /\ mem' = Interpolate(mem, turn) /\ turn' = turn + 1
        /\ phase' = "between" /\ UNCHANGED <<options, hp, layout, counter, source, round>>
    BY DEF InsertFrame
  <1>2. /\ Format(hp) /\ options.factor \in 1..1024 /\ source \in Seq(Frame) /\ options.mode = "d"
        /\ layout.previous \in Address /\ layout.input \in Address /\ layout.output \in Address
    BY <1>1, WorkingFacts DEF IInv, ControlInv
  <1> SUFFICES ASSUME Bps < 4, FramesApart, NoOverflow
               PROVE  /\ Placed(written'.frames, source, mem', counter - 1)
                      /\ Underway(written'.frames, source, mem', counter - 1, turn + 1)
    BY <1>1, <1>2, SlowSame DEF SlowInv
  <1>3. round = 1 /\ counter = Len(source)
    BY <1>1, <1>2, RoundFacts DEF IInv, ReadInv
  <1>4. PICK n \in Nat : n = counter - 1 /\ n >= 1 /\ n + 1 = counter
    BY <1>1 DEF IInv, TypeInv, CountInv
  <1>5. PICK k \in Nat : k = turn /\ k >= 1
    BY <1>1 DEF IInv, TypeInv, ControlInv
  <1>6. At(n) \in Int /\ At(n) >= 1
    BY <1>2, <1>4, AtOrder
  <1>7. PICK W \in Nat : W = Len(written.frames) /\ W = At(n) + (k - 1)
    BY <1>1, <1>4, <1>5, <1>6 DEF CountInv
  <1> DEFINE w == written.frames
             v == written'.frames
             f == options.factor
             F == Fetch(mem', layout.output)
  <1>8. (\A i \in 1..W : v[i] = w[i]) /\ v[W + 1] = F
    BY <1>7, InsertFrameKeeps
  <1>9. mem \in [Memory -> Cell] /\ Placed(w, source, mem, n) /\ Underway(w, source, mem, n, k)
    BY <1>1, <1>2, <1>4, <1>5 DEF IInv, TypeInv, SlowInv
  <1>10. source[n] \in Frame /\ source[n + 1] \in Frame
    BY <1>2, <1>3, <1>4
  <1>11. Holds(mem, layout.previous, source[n]) /\ Holds(mem, layout.input, source[n + 1])
    BY <1>9 DEF Placed, Underway
  <1>12. /\ \A c \in Channels : Sample(F, c) = Between(Sample(source[n], c), Sample(source[n + 1], c), k, f)
         /\ Holds(mem', layout.previous, source[n]) /\ Holds(mem', layout.input, source[n + 1])
    BY <1>1, <1>2, <1>5, <1>9, <1>10, <1>11, InsertedFrame
  <1> HIDE DEF w, v, F
  <1>13. Placed(v, source, mem', n)
    <2>1. \A i \in 1..At(n) : v[i] = w[i]
      BY <1>5, <1>6, <1>7, <1>8
    <2> QED BY <1>2, <1>4, <1>9, <1>12, <2>1, PlacedStays
  <1>14. At(n) + (k + 1) - 1 = W + 1 /\ At(n) + k - 1 = W /\ At(n) + (k + 1) - 2 = W
         /\ At(n) + k - 2 = W - 1
    BY <1>6, <1>7
  <1>15. \A c \in Channels : Sample(v[At(n) + (k + 1) - 1], c)
           = Between(Sample(source[n], c), Sample(source[n + 1], c), (k + 1) - 1, f)
    <2>1. (k + 1) - 1 = k
      OBVIOUS
    <2> QED BY <1>8, <1>12, <1>14, <2>1
  <1>16. ASSUME NEW x \in At(n)..(At(n) + (k + 1) - 2)
         PROVE  Passes(v[x], v[x + 1], source[n + 1])
    <2>1. CASE x < W
      <3>1. x \in At(n)..(At(n) + k - 2) /\ x \in 1..W /\ x + 1 \in 1..W
        BY <1>6, <1>14, <2>1
      <3>2. v[x] = w[x] /\ v[x + 1] = w[x + 1]
        BY <1>8, <3>1
      <3> QED BY <1>9, <3>1, <3>2 DEF Underway
    <2>2. CASE x >= W
      <3>1. x = W /\ W \in 1..W
        BY <1>5, <1>6, <1>7, <1>14, <2>2
      <3>2. v[x] = w[W] /\ v[x + 1] = F
        BY <1>8, <3>1
      <3>3. ASSUME NEW c \in Channels
            PROVE  Ordered(Sample(w[W], c), Sample(F, c), Sample(source[n + 1], c))
        <4>1. PICK t \in Nat : t = Top - 1
          BY <1>2, TopFacts
        <4>2. Sample(source[n], c) \in 0..t /\ Sample(source[n + 1], c) \in 0..t
          BY <1>2, <1>10, <4>1, SampleFacts
        <4>3. 2 * (t * (f - 1)) < WordSize
          BY <1>2, <4>1, NoOverflowFacts
        <4>4. f \in Nat /\ f > 0 /\ k < f /\ k > 0
          <5> PICK g \in 1..1024 : g = options.factor
            BY <1>2, FactorFacts
          <5> QED BY <1>1, <1>5
        <4>5. Ordered(Between(Sample(source[n], c), Sample(source[n + 1], c), k - 1, f),
                      Between(Sample(source[n], c), Sample(source[n + 1], c), k, f), Sample(source[n + 1], c))
          <5> HIDE DEF f
          <5> QED BY <4>2, <4>3, <4>4, BetweenOrdered
        <4>6. Sample(w[W], c) = Between(Sample(source[n], c), Sample(source[n + 1], c), k - 1, f)
          BY <1>9, <1>14 DEF Underway
        <4> QED BY <1>12, <4>5, <4>6
      <3> QED BY <3>2, <3>3 DEF Passes
    <2> QED BY <1>6, <1>14, <2>1, <2>2
  <1>17. Underway(v, source, mem', n, k + 1)
    BY <1>12, <1>15, <1>16 DEF Underway
  <1> QED BY <1>4, <1>5, <1>13, <1>17 DEF v

LEMMA KeepFrameSlow ==
  ASSUME IInv, CountInv, SlowInv, KeepFrame
  PROVE  SlowInv'
  <1>1. /\ phase = "between" /\ turn >= options.factor /\ mem' = CopyFrame(mem, layout.previous, layout.input)
        /\ phase' = "frames" /\ UNCHANGED <<options, hp, layout, counter, source, round>>
    BY DEF KeepFrame
  <1>2. /\ Format(hp) /\ options.factor \in 1..1024 /\ source \in Seq(Frame) /\ options.mode = "d"
        /\ layout.previous \in Address /\ layout.input \in Address
    BY <1>1, WorkingFacts DEF IInv, ControlInv
  <1> SUFFICES ASSUME Bps < 4, FramesApart, NoOverflow
               PROVE  Placed(written'.frames, source, mem', counter)
    BY <1>1, <1>2, SlowSame DEF SlowInv
  <1>3. round = 1 /\ counter = Len(source)
    BY <1>1, <1>2, RoundFacts DEF IInv, ReadInv
  <1>4. PICK n \in Nat : n = counter - 1 /\ n >= 1 /\ n + 1 = counter
    BY <1>1 DEF IInv, TypeInv, CountInv
  <1>5. PICK k \in Nat : k = turn /\ k >= 1 /\ k = options.factor
    <2>1. turn \in 1..options.factor
      BY <1>1 DEF IInv, ControlInv
    <2>2. PICK g \in 1..1024 : g = options.factor
      BY <1>2, FactorFacts
    <2> QED BY <1>1, <2>1, <2>2
  <1>6. At(n) \in Int /\ At(n) >= 1 /\ At(n + 1) = At(n) + k
    <2>1. n \in Int /\ n >= 1
      BY <1>4
    <2>2. At(n) \in Int /\ At(n) >= 1
      BY <1>2, <2>1, AtOrder
    <2>3. At(n + 1) = At(n) + options.factor
      BY <1>2, <2>1, AtFacts
    <2> QED BY <1>5, <2>2, <2>3
  <1>7. PICK W \in Nat : W = Len(written.frames) /\ W = At(n) + (k - 1)
    <2>1. Len(written.frames) = At(counter - 1) + (turn - 1)
      BY <1>1 DEF CountInv
    <2>2. Len(written.frames) = At(n) + (k - 1)
      BY <1>4, <1>5, <2>1
    <2>3. At(n) + (k - 1) \in Nat
      BY <1>5, <1>6
    <2> QED BY <2>2, <2>3
  <1> DEFINE w == written.frames
             v == written'.frames
             F == Fetch(mem, layout.input)
  <1>8. (\A i \in 1..W : v[i] = w[i]) /\ v[W + 1] = F
    BY <1>7, KeepFrameKeeps
  <1>9. mem \in [Memory -> Cell] /\ Placed(w, source, mem, n) /\ Underway(w, source, mem, n, k)
    BY <1>1, <1>2, <1>4, <1>5 DEF IInv, TypeInv, SlowInv
  <1>10. source[n] \in Frame /\ source[n + 1] \in Frame
    BY <1>2, <1>3, <1>4
  <1>11. Holds(mem, layout.input, source[n + 1])
    BY <1>9 DEF Underway
  <1>12. F = source[n + 1]
    <2>1. mem \in [Memory -> Int]
      BY <1>9, CellFacts
    <2>2. F \in Frame /\ \A j \in 1..FrameInts : F[j] = mem[layout.input + j - 1] % Base
      BY <1>2, <2>1, FetchFacts
    <2>3. PICK g \in Frame : g = source[n + 1]
      BY <1>10
    <2>4. \A j \in 1..FrameInts : F[j] = g[j]
      <3> SUFFICES ASSUME NEW j \in 1..FrameInts
                   PROVE  F[j] = g[j]
        OBVIOUS
      <3>1. g[j] \in 0..(Base - 1)
        BY DEF Frame, Byte
      <3>2. g[j] % Base = g[j]
        BY <3>1, PowersOfBase, ModSmall
      <3>3. mem[layout.input + j - 1] = g[j]
        BY <1>11, <2>3 DEF Holds
      <3> QED BY <2>2, <3>2, <3>3
    <2>5. F = [j \in 1..FrameInts |-> F[j]] /\ g = [j \in 1..FrameInts |-> g[j]]
      BY <2>2 DEF Frame
    <2> QED BY <2>3, <2>4, <2>5
  <1>13. Holds(mem', layout.previous, source[n + 1])
    BY <1>1, <1>2, <1>9, <1>11, CopyFacts DEF Holds, FramesApart
  <1> HIDE DEF w, v, F
  <1>14. At(n) + k - 1 = W /\ At(n + 1) = W + 1 /\ At(n) + k - 2 = W - 1
    BY <1>6, <1>7
  <1>15. \A i \in 1..(n + 1) : v[At(i)] = source[i]
    <2> SUFFICES ASSUME NEW i \in 1..(n + 1)
                 PROVE  v[At(i)] = source[i]
      OBVIOUS
    <2>1. CASE i = n + 1
      BY <1>8, <1>12, <1>14, <2>1
    <2>2. CASE i # n + 1
      <3>1. i \in 1..n /\ i \in Int /\ i <= n /\ i >= 1
        BY <2>2
      <3>2. At(i) \in Int /\ At(i) <= At(n) /\ At(i) >= 1
        BY <1>2, <3>1, AtOrder
      <3>3. At(i) \in 1..W
        BY <1>5, <1>6, <1>7, <3>2
      <3> QED BY <1>8, <1>9, <3>1, <3>3 DEF Placed
    <2> QED BY <2>1, <2>2
  <1>16. ASSUME NEW i \in 2..(n + 1), NEW x \in At(i - 1)..(At(i) - 1)
         PROVE  Passes(v[x], v[x + 1], source[i])
    <2>1. CASE i = n + 1
      <3>0. i - 1 = n /\ At(i - 1) = At(n) /\ x \in At(n)..W
        <4>1. i - 1 = n
          BY <2>1
        <4> QED BY <1>6, <1>14, <2>1, <4>1
      <3>1. CASE x < W
        <4>1. x \in At(n)..(At(n) + k - 2) /\ x \in 1..W /\ x + 1 \in 1..W
          BY <1>6, <1>14, <3>0, <3>1
        <4>2. v[x] = w[x] /\ v[x + 1] = w[x + 1]
          BY <1>8, <4>1
        <4> QED BY <1>9, <2>1, <4>1, <4>2 DEF Underway
      <3>2. CASE x >= W
        <4>1. x = W /\ W \in 1..W
          BY <1>5, <1>6, <1>7, <3>0, <3>2
        <4>2. v[x] = w[W] /\ v[x + 1] = source[i]
          BY <1>8, <1>12, <2>1, <4>1
        <4>3. ASSUME NEW c \in Channels
              PROVE  Ordered(Sample(w[W], c), Sample(source[i], c), Sample(source[i], c))
          <5>1. PICK t \in Nat : t = Top - 1
            BY <1>2, TopFacts
          <5>2. Sample(source[n], c) \in 0..t /\ Sample(source[n + 1], c) \in 0..t
            BY <1>2, <1>10, <5>1, SampleFacts
          <5>3. 2 * (t * (options.factor - 1)) < WordSize
            BY <1>2, <5>1, NoOverflowFacts
          <5>4. PICK l \in Nat : l = k - 1 /\ l < k
            BY <1>5
          <5>5. options.factor \in Nat /\ options.factor > 0 /\ l < options.factor
            <6> PICK g \in 1..1024 : g = options.factor
              BY <1>2, FactorFacts
            <6> QED BY <1>5, <5>4
          <5>6. Between(Sample(source[n], c), Sample(source[n + 1], c), l, options.factor) \in 0..t
            BY <5>2, <5>3, <5>5, BetweenOrdered
          <5>7. Sample(w[W], c) = Between(Sample(source[n], c), Sample(source[n + 1], c), l, options.factor)
            BY <1>9, <1>14, <5>4 DEF Underway
          <5> QED BY <2>1, <5>2, <5>6, <5>7 DEF Ordered
        <4> QED BY <4>2, <4>3 DEF Passes
      <3> QED BY <1>6, <3>0, <3>1, <3>2
    <2>2. CASE i # n + 1
      <3>1. i \in 2..n /\ i \in 1..n
        BY <2>2
      <3>2. At(i) \in Int /\ At(i) <= At(n) /\ At(i - 1) \in Int /\ At(i - 1) >= 1
        <4>1. i - 1 \in Int /\ i - 1 <= n /\ i - 1 >= 1 /\ i \in Int /\ i <= n
          BY <3>1
        <4> QED BY <1>2, <4>1, AtOrder
      <3>3. x \in 1..W /\ x + 1 \in 1..W
        BY <1>5, <1>6, <1>7, <3>2
      <3>4. v[x] = w[x] /\ v[x + 1] = w[x + 1]
        BY <1>8, <3>3
      <3> QED BY <1>9, <3>1, <3>4 DEF Placed
    <2> QED BY <2>1, <2>2
  <1>17. Placed(v, source, mem', n + 1)
    BY <1>13, <1>15, <1>16 DEF Placed
  <1> QED BY <1>4, <1>17 DEF v

LEMMA SlowKeeps == IInv /\ CountInv /\ SlowInv /\ [Next]_vars => SlowInv'
  <1> SUFFICES ASSUME IInv, CountInv, SlowInv, [Next]_vars
               PROVE  SlowInv'
    OBVIOUS
  <1>1. ASSUME phase' \notin {"frames", "between"}
        PROVE  SlowInv'
    BY <1>1 DEF SlowInv
  <1>2. ASSUME options'.mode # "d"
        PROVE  SlowInv'
    BY <1>2 DEF SlowInv
  <1>3. CASE ValidArgs \/ ReadHeader \/ Smash \/ EndOfInput \/ RunAgain
    <2>1. phase' \in {"exited", "header", "annotation", "failed", "undefined", "done", "start"}
      BY <1>3 DEF ValidArgs, ReadHeader, Smash, EndOfInput, RunAgain
    <2> QED BY <1>1, <2>1
  <1>4. CASE ReadAnnotation
    <2>1. phase' \in {"failed", "crashed", "undefined"} \/ phase' = (IF options.mode = "d" THEN "first" ELSE "frames")
      BY <1>4 DEF ReadAnnotation
    <2>2. options' = options
      BY <1>4 DEF ReadAnnotation
    <2> QED BY <1>1, <1>2, <2>1, <2>2
  <1>5. ASSUME NEW frame \in NextFrames, SpeedUp(frame) \/ CryptFrame(frame)
        PROVE  SlowInv'
    <2>1. options.mode \in {"u", "c"} /\ options' = options
      BY <1>5 DEF SpeedUp, CryptFrame, Get
    <2> QED BY <1>2, <2>1
  <1>6. ASSUME NEW frame \in NextFrames, FirstFrame(frame)
        PROVE  SlowInv'
    BY <1>6, FirstFrameSlow
  <1>7. ASSUME NEW frame \in NextFrames, SlowDown(frame)
        PROVE  SlowInv'
    BY <1>7, SlowDownSlow
  <1>8. CASE InsertFrame
    BY <1>8, InsertFrameSlow
  <1>9. CASE KeepFrame
    BY <1>9, KeepFrameSlow
  <1>10. CASE UNCHANGED vars
    <2>1. UNCHANGED <<options, hp, layout, mem, counter, turn, written, source, phase>>
      BY <1>10 DEF vars
    <2> QED BY <2>1, SlowSame DEF SlowInv
  <1> QED BY <1>3, <1>4, <1>5, <1>6, <1>7, <1>8, <1>9, <1>10 DEF Next

(* A sample of an unsigned order is one of the signed order, shifted by    *)
(* Top in the upper half.                                                  *)
LEMMA SignedFacts ==
  ASSUME Format(hp), Bps < 4, NEW f \in Frame, NEW c \in Channels
  PROVE  /\ Sample(f, c) \in 0..(Top - 1) /\ Top \in Nat
         /\ Signed(f, c) = IF 2 * Sample(f, c) >= Top THEN Sample(f, c) - Top ELSE Sample(f, c)
         /\ Signed(f, c) < 0 <=> 2 * Sample(f, c) >= Top
  <1>1. Sample(f, c) \in 0..(Top - 1) /\ Top \in Nat
    BY SampleFacts, TopFacts
  <1>2. Span = Top
    BY <1>1, NumberTop DEF Span
  <1> QED BY <1>1, <1>2 DEF Signed

(* A walk that never turns back on its way to t is between start and t.    *)
LEMMA Walk ==
  ASSUME NEW n \in Nat, NEW g \in [0..n -> Int], NEW t \in Int,
         \A x \in 0..(n - 1) : Ordered(g[x], g[x + 1], t)
  PROVE  \A x \in 0..n : Ordered(g[0], g[x], t)
  <1> DEFINE S == {x \in 0..n : ~ Ordered(g[0], g[x], t)}
  <1>1. SUFFICES ASSUME S # {}
                 PROVE  FALSE
    OBVIOUS
  <1>2. S \subseteq Nat
    OBVIOUS
  <1>3. \E m \in S : \A y \in S : ~ (<<y, m>> \in OpToRel(<, Nat))
    <2>1. PICK x \in S : TRUE
      BY <1>1
    <2> QED BY <1>2, <2>1, NatLessThanWellFounded, WFMin
  <1>4. PICK m \in S : \A y \in S : ~ (<<y, m>> \in OpToRel(<, Nat))
    BY <1>3
  <1>5. \A y \in S : ~ (y < m)
    BY <1>2, <1>4 DEF OpToRel
  <1>6. m # 0
    BY DEF Ordered
  <1>7. m - 1 \in 0..(n - 1) /\ m - 1 \in 0..n /\ m = (m - 1) + 1
    BY <1>6
  <1>8. m - 1 \notin S
    BY <1>5, <1>7
  <1>9. Ordered(g[0], g[m - 1], t)
    BY <1>7, <1>8
  <1>10. Ordered(g[m - 1], g[m], t)
    BY <1>7
  <1>11. g[0] \in Int /\ g[m - 1] \in Int /\ g[m] \in Int
    BY <1>7
  <1>12. Ordered(g[0], g[m], t)
    BY <1>9, <1>10, <1>11 DEF Ordered
  <1> QED BY <1>12

(* Samples keep their order when the same number is taken from each.       *)
LEMMA OrderedShift ==
  ASSUME NEW a \in Int, NEW b \in Int, NEW c \in Int, NEW d \in Int, Ordered(a, b, c)
  PROVE  Ordered(a - d, b - d, c - d)
  BY DEF Ordered

(* Between two samples of one sign, the signed order is the unsigned one.  *)
LEMMA SameSignStraight ==
  ASSUME Format(hp), Bps < 4, options.factor \in 1..1024,
         source \in Seq(Frame), written.frames \in Seq(Frame),
         NEW i \in 2..Len(source), At(i) <= Len(written.frames),
         written.frames[At(i - 1)] = source[i - 1],
         \A x \in At(i - 1)..(At(i) - 1) : Passes(written.frames[x], written.frames[x + 1], source[i]),
         NEW c \in Channels, SameSign(i, c)
  PROVE  Straight(i, c)
  <1> DEFINE w == written.frames
             p == At(i - 1)
             S(x) == Sample(w[p + x], c)
  <1>1. PICK n \in Nat : n = options.factor
    BY FactorFacts
  <1>2. p \in Nat /\ p >= 1 /\ At(i) = p + n
    <2>1. i - 1 \in Int /\ i - 1 >= 1 /\ (i - 1) + 1 = i /\ i - 1 <= i - 1
      OBVIOUS
    <2>2. At(i - 1) \in Int /\ At(i - 1) >= 1
      BY <2>1, AtOrder
    <2>3. At((i - 1) + 1) = At(i - 1) + options.factor
      BY <2>1, AtFacts
    <2> QED BY <1>1, <2>1, <2>2, <2>3
  <1> HIDE DEF p
  <1>3. \A x \in p..(p + n) : w[x] \in Frame
    BY <1>2, LenProperties, ElementOfSeq
  <1>4. source[i] \in Frame /\ source[i - 1] \in Frame
    <2>1. i \in 1..Len(source) /\ i - 1 \in 1..Len(source)
      BY LenProperties
    <2> QED BY <2>1, ElementOfSeq
  <1>5. PICK t \in Int : t = Sample(source[i], c)
    BY <1>4, SignedFacts
  <1>6. PICK top \in Nat : top = Top
    BY TopFacts
  <1>7. \A x \in p..(p + n) : Sample(w[x], c) \in 0..(top - 1)
    BY <1>3, <1>6, SignedFacts
  <1>8. PICK g \in [0..n -> Int] : \A x \in 0..n : g[x] = S(x)
    <2>1. \A x \in 0..n : p + x \in p..(p + n)
      BY <1>2
    <2>2. ASSUME NEW x \in 0..n
          PROVE  S(x) \in Int
      <3>1. PICK y \in p..(p + n) : y = p + x
        BY <2>1
      <3>2. Sample(w[y], c) \in 0..(top - 1)
        BY <1>7
      <3> QED BY <3>1, <3>2
    <2>3. [x \in 0..n |-> S(x)] \in [0..n -> Int]
      BY <2>2
    <2> QED BY <2>3
  <1>9. \A x \in 0..(n - 1) : Ordered(g[x], g[x + 1], t)
    <2> SUFFICES ASSUME NEW x \in 0..(n - 1)
                 PROVE  Ordered(g[x], g[x + 1], t)
      OBVIOUS
    <2>1. p + x \in p..(At(i) - 1) /\ (p + x) + 1 = p + (x + 1) /\ x \in 0..n /\ x + 1 \in 0..n
      BY <1>2
    <2>2. Passes(w[p + x], w[(p + x) + 1], source[i])
      BY <2>1 DEF p
    <2>3. Ordered(S(x), S(x + 1), t)
      BY <1>5, <2>1, <2>2 DEF Passes
    <2> QED BY <1>8, <2>1, <2>3
  <1>10. \A x \in 0..n : Ordered(g[0], g[x], t)
    BY <1>9, Walk
  <1>11. \A x \in 0..n : g[x] \in 0..(top - 1)
    <2> SUFFICES ASSUME NEW x \in 0..n
                 PROVE  g[x] \in 0..(top - 1)
      OBVIOUS
    <2>1. PICK y \in p..(p + n) : y = p + x
      BY <1>2
    <2>2. Sample(w[y], c) \in 0..(top - 1)
      BY <1>7
    <2> QED BY <1>8, <2>1, <2>2
  <1>12. t \in 0..(top - 1) /\ Signed(source[i], c) = (IF 2 * t >= top THEN t - top ELSE t)
         /\ (Signed(source[i], c) < 0 <=> 2 * t >= top)
    BY <1>4, <1>5, <1>6, SignedFacts
  <1>13. \A x \in 0..n : Signed(w[p + x], c) = IF 2 * g[x] >= top THEN g[x] - top ELSE g[x]
    <2> SUFFICES ASSUME NEW x \in 0..n
                 PROVE  Signed(w[p + x], c) = IF 2 * g[x] >= top THEN g[x] - top ELSE g[x]
      OBVIOUS
    <2>1. p + x \in p..(p + n)
      BY <1>2
    <2>2. w[p + x] \in Frame
      BY <1>3, <2>1
    <2> QED BY <1>6, <1>8, <2>2, SignedFacts
  <1>14. 2 * g[0] >= top <=> 2 * t >= top
    <2>1. w[p + 0] = source[i - 1] /\ 0 \in 0..n
      BY <1>2 DEF p
    <2>2. g[0] = Sample(source[i - 1], c)
      BY <1>8, <2>1
    <2>3. Signed(source[i - 1], c) < 0 <=> 2 * g[0] >= top
      BY <1>4, <1>6, <2>2, SignedFacts
    <2> QED BY <1>12, <2>3 DEF SameSign
  <1>15. \A x \in 0..n : 2 * g[x] >= top <=> 2 * t >= top
    <2> SUFFICES ASSUME NEW x \in 0..n
                 PROVE  2 * g[x] >= top <=> 2 * t >= top
      OBVIOUS
    <2>1. g[0] \in Int /\ g[x] \in Int /\ Ordered(g[0], g[x], t)
      BY <1>10
    <2> QED BY <1>14, <2>1 DEF Ordered
  <1>16. \A x \in 0..(n - 1) : Ordered(Signed(w[p + x], c), Signed(w[(p + x) + 1], c), Signed(source[i], c))
    <2> SUFFICES ASSUME NEW x \in 0..(n - 1)
                 PROVE  Ordered(Signed(w[p + x], c), Signed(w[(p + x) + 1], c), Signed(source[i], c))
      OBVIOUS
    <2>1. x \in 0..n /\ x + 1 \in 0..n /\ (p + x) + 1 = p + (x + 1) /\ g[x] \in Int /\ g[x + 1] \in Int
      BY <1>2
    <2>2. 2 * g[x] >= top <=> 2 * t >= top
      BY <1>15, <2>1
    <2>3. 2 * g[x + 1] >= top <=> 2 * t >= top
      BY <1>15, <2>1
    <2>4. Ordered(g[x], g[x + 1], t)
      BY <1>9
    <2>5. Signed(w[p + x], c) = (IF 2 * t >= top THEN g[x] - top ELSE g[x])
      BY <1>13, <2>1, <2>2
    <2>6. Signed(w[(p + x) + 1], c) = (IF 2 * t >= top THEN g[x + 1] - top ELSE g[x + 1])
      BY <1>13, <2>1, <2>3
    <2>7. Signed(source[i], c) = (IF 2 * t >= top THEN t - top ELSE t)
      BY <1>12
    <2>8. Ordered((IF 2 * t >= top THEN g[x] - top ELSE g[x]), (IF 2 * t >= top THEN g[x + 1] - top ELSE g[x + 1]),
                  (IF 2 * t >= top THEN t - top ELSE t))
      <3> DEFINE d == IF 2 * t >= top THEN top ELSE 0
      <3>1. PICK a \in Int, b \in Int : a = g[x] /\ b = g[x + 1]
        BY <2>1
      <3>d. d \in Int
        OBVIOUS
      <3> HIDE DEF d
      <3>2. Ordered(a - d, b - d, t - d)
        BY <2>4, <3>1, <3>d, OrderedShift
      <3>3. CASE 2 * t >= top
        <4>1. a - d = g[x] - top /\ b - d = g[x + 1] - top /\ t - d = t - top
          BY <3>1, <3>3 DEF d
        <4> QED BY <3>2, <3>3, <4>1
      <3>4. CASE ~ (2 * t >= top)
        <4>1. a - d = g[x] /\ b - d = g[x + 1] /\ t - d = t
          BY <3>1, <3>4 DEF d
        <4> QED BY <3>2, <3>4, <4>1
      <3> QED BY <3>3, <3>4
    <2> QED BY <2>5, <2>6, <2>7, <2>8
  <1>17. \A x \in p..(At(i) - 1) : Ordered(Signed(w[x], c), Signed(w[x + 1], c), Signed(source[i], c))
    <2> SUFFICES ASSUME NEW x \in p..(At(i) - 1)
                 PROVE  Ordered(Signed(w[x], c), Signed(w[x + 1], c), Signed(source[i], c))
      OBVIOUS
    <2>1. PICK y \in 0..(n - 1) : p + y = x
      <3>1. x - p \in 0..(n - 1) /\ p + (x - p) = x
        BY <1>2
      <3> QED BY <3>1
    <2> QED BY <1>16, <2>1
  <1> QED BY <1>17 DEF Straight, p

(* recode with -d below four bytes, when no product of calcu_frame can     *)
(* overflow and the frame arrays do not overlap: every frame read is       *)
(* written, factor - 1 frames before the next one, and each channel moves  *)
(* between two samples of one sign without turning back.                   *)
THEOREM SlowDownInterpolatesHolds == Spec => [](Bps < 4 /\ NoOverflow => SlowDownInterpolates)
  <1>1. Init => CountInv /\ SlowInv
    BY DEF Init, CountInv, SlowInv, Working
  <1>2. IInv /\ CountInv /\ SlowInv /\ [Next]_vars => CountInv' /\ SlowInv'
    BY CountKeeps, SlowKeeps
  <1>3. IInv /\ CountInv /\ SlowInv => (Bps < 4 /\ NoOverflow => SlowDownInterpolates)
    <2> SUFFICES ASSUME IInv, CountInv, SlowInv, options.mode = "d", phase = "frames", Bps < 4, FramesApart,
                        NoOverflow
                 PROVE  /\ Len(written.frames) = At(Len(source))
                        /\ \A i \in DOMAIN source : written.frames[At(i)] = source[i]
                        /\ \A i \in 2..Len(source), c \in 0..(hp.channels - 1) : SameSign(i, c) => Straight(i, c)
      BY DEF SlowDownInterpolates
    <2>1. round = 1 /\ source \in Seq(Frame) /\ written.frames \in Seq(Frame) /\ Format(hp)
          /\ options.factor \in 1..1024
      BY RoundFacts, WorkingFacts
    <2>2. counter = Len(source) /\ DOMAIN source = 1..Len(source) /\ Len(source) \in Nat
      BY <2>1, LenProperties DEF IInv, ReadInv
    <2>3. Len(written.frames) = At(Len(source))
      BY <2>2 DEF CountInv
    <2>4. Placed(written.frames, source, mem, Len(source))
      BY <2>2 DEF SlowInv
    <2>5. ASSUME NEW i \in 2..Len(source), NEW c \in 0..(hp.channels - 1), SameSign(i, c)
          PROVE  Straight(i, c)
      <3>1. At(i) <= Len(written.frames)
        <4>1. i \in Int /\ Len(source) \in Int /\ i <= Len(source)
          BY <2>2
        <4> QED BY <2>1, <2>3, <4>1, AtOrder
      <3>2. i - 1 \in 1..Len(source)
        BY <2>2
      <3>3. written.frames[At(i - 1)] = source[i - 1]
        BY <2>4, <3>2 DEF Placed
      <3>4. \A x \in At(i - 1)..(At(i) - 1) : Passes(written.frames[x], written.frames[x + 1], source[i])
        BY <2>4 DEF Placed
      <3> QED BY <2>1, <2>5, <3>1, <3>3, <3>4, SameSignStraight DEF Channels
    <2> QED BY <2>2, <2>3, <2>4, <2>5 DEF Placed
  <1>4. Spec => []IInv
    BY IInvAlways
  <1> QED BY <1>1, <1>2, <1>3, <1>4, PTL DEF Spec
=============================================================================
