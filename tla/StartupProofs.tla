--------------------------- MODULE StartupProofs ---------------------------
(***************************************************************************)
(* Proofs about Startup and Config, for any lines, sizes and commands.     *)
(***************************************************************************)
EXTENDS Startup, Induction, FunctionTheorems, SequenceTheorems, TLAPS

\* The facts of LineType that sizes depend on.
LEMMA LineFacts ==
  ASSUME NEW line \in Lines
  PROVE  /\ line.indent \in Nat /\ line.size \in Nat /\ line.cr \in {0, 1}
         /\ LineSize(line) \in Nat
         /\ LineSize(line) = 0 => line.size = 0
         /\ line.size = 0 <=> line.name = ""
<1>1. LineType(line)
  BY ConfigAssumption
<1>2. line.indent \in Nat /\ line.size \in Nat /\ line.cr \in {0, 1}
  BY <1>1 DEF LineType
<1>3. line.size = 0 <=> line.name = ""
  BY <1>1 DEF LineType
<1>4. LineSize(line) \in Nat /\ (LineSize(line) = 0 => line.size = 0)
  <2>1. line.cr \in Nat
    BY <1>2
  <2> QED
    BY <1>2, <2>1 DEF LineSize
<1> QED
  BY <1>2, <1>3, <1>4, Zenon

\* The recursive definition of Starts has a meaning.
LEMMA StartsIs ==
  ASSUME NEW f \in Seq(Lines)
  PROVE  /\ Starts(f) \in [0..Len(f) -> Nat]
         /\ Starts(f)[0] = 0
         /\ \A k \in 1..Len(f) :
              /\ LineSize(f[k]) \in Nat
              /\ Starts(f)[k] = Starts(f)[k - 1] + LineSize(f[k]) + 1
<1> DEFINE n == Len(f)
           F(g) == [k \in 0..n |-> IF k = 0 THEN 0 ELSE g[k - 1] + LineSize(f[k]) + 1]
           step == [k \in 1..n |-> [x \in Nat |-> x + LineSize(f[k]) + 1]]
<1>1. n \in Nat
  OBVIOUS
<1>2. \A k \in 1..n : LineSize(f[k]) \in Nat
  <2>1. \A k \in 1..n : f[k] \in Lines
    OBVIOUS
  <2> QED
    BY <2>1, LineFacts
<1>3. step \in [1..n -> [Nat -> Nat]]
  BY <1>2
<1> HIDE DEF n, step
<1>4. PICK g \in [0..n -> Nat] : g[0] = 0 /\ \A k \in 1..n : g[k] = step[k][g[k - 1]]
  <2>1. 0 \in Nat /\ step \in Steps(n, Nat)
    BY <1>3 DEF Steps
  <2>2. PICK g : Counted(g, n, Nat, 0, step)
    BY <1>1, <2>1, CountUp
  <2> QED
    BY <2>2 DEF Counted
<1>5. \A k \in 1..n : g[k - 1] \in Nat /\ g[k] = g[k - 1] + LineSize(f[k]) + 1
  <2>1. ASSUME NEW k \in 1..n PROVE k - 1 \in 0..n
    BY <1>1
  <2>2. \A k \in 1..n : g[k - 1] \in Nat
    BY <2>1
  <2> QED
    BY <1>4, <2>2 DEF step
<1>6. ASSUME NEW k \in 0..n
      PROVE  g[k] = IF k = 0 THEN 0 ELSE g[k - 1] + LineSize(f[k]) + 1
  <2>1. k = 0 \/ k \in 1..n
    BY <1>1
  <2> QED
    BY <1>4, <1>5, <2>1
<1>7. g = F(g)
  BY <1>6
<1>8. Starts(f) = CHOOSE h : h = F(h)
  BY DEF Starts, n
<1> DEFINE h == Starts(f)
<1>9. h = F(h)
  <2> HIDE DEF F
  <2> QED
    BY <1>7, <1>8
<1> HIDE DEF h
<1> DEFINE S == {m \in Nat : m \in 0..n => h[m] = g[m]}
<1>10. 0 \in S
  BY <1>1, <1>4, <1>9
<1>11. ASSUME NEW m \in Nat, m \in S PROVE m + 1 \in S
  <2> SUFFICES ASSUME m + 1 \in 0..n PROVE h[m + 1] = g[m + 1]
    OBVIOUS
  <2>1. m \in 0..n /\ m + 1 \in 1..n /\ (m + 1) - 1 = m /\ m + 1 # 0
    BY <1>1
  <2>2. h[m] = g[m]
    BY <1>11, <2>1
  <2>3. h[m + 1] = h[m] + LineSize(f[m + 1]) + 1
    BY <1>9, <2>1
  <2> QED
    BY <1>5, <2>1, <2>2, <2>3
<1>12. \A m \in Nat : m \in S
  <2> HIDE DEF S
  <2> QED
    BY <1>10, <1>11, Induct
<1>13. h = g
  <2>1. \A m \in 0..n : h[m] = g[m]
    BY <1>1, <1>12
  <2>2. DOMAIN h = 0..n
    BY <1>9
  <2>3. h = [m \in 0..n |-> h[m]]
    BY <1>9
  <2> QED
    BY <2>1, <2>3
<1> QED
  BY <1>2, <1>4, <1>5, <1>13 DEF h, n

\* Every line takes a character at least.
LEMMA StartsGrow ==
  ASSUME NEW f \in Seq(Lines), NEW j \in 0..Len(f), NEW k \in 0..Len(f), j <= k
  PROVE  Starts(f)[j] + (k - j) <= Starts(f)[k]
<1> DEFINE n == Len(f)
           h == Starts(f)
           S == {m \in Nat : j + m \in 0..n => h[j] + m <= h[j + m]}
<1>1. n \in Nat /\ j \in Nat /\ k \in Nat
  OBVIOUS
<1>2. /\ h \in [0..n -> Nat]
      /\ \A m \in 1..n : LineSize(f[m]) \in Nat /\ h[m] = h[m - 1] + LineSize(f[m]) + 1
  BY StartsIs
<1> HIDE DEF n, h
<1>3. 0 \in S
  BY <1>1, <1>2
<1>4. ASSUME NEW m \in Nat, m \in S PROVE m + 1 \in S
  <2> SUFFICES ASSUME j + (m + 1) \in 0..n PROVE h[j] + (m + 1) <= h[j + (m + 1)]
    OBVIOUS
  <2> DEFINE i == j + (m + 1)
  <2>1. i \in 1..n /\ i - 1 = j + m /\ j + m \in 0..n /\ j \in 0..n
    BY <1>1
  <2>2. LineSize(f[i]) \in Nat /\ h[i] = h[j + m] + LineSize(f[i]) + 1
    BY <1>2, <2>1
  <2>3. h[j] \in Nat /\ h[j + m] \in Nat /\ h[j] + m <= h[j + m]
    BY <1>2, <1>4, <2>1
  <2> HIDE DEF i
  <2>4. h[j] + (m + 1) <= h[i]
    BY <2>2, <2>3
  <2> QED
    BY <2>4 DEF i
<1>5. \A m \in Nat : m \in S
  <2> HIDE DEF S
  <2> QED
    BY <1>3, <1>4, Induct
<1>6. k - j \in Nat /\ j + (k - j) = k /\ k \in 0..n
  BY <1>1 DEF n
<1> QED
  BY <1>5, <1>6 DEF h

-----------------------------------------------------------------------------

\* What the first n lines of f say of an option.
SaidIn(f, opt, n) ==
  LET at == {k \in 1..n : f[k].name = opt}
  IN  IF at = {} THEN Defaults[opt] ELSE Value(f[Max(at)])

\* parse_config looks behind the file when start is there; until then it has
\* read linenum lines.
LinesRead == IF linenum > 0 /\ start >= length THEN linenum - 1 ELSE linenum

\* cfg is what the first n lines of f say.
ReadIn(f, cfg, n) ==
  /\ \A k \in 1..n : Meaningful(f[k])
  /\ cfg = [opt \in Options |-> SaidIn(f, opt, n)]

\* The first n lines were read.
Read(n) == ReadIn(file, config, n)

FileType == file \in Seq(Lines) /\ newline \in BOOLEAN /\ (file = <<>> => ~newline)

ConfigType ==
  /\ DOMAIN config = Options
  /\ \A opt \in IntOptions : config[opt] \in (-INT_MAX - 1)..INT_MAX
  /\ \A opt \in BoolOptions : config[opt] \in BOOLEAN

BufferType == tmplen \in Nat \ {0} /\ written \in 0..tmplen

PcType ==
  pc \in {"parse_args", "load_config", "parse_config", "check_config",
          "init_command_pool", "init_core_commands", "init_masterserver",
          "daemon_main", "returned", "exit", "crashed"}

PoolType ==
  /\ command_pool \in Seq(Range(CommandList))
  /\ command_pool_size \in Nat /\ Len(command_pool) <= command_pool_size
  /\ pc = "init_core_commands" => 0 < command_pool_size
  /\ pc \in {"parse_args", "load_config", "parse_config", "check_config", "init_command_pool"}
       => command_pool = <<>>

\* Before the first line, behind a line, or behind the file.
Position ==
  \/ linenum = 0 /\ start = 0 /\ end = -1
  \/ /\ linenum \in 1..Len(file) /\ start < length
     /\ start = Starts(file)[linenum - 1] /\ end = Starts(file)[linenum] - 1
  \/ /\ linenum \in 1..(Len(file) + 1) /\ length <= start
     /\ start = Starts(file)[linenum - 1] /\ end = start

Loading == {"parse_args", "load_config", "parse_config"}
Checked == {"init_command_pool", "init_core_commands", "init_masterserver", "daemon_main"}

\* What is known of the configuration, at each call of main.
Meaning ==
  /\ pc \in {"parse_args", "load_config"} => linenum = 0
  /\ pc = "parse_config" => length > 0
  /\ pc \in Loading => Read(LinesRead)
  /\ pc \in Checked \cup {"check_config"} => Read(Len(file))
  /\ pc \in Checked => (length > 0 => Sane(config))

Inv == FileType /\ PcType /\ ConfigType /\ BufferType /\ PoolType /\ Position /\ Meaning

-----------------------------------------------------------------------------

\* The size of the file: the start of the line behind the last one, or one
\* less if the last newline character is missing.
LEMMA LengthIs ==
  ASSUME FileType
  PROVE  /\ Len(file) \in Nat /\ length \in Nat
         /\ Starts(file) \in [0..Len(file) -> Nat] /\ Starts(file)[0] = 0
         /\ length <= Starts(file)[Len(file)] /\ Starts(file)[Len(file)] <= length + 1
         /\ newline => length = Starts(file)[Len(file)]
         /\ Len(file) = 0 => length = 0
<1> DEFINE n == Len(file)
           h == Starts(file)
<1>1. n \in Nat /\ 0 \in 0..n /\ n \in 0..n /\ file \in Seq(Lines)
  BY DEF FileType
<1>2. h \in [0..n -> Nat] /\ h[0] = 0
  BY <1>1, StartsIs
<1>3. h[0] + (n - 0) <= h[n]
  BY <1>1, StartsGrow
<1>4. file = <<>> <=> n = 0
  BY <1>1
<1>5. length = IF newline \/ file = <<>> THEN h[n] ELSE h[n] - 1
  BY DEF length
<1>6. h[n] \in Nat /\ n <= h[n]
  BY <1>1, <1>2, <1>3
<1> HIDE DEF n, h
<1>7. /\ length \in Nat /\ length <= h[n] /\ h[n] <= length + 1
      /\ newline => length = h[n]
  BY <1>1, <1>4, <1>5, <1>6
<1>8. n = 0 => length = 0
  BY <1>2, <1>4, <1>5
<1> QED
  BY <1>1, <1>2, <1>7, <1>8 DEF n, h

LEMMA SameLength == UNCHANGED fileVars => length' = length
  BY DEF fileVars, length

\* Where parse_config is when its loop goes on.
LEMMA Here ==
  ASSUME FileType, Position, More
  PROVE  /\ linenum \in 0..Len(file)
         /\ NextStart = Starts(file)[linenum]
         /\ LinesRead = linenum
<1>1. /\ Len(file) \in Nat /\ length \in Nat
      /\ Starts(file) \in [0..Len(file) -> Nat] /\ Starts(file)[0] = 0
  BY LengthIs
<1>2. start < length
  BY DEF More
<1>3. CASE linenum = 0 /\ start = 0 /\ end = -1
  BY <1>1, <1>3 DEF NextStart, LinesRead
<1>4. CASE /\ linenum \in 1..Len(file) /\ start < length
           /\ start = Starts(file)[linenum - 1] /\ end = Starts(file)[linenum] - 1
  <2>1. linenum \in 0..Len(file) /\ linenum - 1 \in 0..Len(file)
    BY <1>1, <1>4
  <2>2. Starts(file)[linenum] \in Nat /\ start \in Nat
    BY <1>1, <1>4, <2>1
  <2>3. NextStart = Starts(file)[linenum]
    BY <1>4, <2>2 DEF NextStart
  <2>4. ~(start >= length)
    BY <1>1, <1>2, <2>2
  <2> QED
    BY <2>1, <2>3, <2>4 DEF LinesRead
<1>5. CASE /\ linenum \in 1..(Len(file) + 1) /\ length <= start
           /\ start = Starts(file)[linenum - 1] /\ end = start
  <2>1. linenum - 1 \in 0..Len(file)
    BY <1>1, <1>5
  <2>2. start \in Nat
    BY <1>1, <1>5, <2>1
  <2> QED
    BY <1>1, <1>2, <1>5, <2>2
<1> QED
  BY <1>3, <1>4, <1>5 DEF Position

\* It is at a line of the file.
LEMMA LineHere ==
  ASSUME FileType, Position, AtLine
  PROVE  linenum + 1 \in 1..Len(file) /\ Current \in Lines /\ Current = file[linenum + 1]
<1>1. More /\ NextStart < length
  BY DEF AtLine
<1>2. linenum \in 0..Len(file) /\ NextStart = Starts(file)[linenum]
  BY <1>1, Here
<1>3. /\ Len(file) \in Nat /\ length \in Nat
      /\ Starts(file) \in [0..Len(file) -> Nat]
      /\ length <= Starts(file)[Len(file)]
  BY LengthIs
<1>4. Starts(file)[linenum] \in Nat /\ Starts(file)[Len(file)] \in Nat
  BY <1>2, <1>3
<1>5. linenum # Len(file)
  BY <1>1, <1>2, <1>3, <1>4
<1>6. linenum + 1 \in 1..Len(file)
  BY <1>2, <1>3, <1>5
<1>7. file[linenum + 1] \in Lines
  BY <1>6 DEF FileType
<1> QED
  BY <1>6, <1>7 DEF Current

\* The start and the end of the line that comes next.
LEMMA LineStep ==
  ASSUME FileType, Position, AtLine, NextLine
  PROVE  Position' /\ LinesRead = linenum /\ LinesRead' = linenum + 1 /\ length' = length
<1>1. linenum + 1 \in 1..Len(file) /\ Current = file[linenum + 1]
  BY LineHere
<1>2. linenum \in 0..Len(file) /\ NextStart = Starts(file)[linenum] /\ LinesRead = linenum
  BY Here DEF AtLine
<1>3. UNCHANGED fileVars /\ length' = length /\ file' = file
  BY SameLength DEF NextLine, fileVars
<1>4. /\ Starts(file) \in [0..Len(file) -> Nat]
      /\ LineSize(file[linenum + 1]) \in Nat
      /\ Starts(file)[linenum + 1]
           = Starts(file)[(linenum + 1) - 1] + LineSize(file[linenum + 1]) + 1
  BY <1>1, StartsIs DEF FileType
<1>5. (linenum + 1) - 1 = linenum /\ linenum \in Nat
  BY <1>2
<1> DEFINE h == Starts(file)
           n == Len(file)
<1>6. h[linenum] \in Nat
  BY <1>2, <1>4
<1> HIDE DEF h, n
<1>7. start' = h[linenum] /\ linenum' = linenum + 1
  BY <1>2 DEF NextLine, h
<1>8. end' = h[linenum + 1] - 1
  <2>1. end' = h[linenum] + LineSize(file[linenum + 1])
    BY <1>1, <1>2 DEF NextLine, h
  <2>2. h[linenum + 1] = h[linenum] + LineSize(file[linenum + 1]) + 1
    BY <1>4, <1>5 DEF h
  <2> QED
    BY <1>4, <1>6, <2>1, <2>2
<1>9. start' < length
  BY <1>2, <1>7 DEF AtLine, h
<1>10. linenum' \in 1..n /\ linenum' - 1 = linenum
  BY <1>1, <1>5, <1>7 DEF n
<1>11. /\ linenum' \in 1..Len(file') /\ start' < length'
       /\ start' = Starts(file')[linenum' - 1] /\ end' = Starts(file')[linenum'] - 1
  BY <1>3, <1>7, <1>8, <1>9, <1>10 DEF h, n
<1>12. Position'
  BY <1>11 DEF Position
<1>13. LinesRead' = linenum'
  <2>1. length \in Nat
    BY LengthIs
  <2>2. ~(start' >= length')
    BY <1>3, <1>6, <1>7, <1>9, <2>1
  <2> QED
    BY <2>2 DEF LinesRead
<1> QED
  BY <1>2, <1>3, <1>7, <1>12, <1>13

\* The turn of the loop that finds no line.
LEMMA EndStep ==
  ASSUME FileType, Position, LookPastEnd
  PROVE  Position' /\ LinesRead' = LinesRead /\ length' = length
<1>1. linenum \in 0..Len(file) /\ NextStart = Starts(file)[linenum] /\ LinesRead = linenum
  BY Here DEF LookPastEnd
<1>2. UNCHANGED fileVars /\ length' = length /\ file' = file
  BY SameLength DEF LookPastEnd, fileVars
<1>3. start' = NextStart /\ end' = NextStart /\ linenum' = linenum + 1 /\ NextStart >= length
  BY DEF LookPastEnd
<1>4. Starts(file) \in [0..Len(file) -> Nat] /\ length \in Nat /\ Len(file) \in Nat
  BY LengthIs
<1>5. Starts(file)[linenum] \in Nat
  BY <1>1, <1>4
<1>6. linenum' \in 1..(Len(file) + 1) /\ linenum' - 1 = linenum /\ linenum' > 0
  BY <1>1, <1>3, <1>4
<1>7. length <= start' /\ start' >= length
  BY <1>1, <1>3, <1>4, <1>5
<1>8. /\ linenum' \in 1..(Len(file') + 1) /\ length' <= start'
      /\ start' = Starts(file')[linenum' - 1] /\ end' = start'
  BY <1>1, <1>2, <1>3, <1>6, <1>7
<1>9. LinesRead' = linenum
  BY <1>2, <1>6, <1>7 DEF LinesRead
<1> QED
  BY <1>1, <1>2, <1>8, <1>9 DEF Position

-----------------------------------------------------------------------------

\* An assignment that parse_attribute accepts.
Accepted(line) ==
  /\ line.name \in Options /\ line.kind \in {"value", "junk"}
  /\ line.name \in IntOptions => line.kind = "value" /\ InRange(line.value)

\* parse_attribute succeeds on nothing, and on assignments.
LEMMA ParsesWell ==
  ASSUME NEW line \in Lines, parse_attribute(line) = "FTP_PARSER_SUCCESS"
  PROVE  (line.size = 0 /\ line.name = "") \/ Accepted(line)
<1>1. line.size = 0 <=> line.name = ""
  BY LineFacts
<1>2. line.kind \in {"none", "blank", "junk", "value"}
      /\ (line.name \in {"", "#"} => line.kind = "none")
  BY ConfigAssumption DEF LineType
<1>3. CASE Blank(line)
  BY <1>1, <1>3 DEF Blank
<1>4. CASE ~Blank(line)
  <2>1. line.kind \notin {"none", "blank"}
    BY <1>4 DEF parse_attribute
  <2>2. line.name \in Options
    BY <1>2, <1>4, <2>1 DEF parse_attribute, Options
  <2>3. line.name \in IntOptions => line.kind # "junk"
    BY <1>2, <1>4, <2>1, <2>2 DEF parse_attribute
  <2>4. line.name \in IntOptions => InRange(line.value)
    BY <1>2, <1>4, <2>1, <2>2, <2>3 DEF parse_attribute
  <2> QED
    BY <1>2, <2>1, <2>2, <2>3, <2>4 DEF Accepted
<1> QED
  BY <1>3, <1>4

LEMMA AssignedIs ==
  ASSUME NEW line \in Lines, parse_attribute(line) = "FTP_PARSER_SUCCESS", NEW cfg
  PROVE  Assigned(cfg, line) = IF line.name \in Options
                               THEN [cfg EXCEPT ![line.name] = Value(line)] ELSE cfg
  BY DEF Assigned

\* What is assigned to an option has its type.
LEMMA ValueType ==
  ASSUME NEW line \in Lines, Accepted(line)
  PROVE  /\ line.name \in IntOptions => Value(line) \in (-INT_MAX - 1)..INT_MAX
         /\ line.name \in BoolOptions => Value(line) \in BOOLEAN
<1>1. LineType(line) /\ INT_MAX \in Nat
  BY ConfigAssumption
<1>2. ASSUME line.name \in IntOptions PROVE Value(line) \in (-INT_MAX - 1)..INT_MAX
  <2>1. line.kind = "value" /\ InRange(line.value) /\ line.value \in Int
    BY <1>1, <1>2 DEF Accepted, LineType
  <2>2. Value(line) = line.value
    BY <2>1 DEF Value
  <2>3. line.value \in (-INT_MAX - 1)..INT_MAX
    BY <1>1, <2>1 DEF InRange
  <2> QED
    BY <2>2, <2>3
<1>3. ASSUME line.name \in BoolOptions PROVE Value(line) \in BOOLEAN
  <2>1. CASE line.kind = "junk"
    BY <1>3, <2>1 DEF Value
  <2>2. CASE line.kind = "value"
    <3>1. line.value \in BOOLEAN
      BY <1>1, <1>3, <2>2, Zenon DEF LineType
    <3>2. Value(line) = line.value
      BY <2>2 DEF Value
    <3> QED
      BY <3>1, <3>2, Zenon
  <2> QED
    BY <2>1, <2>2 DEF Accepted
<1> QED
  BY <1>2, <1>3

LEMMA AssignedType ==
  ASSUME NEW line \in Lines, ConfigType, config' = Assigned(config, line)
  PROVE  ConfigType'
<1>1. CASE config' = config
  BY <1>1, Zenon DEF ConfigType
<1>2. CASE config' # config
  <2>1. /\ line.name \in Options /\ parse_attribute(line) = "FTP_PARSER_SUCCESS"
        /\ config' = [config EXCEPT ![line.name] = Value(line)]
    BY <1>2 DEF Assigned
  <2>2. Accepted(line)
    <3>1. line.name # ""
      BY <2>1 DEF Options, IntOptions, BoolOptions, StrOptions
    <3> QED
      BY <2>1, <3>1, ParsesWell
  <2>3. /\ line.name \in IntOptions => Value(line) \in (-INT_MAX - 1)..INT_MAX
        /\ line.name \in BoolOptions => Value(line) \in BOOLEAN
    BY <2>2, ValueType
  <2>4. DOMAIN config' = Options
    BY <2>1 DEF ConfigType
  <2>5. IntOptions \subseteq Options /\ BoolOptions \subseteq Options
    BY DEF Options
  <2>6. \A opt \in Options : config'[opt] = IF opt = line.name THEN Value(line) ELSE config[opt]
    BY <2>1 DEF ConfigType
  <2>7. ASSUME NEW opt \in IntOptions PROVE config'[opt] \in (-INT_MAX - 1)..INT_MAX
    BY <2>3, <2>5, <2>6 DEF ConfigType
  <2>8. ASSUME NEW opt \in BoolOptions PROVE config'[opt] \in BOOLEAN
    <3>1. CASE opt = line.name
      <4>1. config'[opt] = Value(line)
        BY <2>5, <2>6, <3>1
      <4>2. Value(line) \in BOOLEAN
        BY <2>3, <3>1, Zenon
      <4> QED
        BY <4>1, <4>2, Zenon
    <3>2. CASE opt # line.name
      <4>1. config'[opt] = config[opt]
        BY <2>5, <2>6, <3>2
      <4>2. config[opt] \in BOOLEAN
        BY Zenon DEF ConfigType
      <4> QED
        BY <4>1, <4>2, Zenon
    <3> QED
      BY <3>1, <3>2
  <2> QED
    BY <2>4, <2>7, <2>8, Zenon DEF ConfigType
<1> QED
  BY <1>1, <1>2

\* The last of the first n + 1 lines decides, if it is about the option.
LEMMA SaidNext ==
  ASSUME NEW f, NEW opt, NEW n \in Nat
  PROVE  SaidIn(f, opt, n + 1) = IF f[n + 1].name = opt THEN Value(f[n + 1])
                                 ELSE SaidIn(f, opt, n)
<1> DEFINE At(m) == {k \in 1..m : f[k].name = opt}
<1>1. CASE f[n + 1].name = opt
  <2>1. n + 1 \in At(n + 1) /\ \A k \in At(n + 1) : k \in Nat /\ k <= n + 1
    BY <1>1
  <2>2. Max(At(n + 1)) = n + 1
    <3>1. \A x \in At(n + 1) : (\A y \in At(n + 1) : x >= y) <=> x = n + 1
      BY <2>1
    <3> HIDE DEF At
    <3> QED
      BY <2>1, <3>1 DEF Max
  <2>3. At(n + 1) # {}
    BY <2>1
  <2> HIDE DEF At
  <2>4. SaidIn(f, opt, n + 1) = Value(f[Max(At(n + 1))])
    BY <2>3 DEF SaidIn, At
  <2> QED
    BY <1>1, <2>2, <2>4
<1>2. CASE f[n + 1].name # opt
  <2>1. At(n + 1) = At(n)
    BY <1>2
  <2>2. SaidIn(f, opt, n + 1) = IF At(n + 1) = {} THEN Defaults[opt] ELSE Value(f[Max(At(n + 1))])
    BY DEF SaidIn
  <2>3. SaidIn(f, opt, n) = IF At(n) = {} THEN Defaults[opt] ELSE Value(f[Max(At(n))])
    BY DEF SaidIn
  <2> HIDE DEF At
  <2> QED
    BY <1>2, <2>1, <2>2, <2>3
<1> QED
  BY <1>1, <1>2

\* One more line is read.
LEMMA ReadNext ==
  ASSUME NEW n \in Nat, Read(n), file' = file, Meaningful(file[n + 1]),
         \/ file[n + 1].name \notin Options /\ config' = config
         \/ config' = [config EXCEPT ![file[n + 1].name] = Value(file[n + 1])]
  PROVE  ReadIn(file', config', n + 1)
<1> DEFINE line == file[n + 1]
<1>1. config = [opt \in Options |-> SaidIn(file, opt, n)]
  BY DEF Read, ReadIn
<1>2. \A opt \in Options :
        SaidIn(file, opt, n + 1) = IF line.name = opt THEN Value(line) ELSE SaidIn(file, opt, n)
  BY SaidNext
<1>3. config' = [opt \in Options |-> SaidIn(file, opt, n + 1)]
  <2> HIDE DEF line
  <2>1. CASE line.name \notin Options /\ config' = config
    BY <1>1, <1>2, <2>1
  <2>2. CASE config' = [config EXCEPT ![line.name] = Value(line)]
    <3>1. config' = [opt \in Options |-> IF opt = line.name THEN Value(line) ELSE SaidIn(file, opt, n)]
      BY <1>1, <2>2
    <3> QED
      BY <1>2, <3>1
  <2> QED
    BY <2>1, <2>2 DEF line
<1>4. ASSUME NEW k \in 1..(n + 1) PROVE Meaningful(file[k])
  <2>1. k \in 1..n \/ k = n + 1
    OBVIOUS
  <2> QED
    BY <2>1 DEF Read, ReadIn
<1> QED
  BY <1>3, <1>4 DEF Read, ReadIn

\* Lines without a character say nothing, so that it is enough to read the
\* others.
LEMMA ReadRest ==
  ASSUME FileType, NEW n \in 0..Len(file), Read(n),
         \A k \in (n + 1)..Len(file) : LineSize(file[k]) = 0
  PROVE  Read(Len(file))
<1> DEFINE N == Len(file)
<1>1. N \in Nat /\ n \in Nat /\ n <= N /\ \A k \in 1..N : file[k] \in Lines
  BY DEF FileType
<1>2. ASSUME NEW k \in (n + 1)..N PROVE file[k].name \notin Options /\ Meaningful(file[k])
  <2>1. file[k] \in Lines /\ LineSize(file[k]) = 0
    BY <1>1
  <2>2. file[k].size = 0 /\ file[k].name = ""
    BY <2>1, LineFacts
  <2>3. "" \notin Options
    BY DEF Options, IntOptions, BoolOptions, StrOptions
  <2>4. Meaningful(file[k])
    <3>1. ~(LineSize(file[k]) > 0)
      BY <2>1
    <3> QED
      BY <3>1 DEF Meaningful
  <2> QED
    BY <2>2, <2>3, <2>4
<1>3. ASSUME NEW opt \in Options PROVE SaidIn(file, opt, N) = SaidIn(file, opt, n)
  <2>1. {k \in 1..N : file[k].name = opt} = {k \in 1..n : file[k].name = opt}
    <3>1. ASSUME NEW k \in 1..N, file[k].name = opt PROVE k \in 1..n
      <4>1. k \notin (n + 1)..N
        BY <1>2, <3>1
      <4> QED
        BY <1>1, <4>1
    <3>2. 1..n \subseteq 1..N
      BY <1>1
    <3> QED
      BY <3>1, <3>2
  <2> QED
    BY <2>1 DEF SaidIn
<1>4. ASSUME NEW k \in 1..N PROVE Meaningful(file[k])
  <2>1. k \in 1..n \/ k \in (n + 1)..N
    BY <1>1
  <2> QED
    BY <1>2, <2>1 DEF Read, ReadIn
<1>5. config = [opt \in Options |-> SaidIn(file, opt, N)]
  BY <1>3 DEF Read, ReadIn
<1> QED
  BY <1>4, <1>5 DEF Read, ReadIn

\* When the loop of parse_config ends, the lines it has not read are empty.
LEMMA LoopEnd ==
  ASSUME FileType, Position, ~More, length > 0
  PROVE  /\ LinesRead \in 0..Len(file)
         /\ \A k \in (LinesRead + 1)..Len(file) : LineSize(file[k]) = 0
<1> DEFINE h == Starts(file)
           n == Len(file)
           p == linenum - 1
<1>1. /\ n \in Nat /\ length \in Nat /\ h \in [0..n -> Nat] /\ h[n] <= length + 1
  BY LengthIs
<1>2. ~(start < length)
  BY DEF More
<1>3. ~(linenum = 0 /\ start = 0)
  BY <1>1, <1>2
<1>4. linenum \in 1..(n + 1) /\ length <= start /\ start = h[p]
  BY <1>2, <1>3 DEF Position
<1>5. p \in 0..n /\ linenum > 0
  BY <1>1, <1>4
<1>6. h[p] \in Nat /\ h[n] \in Nat
  BY <1>1, <1>5
<1>7. LinesRead = p
  <2>1. start >= length
    BY <1>1, <1>4, <1>6
  <2> QED
    BY <1>5, <2>1 DEF LinesRead
<1>8. ASSUME NEW k \in (p + 1)..n PROVE LineSize(file[k]) = 0
  <2>1. k \in 1..n /\ k \in 0..n /\ k - 1 \in 0..n /\ p <= k - 1 /\ n \in 0..n /\ k <= n
    BY <1>1, <1>5
  <2>2. LineSize(file[k]) \in Nat /\ h[k] = h[k - 1] + LineSize(file[k]) + 1
    BY <2>1, StartsIs DEF FileType
  <2>3. h[p] + ((k - 1) - p) <= h[k - 1]
    BY <1>5, <2>1, StartsGrow DEF FileType
  <2>4. h[k] + (n - k) <= h[n]
    BY <2>1, StartsGrow DEF FileType
  <2>5. h[k] \in Nat /\ h[k - 1] \in Nat
    BY <1>1, <2>1
  <2> HIDE DEF h, n, p
  <2>6. h[n] <= h[p] + 1
    BY <1>1, <1>4, <1>6
  <2>7. p \in Nat /\ k \in Nat /\ n \in Nat /\ p + 1 <= k /\ k <= n
    BY <1>1, <1>5, <2>1
  <2>8. h[p] + ((k - 1) - p) + LineSize(file[k]) + 1 + (n - k) <= h[n]
    BY <1>6, <2>2, <2>3, <2>4, <2>5, <2>7
  <2> QED
    BY <1>6, <2>2, <2>6, <2>7, <2>8
<1> QED
  BY <1>5, <1>7, <1>8

-----------------------------------------------------------------------------

\* A file without a character has no line with one.
LEMMA EmptyFile ==
  ASSUME FileType, length = 0, NEW k \in 1..Len(file)
  PROVE  LineSize(file[k]) = 0
<1> DEFINE h == Starts(file)
           n == Len(file)
<1>1. /\ n \in Nat /\ h \in [0..n -> Nat] /\ h[n] <= length + 1
  BY LengthIs
<1>2. k \in 0..n /\ k - 1 \in 0..n /\ n \in 0..n /\ k <= n /\ k \in Nat
  BY <1>1
<1>3. LineSize(file[k]) \in Nat /\ h[k] = h[k - 1] + LineSize(file[k]) + 1
  BY StartsIs DEF FileType
<1>4. h[k] + (n - k) <= h[n]
  BY <1>2, StartsGrow DEF FileType
<1>5. h[k] \in Nat /\ h[k - 1] \in Nat /\ h[n] \in Nat
  BY <1>1, <1>2
<1> HIDE DEF h, n
<1>6. h[n] <= 1
  BY <1>1, <1>5
<1> QED
  BY <1>1, <1>2, <1>3, <1>4, <1>5, <1>6, SMTT(30)

LEMMA InitInv == Init => Inv
<1> SUFFICES ASSUME Init PROVE Inv
  OBVIOUS
<1>1. FileType
  <2>1. PICK n \in 0..MaxLines : file \in [1..n -> Lines]
    BY DEF Init
  <2>2. n \in Nat
    BY ConfigAssumption
  <2> QED
    BY <2>1, <2>2 DEF Init, FileType
<1>2. PcType /\ Position
  BY DEF Init, PcType, Position
<1>3. ConfigType
  <2>1. DOMAIN Defaults = Options
    BY DEF Defaults, Options, IntOptions, BoolOptions, StrOptions
  <2>2. \A opt \in IntOptions : Defaults[opt] \in (-INT_MAX - 1)..INT_MAX
    <3>1. INT_MAX \in Nat \ {0} /\ MAX_PORT \in 0..INT_MAX
      BY ConfigAssumption
    <3>2. /\ Defaults["LocalPort"] = MAX_PORT /\ Defaults["PasvPortStart"] = 1
          /\ Defaults["PasvPortEnd"] = MAX_PORT /\ Defaults["TransferRate"] = -1
      BY DEF Defaults
    <3> QED
      BY <3>1, <3>2 DEF IntOptions
  <2>3. \A opt \in BoolOptions : Defaults[opt] \in BOOLEAN
    <3>1. Defaults["AllowAnonymous"] = TRUE /\ Defaults["LogToSyslog"] = FALSE
      BY Zenon DEF Defaults
    <3> QED
      BY <3>1, Zenon DEF BoolOptions
  <2> QED
    BY <2>1, <2>2, <2>3 DEF Init, ConfigType
<1>4. BufferType
  BY ConfigAssumption DEF Init, BufferType
<1>5. PoolType
  BY DEF Init, PoolType
<1>6. Meaning
  <2>1. LinesRead = 0
    BY DEF Init, LinesRead
  <2>2. \A opt \in Options : SaidIn(file, opt, 0) = Defaults[opt]
    BY DEF SaidIn
  <2>3. Defaults = [opt \in Options |-> Defaults[opt]]
    BY DEF Defaults, Options, IntOptions, BoolOptions, StrOptions
  <2>4. config = [opt \in Options |-> SaidIn(file, opt, 0)]
    BY <2>2, <2>3 DEF Init
  <2>5. Read(0)
    BY <2>4 DEF Read, ReadIn
  <2> QED
    BY <2>1, <2>5 DEF Init, Meaning, Checked
<1> QED
  BY <1>1, <1>2, <1>3, <1>4, <1>5, <1>6 DEF Inv

-----------------------------------------------------------------------------

\* What depends on the file, the parser and the configuration only.
Reading == FileType /\ ConfigType /\ BufferType /\ Position

\* Most steps leave all of that alone.
LEMMA Frame ==
  ASSUME Reading, UNCHANGED <<fileVars, config, parseVars>>
  PROVE  /\ Reading' /\ length' = length /\ Len(file)' = Len(file)
         /\ linenum' = linenum
         /\ Read(LinesRead)' = Read(LinesRead) /\ Read(Len(file))' = Read(Len(file))
         /\ Sane(config)' = Sane(config)
<1>1. /\ file' = file /\ newline' = newline /\ config' = config
      /\ linenum' = linenum /\ start' = start /\ end' = end
      /\ tmplen' = tmplen /\ written' = written
  BY DEF fileVars, parseVars
<1>2. length' = length
  BY SameLength
<1>3. FileType' /\ BufferType'
  BY <1>1 DEF Reading, FileType, BufferType
<1>4. ConfigType'
  BY <1>1, Zenon DEF Reading, ConfigType
<1>5. Position'
  BY <1>1, <1>2, Zenon DEF Reading, Position
<1>6. LinesRead' = LinesRead
  BY <1>1, <1>2 DEF LinesRead
<1>7. Read(LinesRead)' = Read(LinesRead) /\ Read(Len(file))' = Read(Len(file))
  BY <1>1, <1>6, Zenon DEF Read
<1>8. Sane(config)' = Sane(config)
  BY <1>1, Zenon
<1> QED
  BY <1>1, <1>2, <1>3, <1>4, <1>5, <1>7, <1>8 DEF Reading

LEMMA InvIs == Inv <=> Reading /\ PcType /\ PoolType /\ Meaning
  BY DEF Inv, Reading

\* A step of main that leaves the configuration alone; what it calls next may
\* rely on no more than is known.
LEMMA MainStep ==
  ASSUME Inv, UNCHANGED <<fileVars, config, parseVars>>, PcType', PoolType',
         pc' \in {"parse_args", "load_config"} => linenum = 0,
         pc' = "parse_config" => length > 0,
         pc' \in Loading => Read(LinesRead),
         pc' \in Checked \cup {"check_config"} => Read(Len(file)),
         pc' \in Checked => (length > 0 => Sane(config))
  PROVE  Inv'
<1>1. /\ Reading' /\ length' = length /\ linenum' = linenum
      /\ Read(LinesRead)' = Read(LinesRead) /\ Read(Len(file))' = Read(Len(file))
      /\ Sane(config)' = Sane(config)
  BY Frame, InvIs
<1>2. Meaning'
  BY <1>1 DEF Meaning
<1>3. Inv' <=> (Reading' /\ PcType' /\ PoolType' /\ Meaning')
  BY DEF Inv, Reading
<1> QED
  BY <1>1, <1>2, <1>3

\* The program ends.
LEMMA EndOfMain ==
  ASSUME Inv, UNCHANGED <<fileVars, config, parseVars, mainVars>>, pc' \in {"exit", "crashed"}
  PROVE  Inv'
<1>1. PcType' /\ PoolType'
  BY DEF Inv, PcType, PoolType, mainVars
<1> QED
  BY <1>1, MainStep DEF Loading, Checked

LEMMA LoadInv ==
  ASSUME Inv, LoadConfig
  PROVE  Inv'
<1>1. /\ pc = "load_config" /\ UNCHANGED <<fileVars, config, parseVars, mainVars>>
      /\ pc' = IF length = 0 THEN "init_command_pool" ELSE "parse_config"
  BY DEF LoadConfig
<1>2. PcType' /\ PoolType'
  BY <1>1 DEF Inv, PcType, PoolType, mainVars
<1>3. FileType /\ linenum = 0 /\ Read(LinesRead)
  BY <1>1 DEF Inv, Meaning, Loading
<1>4. length \in Nat /\ Len(file) \in Nat
  BY <1>3, LengthIs
<1>5. length = 0 => Read(Len(file))
  <2> SUFFICES ASSUME length = 0 PROVE Read(Len(file))
    OBVIOUS
  <2>1. LinesRead = 0 /\ 0 \in 0..Len(file)
    BY <1>3, <1>4 DEF LinesRead
  <2>2. \A k \in (0 + 1)..Len(file) : LineSize(file[k]) = 0
    BY <1>3, EmptyFile
  <2> QED
    BY <1>3, <2>1, <2>2, ReadRest
<1> QED
  BY <1>1, <1>2, <1>3, <1>4, <1>5, MainStep DEF Loading, Checked

\* parse_config comes to its end.
LEMMA ParsedAllInv ==
  ASSUME Inv, ParsedAll
  PROVE  Inv'
<1>1. /\ pc = "parse_config" /\ ~More /\ pc' = "check_config"
      /\ UNCHANGED <<fileVars, config, parseVars, mainVars>>
  BY DEF ParsedAll
<1>2. PcType' /\ PoolType'
  BY <1>1 DEF Inv, PcType, PoolType, mainVars
<1>3. FileType /\ Position /\ length > 0 /\ Read(LinesRead)
  BY <1>1 DEF Inv, Meaning, Loading
<1>4. /\ LinesRead \in 0..Len(file)
      /\ \A k \in (LinesRead + 1)..Len(file) : LineSize(file[k]) = 0
  BY <1>1, <1>3, LoopEnd
<1>5. Read(Len(file))
  BY <1>3, <1>4, ReadRest
<1> QED
  BY <1>1, <1>2, <1>5, MainStep DEF Loading, Checked

LEMMA CheckInv ==
  ASSUME Inv, CheckConfig
  PROVE  Inv'
<1>1. /\ pc = "check_config" /\ UNCHANGED <<fileVars, config, parseVars>>
      /\ UNCHANGED mainVars
      /\ \/ check_config(config) /\ pc' = "init_command_pool"
         \/ pc' = "exit"
  BY DEF CheckConfig, Fail
<1>2. CASE pc' = "exit"
  BY <1>1, <1>2, EndOfMain
<1>3. CASE check_config(config) /\ pc' = "init_command_pool"
  <2>1. PcType' /\ PoolType'
    BY <1>1, <1>3 DEF Inv, PcType, PoolType, mainVars
  <2>2. Read(Len(file))
    BY <1>1 DEF Inv, Meaning
  <2>3. Sane(config)
    <3>1. MAX_PORT \in Nat
      BY ConfigAssumption
    <3>2. /\ config.LocalPort \in 0..MAX_PORT
          /\ config.PasvPortStart \in 0..MAX_PORT /\ config.PasvPortEnd \in 0..MAX_PORT
          /\ config.PasvPortStart <= config.PasvPortEnd
      BY <1>3 DEF check_config
    <3>3. 0 <= config.PasvPortStart /\ config.PasvPortEnd <= MAX_PORT
      BY <3>1, <3>2
    <3>4. config.AllowAnonymous => config.AnonRootDir # "NULL"
      BY <1>3, Zenon DEF check_config
    <3> QED
      BY <3>2, <3>3, <3>4, Zenon DEF Sane
  <2> QED
    BY <1>1, <1>3, <2>1, <2>2, <2>3, MainStep DEF Loading, Checked
<1> QED
  BY <1>1, <1>2, <1>3

\* A line that is empty, or a comment, changes nothing.
LEMMA SkipInv ==
  ASSUME Inv, Skip
  PROVE  Inv'
<1>1. /\ pc = "parse_config" /\ pc' = pc /\ UNCHANGED mainVars /\ AtLine /\ NextLine
      /\ LineSize(Current) = 0 \/ Comment(Current)
      /\ config' = config /\ tmplen' = tmplen /\ written' = written
  BY DEF Skip, SkipLine
<1>2. FileType /\ Position /\ length > 0 /\ Read(LinesRead)
  BY <1>1 DEF Inv, Meaning, Loading
<1>3. Position' /\ LinesRead = linenum /\ LinesRead' = linenum + 1 /\ length' = length
  BY <1>1, <1>2, LineStep
<1>4. linenum + 1 \in 1..Len(file) /\ Current \in Lines /\ Current = file[linenum + 1]
  BY <1>1, <1>2, LineHere
<1>5. file' = file /\ newline' = newline
  BY <1>1 DEF NextLine, fileVars
<1>6. Current.name \notin Options /\ Meaningful(Current)
  <2>1. "" \notin Options /\ "#" \notin Options
    BY DEF Options, IntOptions, BoolOptions, StrOptions
  <2>2. CASE LineSize(Current) = 0
    <3>1. Current.name = ""
      BY <1>4, <2>2, LineFacts
    <3>2. ~(LineSize(Current) > 0)
      BY <2>2
    <3> QED
      BY <2>1, <3>1, <3>2 DEF Meaningful
  <2>3. CASE Comment(Current)
    BY <2>1, <2>3 DEF Comment, Meaningful
  <2> QED
    BY <1>1, <2>2, <2>3
<1>7. linenum \in Nat
  BY <1>1, <1>2, Here, LengthIs DEF AtLine
<1>8. ReadIn(file', config', linenum + 1)
  BY <1>1, <1>2, <1>3, <1>4, <1>5, <1>6, <1>7, ReadNext
<1>9. Read(LinesRead)'
  BY <1>3, <1>8 DEF Read
<1>10. FileType' /\ BufferType' /\ PcType' /\ PoolType'
  BY <1>1, <1>5 DEF Inv, FileType, BufferType, PcType, PoolType, mainVars
<1>11. ConfigType'
  BY <1>1, Zenon DEF Inv, ConfigType
<1>12. Meaning'
  BY <1>1, <1>2, <1>3, <1>9 DEF Meaning, Checked
<1> QED
  BY <1>3, <1>10, <1>11, <1>12 DEF Inv

\* The buffer holds a line of n characters and the 0 behind it.
LEMMA GrowFits ==
  ASSUME NEW size \in Nat \ {0}, NEW n \in Nat
  PROVE  Grow(size, n) \in Nat \ {0} /\ n + 1 \in 0..Grow(size, n)
  BY DEF Grow

\* A line that is copied and parsed: what that does to the parser.
LEMMA ParseFrame ==
  ASSUME Inv, pc = "parse_config", NEW result, ParseLine(result)
  PROVE  /\ FileType' /\ ConfigType' /\ BufferType' /\ Position'
         /\ LinesRead = linenum /\ LinesRead' = linenum + 1 /\ length' = length
         /\ file' = file /\ linenum \in Nat
         /\ Current \in Lines /\ Current = file[linenum + 1]
         /\ result = parse_attribute(Current) /\ config' = Assigned(config, Current)
<1>1. /\ AtLine /\ NextLine /\ tmplen' = Grow(tmplen, LineSize(Current))
      /\ written' = LineSize(Current) + 1
      /\ result = parse_attribute(Current) /\ config' = Assigned(config, Current)
  BY DEF ParseLine
<1>2. FileType /\ Position /\ ConfigType /\ BufferType
  BY DEF Inv
<1>3. Position' /\ LinesRead = linenum /\ LinesRead' = linenum + 1 /\ length' = length
  BY <1>1, <1>2, LineStep
<1>4. Current \in Lines /\ Current = file[linenum + 1]
  BY <1>1, <1>2, LineHere
<1>5. file' = file /\ newline' = newline
  BY <1>1 DEF NextLine, fileVars
<1>6. linenum \in Nat
  BY <1>1, <1>2, Here, LengthIs DEF AtLine
<1>7. ConfigType'
  BY <1>1, <1>2, <1>4, AssignedType
<1>8. LineSize(Current) \in Nat
  BY <1>4, LineFacts
<1>9. BufferType'
  BY <1>1, <1>2, <1>8, GrowFits DEF BufferType
<1>10. FileType'
  BY <1>2, <1>5 DEF FileType
<1> QED
  BY <1>1, <1>3, <1>4, <1>5, <1>6, <1>7, <1>9, <1>10

\* A line that is understood.
LEMMA ParseInv ==
  ASSUME Inv, Parse
  PROVE  Inv'
<1>1. /\ pc = "parse_config" /\ pc' = pc /\ UNCHANGED mainVars
      /\ ParseLine("FTP_PARSER_SUCCESS")
  BY DEF Parse
<1>2. /\ FileType' /\ ConfigType' /\ BufferType' /\ Position'
      /\ LinesRead = linenum /\ LinesRead' = linenum + 1 /\ length' = length
      /\ file' = file /\ linenum \in Nat
      /\ Current \in Lines /\ Current = file[linenum + 1]
      /\ parse_attribute(Current) = "FTP_PARSER_SUCCESS"
      /\ config' = Assigned(config, Current)
  <2>1. "FTP_PARSER_SUCCESS" = parse_attribute(Current)
    BY <1>1, ParseFrame
  <2> QED
    BY <1>1, <2>1, ParseFrame
<1>3. length > 0 /\ Read(LinesRead)
  BY <1>1 DEF Inv, Meaning, Loading
<1>4. config' = IF Current.name \in Options
                THEN [config EXCEPT ![Current.name] = Value(Current)] ELSE config
  BY <1>2, AssignedIs
<1>5. Meaningful(Current)
  <2>1. (Current.size = 0 /\ Current.name = "") \/ Accepted(Current)
    BY <1>2, ParsesWell
  <2>2. CASE Current.size = 0
    <3>1. ~(Current.size > 0)
      BY <2>2
    <3> QED
      BY <3>1 DEF Meaningful
  <2>3. CASE Accepted(Current)
    BY <2>3 DEF Meaningful, Accepted
  <2> QED
    BY <2>1, <2>2, <2>3
<1>6. ReadIn(file', config', linenum + 1)
  <2>1. \/ Current.name \notin Options /\ config' = config
        \/ config' = [config EXCEPT ![Current.name] = Value(Current)]
    BY <1>4
  <2> QED
    BY <1>2, <1>3, <1>5, <2>1, ReadNext
<1>7. Read(LinesRead)'
  BY <1>2, <1>6 DEF Read
<1>8. PcType' /\ PoolType'
  BY <1>1 DEF Inv, PcType, PoolType, mainVars
<1>9. Meaning'
  BY <1>1, <1>2, <1>3, <1>7 DEF Meaning, Checked
<1> QED
  BY <1>2, <1>8, <1>9 DEF Inv

\* A line that is not.
LEMMA RefuseInv ==
  ASSUME Inv, Refuse
  PROVE  Inv'
<1>1. pc = "parse_config" /\ pc' = "exit" /\ UNCHANGED mainVars /\ \E result : ParseLine(result)
  BY DEF Refuse, Fail
<1>2. FileType' /\ ConfigType' /\ BufferType' /\ Position'
  BY <1>1, ParseFrame
<1>3. PcType' /\ PoolType'
  BY <1>1 DEF Inv, PcType, PoolType, mainVars
<1>4. Meaning'
  BY <1>1 DEF Meaning, Checked, Loading
<1> QED
  BY <1>2, <1>3, <1>4 DEF Inv

LEMMA LookPastInv ==
  ASSUME Inv, LookPast
  PROVE  Inv'
<1>1. /\ pc = "parse_config" /\ pc' = pc /\ UNCHANGED mainVars /\ LookPastEnd
      /\ UNCHANGED fileVars /\ config' = config /\ tmplen' = tmplen /\ written' = written
  BY DEF LookPast, LookPastEnd
<1>2. FileType /\ Position /\ length > 0 /\ Read(LinesRead)
  BY <1>1 DEF Inv, Meaning, Loading
<1>3. Position' /\ LinesRead' = LinesRead /\ length' = length
  BY <1>1, <1>2, EndStep
<1>4. file' = file /\ newline' = newline
  BY <1>1 DEF fileVars
<1>5. FileType' /\ BufferType' /\ PcType' /\ PoolType'
  BY <1>1, <1>4 DEF Inv, FileType, BufferType, PcType, PoolType, mainVars
<1>6. ConfigType'
  BY <1>1, Zenon DEF Inv, ConfigType
<1>7. Read(LinesRead)'
  BY <1>1, <1>2, <1>3, <1>4 DEF Read
<1>8. Meaning'
  BY <1>1, <1>2, <1>3, <1>7 DEF Meaning, Checked
<1> QED
  BY <1>3, <1>5, <1>6, <1>8 DEF Inv

-----------------------------------------------------------------------------

\* From one call of main to the next, with the configuration as it is.
LEMMA CheckedStep ==
  ASSUME Inv, pc \in Checked, pc' \in Checked, PoolType',
         UNCHANGED <<fileVars, config, parseVars>>
  PROVE  Inv'
<1>1. Read(Len(file)) /\ (length > 0 => Sane(config))
  BY DEF Inv, Meaning
<1>2. PcType'
  BY DEF PcType, Checked
<1> QED
  BY <1>1, <1>2, MainStep DEF Checked, Loading

\* The pool is doubled before it overflows.
LEMMA AddInv ==
  ASSUME Inv, add_command
  PROVE  Inv'
<1> DEFINE n == Len(command_pool)
           R == Range(CommandList)
<1>1. /\ pc = "init_core_commands" /\ pc' = pc /\ n < Len(CommandList)
      /\ command_pool_size' = IF Full(n, command_pool_size)
                              THEN 2 * command_pool_size ELSE command_pool_size
      /\ command_pool' = Append(command_pool, CommandList[n + 1])
      /\ UNCHANGED <<fileVars, config, parseVars>>
  BY DEF add_command
<1>2. /\ command_pool \in Seq(R) /\ command_pool_size \in Nat \ {0}
      /\ n <= command_pool_size
  BY <1>1 DEF Inv, PoolType
<1>3. n \in Nat /\ n + 1 \in 1..Len(CommandList) /\ DOMAIN CommandList = 1..Len(CommandList)
  BY <1>1, <1>2, StartupAssumption
<1>4. CommandList[n + 1] \in R
  BY <1>3 DEF Range
<1> HIDE DEF R
<1>5. command_pool' \in Seq(R) /\ Len(command_pool') = n + 1
  BY <1>1, <1>2, <1>4
<1>6. /\ command_pool_size' \in Nat /\ n + 1 <= command_pool_size' /\ 0 < command_pool_size'
  BY <1>1, <1>2, <1>3 DEF Full
<1>7. PoolType'
  BY <1>1, <1>5, <1>6 DEF PoolType, R
<1> QED
  BY <1>1, <1>7, CheckedStep DEF Checked

\* Sorting leaves the commands in the pool, and its size.
LEMMA SortInv ==
  ASSUME Inv, sort_commands
  PROVE  Inv'
<1> DEFINE n == Len(command_pool)
           R == Range(CommandList)
<1>1. /\ pc = "init_core_commands" /\ pc' = "init_masterserver"
      /\ n = Len(CommandList) /\ command_pool_size' = command_pool_size
      /\ UNCHANGED <<fileVars, config, parseVars>>
  BY DEF sort_commands
<1>2. PICK order \in Orders :
        command_pool' = [i \in DOMAIN order |-> command_pool[order[i]]]
  BY DEF sort_commands
<1>3. /\ command_pool \in Seq(R) /\ command_pool_size \in Nat /\ n <= command_pool_size
  BY DEF Inv, PoolType
<1>4. n \in Nat /\ DOMAIN CommandList = 1..n
  BY <1>1, <1>3, StartupAssumption
<1>5. order \in [1..n -> 1..n]
  BY <1>4 DEF Orders, Bijection, Injection
<1> HIDE DEF R
<1>6. command_pool' \in [1..n -> R]
  <2>1. \A i \in 1..n : command_pool[i] \in R
    BY <1>3
  <2> QED
    BY <1>2, <1>5, <2>1
<1>7. command_pool' \in Seq(R) /\ Len(command_pool') = n
  <2> HIDE DEF n
  <2> QED
    BY <1>4, <1>6
<1>8. PoolType'
  BY <1>1, <1>3, <1>7 DEF PoolType, R
<1> QED
  BY <1>1, <1>8, CheckedStep DEF Checked

\* destroy_command_pool and unload_config.
LEMMA ShutdownInv ==
  ASSUME Inv, Shutdown
  PROVE  Inv'
<1>1. /\ pc' = "returned" /\ command_pool' = <<>> /\ command_pool_size' = 0
      /\ UNCHANGED <<fileVars, parseVars>>
      /\ config' = [opt \in Options |->
                      IF opt \in StrOptions THEN "NULL" ELSE config[opt]]
  BY DEF Shutdown
<1>2. ConfigType'
  <2>1. \A opt \in IntOptions \cup BoolOptions : opt \in Options /\ opt \notin StrOptions
    BY DEF Options, IntOptions, BoolOptions, StrOptions
  <2>2. \A opt \in IntOptions \cup BoolOptions : config'[opt] = config[opt]
    BY <1>1, <2>1
  <2>3. DOMAIN config' = Options
    BY <1>1
  <2>4. ConfigType
    BY DEF Inv
  <2> QED
    BY <2>2, <2>3, <2>4, Zenon DEF ConfigType
<1>3. /\ file' = file /\ newline' = newline /\ linenum' = linenum /\ start' = start
      /\ end' = end /\ tmplen' = tmplen /\ written' = written
  BY <1>1 DEF fileVars, parseVars
<1>4. length' = length
  BY <1>1, SameLength
<1>5. FileType' /\ BufferType'
  BY <1>3 DEF Inv, FileType, BufferType
<1>6. Position'
  BY <1>3, <1>4, Zenon DEF Inv, Position
<1>7. PcType' /\ PoolType'
  BY <1>1 DEF PcType, PoolType
<1>8. Meaning'
  BY <1>1 DEF Meaning, Loading, Checked
<1> QED
  BY <1>2, <1>5, <1>6, <1>7, <1>8 DEF Inv

LEMMA StepInv == Inv /\ [Next]_vars => Inv'
<1> SUFFICES ASSUME Inv, [Next]_vars PROVE Inv'
  OBVIOUS
<1>1. CASE UNCHANGED vars
  <2>1. /\ UNCHANGED <<fileVars, config, parseVars>> /\ pc' = pc /\ UNCHANGED mainVars
    BY <1>1 DEF vars
  <2>2. PcType' /\ PoolType'
    BY <2>1 DEF Inv, PcType, PoolType, mainVars
  <2> QED
    BY <2>1, <2>2, MainStep DEF Inv, Meaning
<1>2. CASE ParseArgs
  <2>1. /\ pc = "parse_args" /\ pc' \in {"load_config", "exit"} /\ UNCHANGED mainVars
        /\ UNCHANGED <<fileVars, config, parseVars>>
    BY <1>2 DEF ParseArgs, Fail
  <2>2. PcType' /\ PoolType'
    BY <2>1 DEF Inv, PcType, PoolType, mainVars
  <2> QED
    BY <2>1, <2>2, MainStep DEF Inv, Meaning, Loading, Checked
<1>3. CASE LoadConfig
  BY <1>3, LoadInv
<1>4. CASE Skip
  BY <1>4, SkipInv
<1>5. CASE Parse
  BY <1>5, ParseInv
<1>6. CASE Refuse
  BY <1>6, RefuseInv
<1>7. CASE LookPast
  BY <1>7, LookPastInv
<1>8. CASE LookPastMapping
  BY <1>8, EndOfMain DEF LookPastMapping
<1>9. CASE ParsedAll
  BY <1>9, ParsedAllInv
<1>10. CASE CheckConfig
  BY <1>10, CheckInv
<1>11. CASE init_command_pool
  <2>1. PoolType'
    BY <1>11, StartupAssumption DEF init_command_pool, Inv, PoolType
  <2> QED
    BY <1>11, <2>1, CheckedStep DEF init_command_pool, Checked
<1>12. CASE add_command
  BY <1>12, AddInv
<1>13. CASE sort_commands
  BY <1>13, SortInv
<1>14. CASE init_masterserver
  <2>1. PoolType'
    BY <1>14 DEF init_masterserver, Inv, PoolType, mainVars
  <2> QED
    BY <1>14, <2>1, CheckedStep DEF init_masterserver, Checked
<1>15. CASE Shutdown
  BY <1>15, ShutdownInv
<1>16. CASE Fault
  <2>1. UNCHANGED <<fileVars, config, parseVars, mainVars>> /\ pc' = "exit"
    BY <1>16 DEF Fault, Fail, LoadConfigFails, ParseNoMemory, init_command_pool_fails,
                 add_command_fails, init_masterserver_fails
  <2> QED
    BY <2>1, EndOfMain
<1>17. CASE Done
  BY <1>1, <1>17 DEF Done
<1> QED
  BY <1>1, <1>2, <1>3, <1>4, <1>5, <1>6, <1>7, <1>8, <1>9, <1>10, <1>11, <1>12, <1>13,
     <1>14, <1>15, <1>16, <1>17 DEF Next, LoadStep

-----------------------------------------------------------------------------

\* The positions of the parser that Position allows lie in the file, or one
\* or two characters behind it.
LEMMA PositionBounds ==
  ASSUME FileType, Position
  PROVE  /\ linenum \in 0..(Len(file) + 1)
         /\ start \in 0..(length + 1) /\ end \in (-1)..(length + 1)
<1> DEFINE h == Starts(file)
           n == Len(file)
<1>1. n \in Nat /\ length \in Nat /\ h \in [0..n -> Nat] /\ h[n] <= length + 1
  BY LengthIs
<1>2. ASSUME NEW k \in 0..n PROVE h[k] \in Nat /\ h[k] <= length + 1
  <2>1. n \in 0..n /\ k <= n /\ k \in Nat
    BY <1>1
  <2>2. h[k] + (n - k) <= h[n]
    BY <2>1, StartsGrow DEF FileType
  <2>3. h[k] \in Nat /\ h[n] \in Nat
    BY <1>1, <2>1
  <2> HIDE DEF h, n
  <2> QED
    BY <1>1, <2>1, <2>2, <2>3
<1> HIDE DEF h, n
<1>3. CASE linenum = 0 /\ start = 0 /\ end = -1
  BY <1>1, <1>3 DEF n
<1>4. CASE linenum \in 1..n /\ start = h[linenum - 1] /\ end = h[linenum] - 1
  <2>1. linenum - 1 \in 0..n /\ linenum \in 0..n
    BY <1>1, <1>4
  <2>2. start \in Nat /\ start <= length + 1 /\ h[linenum] \in Nat /\ h[linenum] <= length + 1
    BY <1>2, <1>4, <2>1
  <2> QED
    BY <1>1, <1>4, <2>2 DEF n
<1>5. CASE linenum \in 1..(n + 1) /\ start = h[linenum - 1] /\ end = start
  <2>1. linenum - 1 \in 0..n
    BY <1>1, <1>5
  <2>2. start \in Nat /\ start <= length + 1
    BY <1>2, <1>5, <2>1
  <2> QED
    BY <1>1, <1>5, <2>2 DEF n
<1> QED
  BY <1>3, <1>4, <1>5 DEF Position, h, n

\* parse_config stays in its buffer and in the file but for one or two
\* characters, add_command stays in the pool, and every option has its type:
\* for any file, any initial sizes and any list of commands.
THEOREM StartupTypeOK == Spec => []TypeOK
<1>1. Inv => TypeOK
  <2> SUFFICES ASSUME Inv PROVE TypeOK
    OBVIOUS
  <2>1. /\ linenum \in 0..(Len(file) + 1)
        /\ start \in 0..(length + 1) /\ end \in (-1)..(length + 1)
    BY PositionBounds DEF Inv
  <2> QED
    BY <2>1, Zenon DEF Inv, TypeOK, FileType, ConfigType, BufferType, PcType, PoolType
<1> QED
  BY <1>1, InitInv, StepInv, PTL DEF Spec

\* The daemon runs with what the configuration file says, down to its last
\* line, and only if all of its lines mean something and make sense together:
\* for any file.
THEOREM StartupConfigMeansFile == Spec => []ConfigMeansFile
<1>1. Inv => ConfigMeansFile
  <2> SUFFICES ASSUME Inv, pc = "daemon_main"
               PROVE  /\ \A k \in 1..Len(file) : Meaningful(file[k])
                      /\ config = [opt \in Options |-> Said(opt)]
                      /\ length > 0 => Sane(config)
    BY DEF ConfigMeansFile
  <2>1. Read(Len(file)) /\ (length > 0 => Sane(config))
    BY DEF Inv, Meaning, Checked
  <2>2. \A opt \in Options : Said(opt) = SaidIn(file, opt, Len(file))
    BY DEF Said, SaidIn
  <2> QED
    BY <2>1, <2>2 DEF Read, ReadIn
<1> QED
  BY <1>1, InitInv, StepInv, PTL DEF Spec

-----------------------------------------------------------------------------

\* The multiples of a number that follow another one.
LEMMA RoundUp ==
  ASSUME NEW n \in Nat, NEW p \in Nat \ {0}
  PROVE  LET m == ((n + p - 1) \div p) * p
         IN  m \in Nat /\ n <= m /\ m % p = 0
<1> DEFINE a == n + p - 1
           q == a \div p
           r == a % p
<1>1. a \in Nat
  OBVIOUS
<1> HIDE DEF a
<1>2. q \in Nat /\ r \in 0..(p - 1) /\ a = p * q + r
  BY <1>1
<1> HIDE DEF q, r
<1>3. q * p = p * q /\ p * q \in Nat
  BY <1>2
<1>4. n <= q * p
  BY <1>2, <1>3 DEF a
<1>5. (q * p) % p = 0
  BY <1>2, <1>3
<1> QED
  BY <1>3, <1>4, <1>5 DEF q, a

\* Only LookPastMapping crashes, and it looks at most one character behind
\* the place where the newline character of the last line is or should be.
LEMMA StepCrash ==
  ASSUME Inv, CrashesOnlyAtPageEnd, [Next]_vars
  PROVE  CrashesOnlyAtPageEnd'
<1> SUFFICES ASSUME pc' = "crashed"
             PROVE  \/ length' % PAGE_SIZE = 0
                    \/ ~newline' /\ (length' + 1) % PAGE_SIZE = 0
  BY DEF CrashesOnlyAtPageEnd
<1>1. CASE pc = "crashed"
  <2>1. UNCHANGED vars
    BY <1>1 DEF Next, ParseArgs, LoadStep, LoadConfig, Skip, Parse, Refuse, LookPast,
                LookPastMapping, ParsedAll, CheckConfig, init_command_pool, add_command,
                sort_commands, init_masterserver, Shutdown, Fault, LoadConfigFails,
                ParseNoMemory, init_command_pool_fails, add_command_fails,
                init_masterserver_fails, Done
  <2>2. UNCHANGED fileVars /\ newline' = newline
    BY <2>1 DEF vars, fileVars
  <2>3. length' = length
    BY <2>2, SameLength
  <2> QED
    BY <1>1, <2>2, <2>3 DEF CrashesOnlyAtPageEnd
<1>2. CASE pc # "crashed"
  <2>1. LookPastMapping
    BY <1>2 DEF vars, Next, ParseArgs, LoadStep, LoadConfig, Skip, Parse, Refuse, LookPast,
                LookPastMapping, ParsedAll, CheckConfig, init_command_pool, add_command,
                sort_commands, init_masterserver, Shutdown, Fault, LoadConfigFails, Fail,
                ParseNoMemory, init_command_pool_fails, add_command_fails,
                init_masterserver_fails, Done
  <2>2. More /\ end + 1 >= Mapped /\ UNCHANGED fileVars /\ newline' = newline
    BY <2>1 DEF LookPastMapping, fileVars
  <2>3. length' = length
    BY <2>2, SameLength
  <2>4. FileType /\ Position
    BY DEF Inv
  <2> DEFINE h == Starts(file)
             n == Len(file)
  <2>5. linenum \in 0..n /\ end + 1 = h[linenum]
    BY <2>2, <2>4, Here DEF NextStart
  <2>6. /\ n \in Nat /\ length \in Nat /\ h \in [0..n -> Nat] /\ h[n] <= length + 1
        /\ newline => length = h[n]
    BY <2>4, LengthIs
  <2>7. h[linenum] \in Nat /\ h[n] \in Nat /\ h[linenum] <= h[n]
    <3>1. n \in 0..n /\ linenum <= n /\ linenum \in Nat
      BY <2>5, <2>6
    <3>2. h[linenum] + (n - linenum) <= h[n]
      BY <2>4, <2>5, <3>1, StartsGrow DEF FileType
    <3>3. h[linenum] \in Nat /\ h[n] \in Nat
      BY <2>5, <2>6, <3>1
    <3> HIDE DEF h, n
    <3> QED
      BY <2>6, <3>1, <3>2, <3>3
  <2>8. Mapped \in Nat /\ length <= Mapped /\ Mapped % PAGE_SIZE = 0
    BY <2>6, RoundUp, ConfigAssumption DEF Mapped
  <2>9. Mapped <= h[linenum]
    BY <2>2, <2>5, <2>7, <2>8
  <2> HIDE DEF h, n
  <2>10. Mapped = length \/ (~newline /\ Mapped = length + 1)
    BY <2>6, <2>7, <2>8, <2>9
  <2> QED
    BY <2>2, <2>3, <2>8, <2>10
<1> QED
  BY <1>1, <1>2

\* Looking for one more line behind the end of the file ends the program only
\* if the file fills its last page, or lacks one newline character to do so:
\* for any size of a page and any file.
THEOREM StartupCrashes == Spec => []CrashesOnlyAtPageEnd
<1>1. Init => CrashesOnlyAtPageEnd
  BY DEF Init, CrashesOnlyAtPageEnd
<1> QED
  BY <1>1, InitInv, StepInv, StepCrash, PTL DEF Spec

=============================================================================
