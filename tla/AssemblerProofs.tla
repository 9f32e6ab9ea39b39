--------------------------- MODULE AssemblerProofs --------------------------
(***************************************************************************)
(* Proofs of the safety properties of Assembler, for every source file,    *)
(* capacity, table size and base address: first that the passes agree,     *)
(* then what the second leaves in the segments, and last that the two      *)
(* passes implement Assembly.  That part needs sums over sets of lines,    *)
(* the rest of the inductive invariant, the positions of the passes as the *)
(* sums that Assembly has for them, and the verdicts and the image.        *)
(*                                                                         *)
(* Behind them stand the theorems of Driver, the program around the passes *)
(* and writer32.  The theorems about the passes speak of behaviours of     *)
(* Assembler alone and use nothing of Driver.                              *)
(***************************************************************************)
EXTENDS Driver, AssemblerInvariant, AssemblerRefinement, FiniteSetTheorems, WellFoundedInduction, TLAPS

-----------------------------------------------------------------------------
(* Lines and tables                                                        *)

(* The line a pass reads is a line.                                        *)
LEMMA LineType ==
    ASSUME NEW f \in Seq(SourceLine), NEW i \in 1..Len(f)
    PROVE  /\ f[i] \in Line /\ WellFormedLine(f[i])
           /\ f[i].segment \in SegmentNames
           /\ f[i].label \in Labels \cup {NoLabel}
           /\ f[i].stmt \in Statement
           /\ f[i].stmt.n \in Nat
           /\ f[i].stmt.sym \in Labels \cup {NoLabel}
           /\ f[i].stmt.parse \in Errors /\ f[i].stmt.encode \in Errors
  <1>1. f[i] \in SourceLine
    OBVIOUS
  <1>2. f[i] \in Line /\ WellFormedLine(f[i])
    BY <1>1 DEF SourceLine
  <1>3. f[i].stmt \in Statement
    BY <1>2 DEF Line
  <1> QED
    BY <1>2, <1>3 DEF Line, Statement

(* No statement becomes more than two instructions.                        *)
LEMMA WordsType ==
    ASSUME NEW l \in Line, WellFormedLine(l)
    PROVE  Words(l.stmt) \in 0..2
  BY DEF Words, WellFormedLine, Line, Statement

(* Where names are unique, a name that is found has one entry, and the     *)
(* search of symtable_lookup ends there.                                   *)
LEMMA LookupType ==
    ASSUME NEW tbl \in Seq(Symbol(Labels)), NEW name \in Names(tbl),
           \A i, j \in DOMAIN tbl : tbl[i].name = tbl[j].name => i = j
    PROVE  symtable_lookup(tbl, name) \in Nat
  <1>1. PICK k \in DOMAIN tbl : tbl[k].name = name
    BY DEF Names
  <1> DEFINE First(i) == /\ tbl[i].name = name
                         /\ \A j \in DOMAIN tbl : j < i => tbl[j].name # name
             c == CHOOSE i \in DOMAIN tbl : First(i)
  <1>2. DOMAIN tbl \subseteq Nat
    OBVIOUS
  <1>3. First(k)
    BY <1>1, <1>2
  <1>4. c \in DOMAIN tbl
    BY <1>3
  <1>5. tbl[c] \in Symbol(Labels)
    BY <1>4
  <1>6. tbl[c].offset \in Nat
    BY <1>5 DEF Symbol
  <1> QED
    BY <1>6 DEF symtable_lookup

(* symtable_insert adds one entry and keeps names unique.                  *)
LEMMA InsertTable ==
    ASSUME NEW tbl \in Seq(Symbol(Labels)), NEW name \in Labels,
           NEW address \in Nat, NEW type \in SymTypes,
           symtable_accepts(tbl, name),
           \A i, j \in DOMAIN tbl : tbl[i].name = tbl[j].name => i = j
    PROVE  LET t == symtable_insert(tbl, name, address, type)
           IN  /\ t \in Seq(Symbol(Labels))
               /\ Names(t) = Names(tbl) \cup {name}
               /\ \A i, j \in DOMAIN t : t[i].name = t[j].name => i = j
  <1> DEFINE e == [name |-> name, offset |-> address, type |-> type]
             t == Append(tbl, e)
  <1>1. e \in Symbol(Labels)
    BY DEF Symbol
  <1>2. /\ t \in Seq(Symbol(Labels))
        /\ DOMAIN t = 1..(Len(tbl) + 1) /\ DOMAIN tbl = 1..Len(tbl)
        /\ \A i \in 1..Len(tbl) : t[i] = tbl[i]
        /\ t[Len(tbl) + 1] = e
    BY <1>1
  <1>3. Names(t) = Names(tbl) \cup {name}
    BY <1>2 DEF Names
  <1>4. \A i \in DOMAIN tbl : tbl[i].name # name
    BY DEF symtable_accepts, Names
  <1>5. \A i, j \in DOMAIN t : t[i].name = t[j].name => i = j
    BY <1>2, <1>4
  <1> QED
    BY <1>2, <1>3, <1>5 DEF symtable_insert

(* The table after the first pass has taken the label of a line, if any.   *)
LEMMA LabelledTable ==
    ASSUME TypeOK, UniqueNames, ln \in 1..Len(file), ~LabelRefused(file[ln])
    PROVE  LET l == file[ln]
               t == Labelled(l)
           IN  /\ t \in Seq(Symbol(Labels))
               /\ Names(t) = IF l.label = NoLabel THEN Names(table)
                             ELSE Names(table) \cup {l.label}
               /\ l.label # NoLabel => l.label \notin Names(table)
               /\ \A i, j \in DOMAIN t : t[i].name = t[j].name => i = j
  <1> DEFINE l == file[ln]
  <1>1. l.label \in Labels \cup {NoLabel}
    BY LineType DEF TypeOK
  <1>2. CASE l.label = NoLabel
    BY <1>2 DEF Labelled, TypeOK, UniqueNames
  <1>3. CASE l.label # NoLabel
    <2>1. l.label \in Labels /\ symtable_accepts(table, l.label)
      BY <1>1, <1>3 DEF LabelRefused
    <2>2. LabelAddress \in Nat /\ LabelType \in SymTypes
      BY DEF LabelAddress, LabelType, SymTypes, TypeOK
    <2>3. table \in Seq(Symbol(Labels))
      BY DEF TypeOK
    <2>4. \A i, j \in DOMAIN table : table[i].name = table[j].name => i = j
      BY DEF UniqueNames
    <2> HIDE DEF l
    <2> QED
      BY <1>3, <2>1, <2>2, <2>3, <2>4, InsertTable DEF Labelled, symtable_accepts, l
  <1> QED
    BY <1>2, <1>3

-----------------------------------------------------------------------------
(* Types                                                                   *)

(* The distance a la carries is an integer when its symbol is known.       *)
LEMMA RelativeType ==
    ASSUME TypeOK, UniqueNames, NEW s \in Statement,
           s.op = "la" => s.sym \in Names(table)
    PROVE  RelativeAddress(s) \in Int
  <1>1. CASE s.op # "la"
    BY <1>1 DEF RelativeAddress
  <1>2. CASE s.op = "la"
    <2>1. symtable_lookup(table, s.sym) \in Nat
      BY <1>2, LookupType DEF TypeOK, UniqueNames
    <2>2. size.text \in Nat /\ text_offset \in Nat /\ base_vaddr \in Nat
      BY BaseAssumption DEF TypeOK
    <2> QED
      BY <1>2, <2>1, <2>2
         DEF RelativeAddress, get_data_vaddr, get_text_vaddr, HEADERS_LEN
  <1> QED
    BY <1>1, <1>2

(* The invariant starts with the types of the variables.                   *)
LEMMA TypeInit == Init => TypeOK
  <1> SUFFICES ASSUME Init PROVE TypeOK
    OBVIOUS
  <1>1. file \in Seq(SourceLine)
    BY FilesAssumption DEF Init
  <1>2. text \in [Bytes -> Word] /\ data \in [Bytes -> Nat]
    <2>1. NoWord \in Word
      BY DEF NoWord, Word
    <2>2. text = [b \in Bytes |-> NoWord] /\ data = [b \in Bytes |-> 0]
      BY DEF Init
    <2> QED
      BY <2>1, <2>2
  <1>3. Start \in Position
    BY DEF Start, Position, SegmentNames
  <1>4. DOMAIN mark \subseteq Nat /\ \A j \in DOMAIN mark : mark[j] \in Position
    <2>1. Len(file) \in Nat
      BY <1>1
    <2>2. mark = [j \in 1..(Len(file) + 1) |-> Start]
      BY DEF Init
    <2> QED
      BY <1>3, <2>1, <2>2
  <1>5. table \in Seq(Symbol(Labels))
    <2>1. table = <<>>
      BY DEF Init
    <2> QED
      BY <2>1
  <1>6. "OK" \in Errors /\ "" \in SegmentNames /\ 0 \in Nat /\ 1 \in Nat \ {0}
    BY DEF Errors, SegmentNames
  <1>7. size \in [text : Nat, data : Nat]
    BY DEF Init
  <1> QED
    BY <1>1, <1>2, <1>4, <1>5, <1>6, <1>7 DEF Init, TypeOK

(* A step of the first pass to the next line.                              *)
LEMMA ScanOnType ==
    ASSUME TypeOK, NEW seg \in SegmentNames, NEW t \in Nat, NEW d \in Nat,
           ScanOn(seg, t, d), table' \in Seq(Symbol(Labels))
    PROVE  TypeOK'
  <1>1. [segment |-> seg, text |-> t, data |-> d] \in Position
    BY DEF Position
  <1>2. /\ DOMAIN mark' \subseteq Nat
        /\ \A j \in DOMAIN mark' : mark'[j] \in Position
    BY <1>1 DEF ScanOn, TypeOK
  <1> QED
    BY <1>2 DEF ScanOn, TypeOK, Bytes

(* Every step keeps the types.                                             *)
LEMMA TypeStep ==
    ASSUME TypeOK, UniqueNames, [Next]_vars
    PROVE  TypeOK'
  <1>1. CASE UNCHANGED vars
    BY <1>1 DEF vars, TypeOK, Bytes
  <1>2. CASE ScanBlank
    BY <1>2, ScanOnType DEF ScanBlank, TypeOK
  <1>3. CASE ScanDot
    BY SMTT(30), <1>3, LineType, ScanOnType DEF ScanDot, Reads, TypeOK
  <1>4. CASE ScanLabelRefused
    BY <1>4 DEF ScanLabelRefused, ScanFail, Return, Errors, TypeOK, Bytes
  <1>5. CASE ScanStatement
    <2> DEFINE s == file[ln].stmt
               e == ScanError(s, table')
    <2>1. ln \in 1..Len(file) /\ table' = Labelled(file[ln]) /\ ~LabelRefused(file[ln])
      BY <1>5 DEF ScanStatement, Reads, TypeOK
    <2>2. table' \in Seq(Symbol(Labels))
      BY <2>1, LabelledTable
    <2>3. s \in Statement /\ s.n \in Nat /\ s.parse \in Errors /\ Words(s) \in 0..2
      BY <2>1, LineType, WordsType DEF TypeOK
    <2>4. CASE e = "OK" /\ ScanOn(segment, text_offset + TextBytes(s),
                                           data_offset + DataBytes(s))
      <3>1. TextBytes(s) \in Nat /\ DataBytes(s) \in Nat
        BY <2>3 DEF TextBytes, DataBytes, OPCODE_LEN
      <3> QED
        <4>1. /\ text_offset + TextBytes(s) \in Nat
              /\ data_offset + DataBytes(s) \in Nat
              /\ segment \in SegmentNames
          BY <3>1 DEF TypeOK
        <4> HIDE DEF s
        <4> QED
          BY <2>2, <2>4, <4>1, ScanOnType
    <2>5. CASE e # "OK" /\ ScanFail(e)
      <3>1. e \in Errors
        BY <2>3 DEF ScanError, expand_pseudo_instr, parse_data_directive, Errors
      <3> QED
        BY <2>2, <2>5, <3>1 DEF ScanFail, Return, TypeOK, Bytes
    <2> QED
      BY <1>5, <2>4, <2>5 DEF ScanStatement
  <1>6. CASE ScanEnd
    <2>1. "" \in SegmentNames /\ 0 \in Nat /\ 1 \in Nat \ {0}
      BY DEF SegmentNames
    <2>2. size' \in [text : Nat, data : Nat]
      BY <1>6 DEF ScanEnd, TypeOK
    <2> QED
      BY <1>6, <2>1, <2>2 DEF ScanEnd, TypeOK, Bytes
  <1>7. CASE AssembleBlank
    BY <1>7 DEF AssembleBlank, AssembleOn, TypeOK, Bytes
  <1>8. CASE AssembleDot
    <2>1. file[ln].segment \in SegmentNames
      BY <1>8, LineType DEF AssembleDot, Reads, TypeOK
    <2> QED
      BY <1>8, <2>1 DEF AssembleDot, AssembleOn, TypeOK, Bytes
  <1>9. CASE AssembleText
    <2> DEFINE s == file[ln].stmt
    <2>1. ln \in 1..Len(file) /\ InText(segment) /\ TextError(file[ln]) = "OK"
      BY <1>9 DEF AssembleText, Reads, AssembleError, TypeOK
    <2>2. s \in Statement /\ Words(s) \in 0..2
      BY <2>1, LineType, WordsType DEF TypeOK
    <2>3. s.op = "la" => s.sym \in Names(table)
      BY <2>1 DEF TextError, expand_pseudo_instr
    <2>4. RelativeAddress(s) \in Int
      BY <2>2, <2>3, RelativeType
    <2>5. EmitText(s) \in [Bytes -> Word]
      <3> HIDE DEF s
      <3> SUFFICES ASSUME NEW b \in Bytes PROVE EmitText(s)[b] \in Word
        BY DEF EmitText
      <3>1. text[b] \in Word /\ ln \in Nat
        BY DEF TypeOK
      <3> QED
        BY <2>4, <3>1 DEF EmitText, Word
    <2>6. text_offset + OPCODE_LEN * Words(s) \in Nat
      BY <2>2 DEF TypeOK, OPCODE_LEN
    <2> QED
      BY <1>9, <2>5, <2>6 DEF AssembleText, AssembleOn, TypeOK, Bytes
  <1>10. CASE AssembleData
    <2> DEFINE s == file[ln].stmt
    <2>1. s.n \in Nat
      BY <1>10, LineType DEF AssembleData, Reads, TypeOK
    <2>2. EmitData(s) \in [Bytes -> Nat]
      BY DEF EmitData, TypeOK
    <2> QED
      BY SMTT(30), <1>10, <2>1, <2>2 DEF AssembleData, AssembleOn, TypeOK, Bytes
  <1>11. CASE AssembleBss
    BY <1>11 DEF AssembleBss, AssembleOn, TypeOK, Bytes
  <1>12. CASE AssembleFail
    <2> DEFINE s == file[ln].stmt
    <2>1. s.parse \in Errors /\ s.encode \in Errors
      BY <1>12, LineType DEF AssembleFail, Reads, TypeOK
    <2>2. AssembleError(file[ln]) \in Errors
      BY <2>1 DEF AssembleError, TextError, DataError, expand_pseudo_instr,
                  parse_data_directive, Errors
    <2> QED
      BY <1>12, <2>2 DEF AssembleFail, Return, PublishSizes, TypeOK, Bytes
  <1>13. CASE AssembleEnd
    BY <1>13 DEF AssembleEnd, PublishSizes, TypeOK, Bytes
  <1>14. CASE Returned
    BY <1>14 DEF Returned, vars, TypeOK, Bytes
  <1>15. CASE Unreadable
    BY <1>15 DEF Unreadable, Return, Errors, TypeOK, Bytes
  <1> QED
    BY <1>1, <1>2, <1>3, <1>4, <1>5, <1>6, <1>7, <1>8, <1>9, <1>10, <1>11,
       <1>12, <1>13, <1>14, <1>15 DEF Next, Scan, Assemble

-----------------------------------------------------------------------------
(* The other parts of the invariant                                        *)

(* No pass moves past the line after the last, and no pass changes file.   *)
LEMMA BoundsStep ==
    ASSUME TypeOK, Bounds, [Next]_vars
    PROVE  Bounds' /\ file' = file
  <1>1. Len(file) \in Nat
    BY DEF TypeOK
  <1>2. CASE Scan
    <2>1. ASSUME NEW seg, NEW t, NEW d, ScanOn(seg, t, d), ln <= Len(file)
          PROVE  Bounds' /\ file' = file
      BY <1>1, <2>1 DEF ScanOn, Bounds
    <2>2. ASSUME NEW e, ScanFail(e) PROVE Bounds' /\ file' = file
      BY <2>2 DEF ScanFail, Bounds
    <2>3. CASE ScanBlank \/ ScanDot
      BY <2>1, <2>3 DEF ScanBlank, ScanDot, Reads
    <2>4. CASE ScanLabelRefused \/ ScanStatement
      BY <2>1, <2>2, <2>4 DEF ScanLabelRefused, ScanStatement, Reads
    <2>5. CASE ScanEnd
      <3>1. ln' = 1 /\ UNCHANGED <<file, mark>>
        BY <2>5 DEF ScanEnd
      <3> QED
        BY <1>1, <3>1 DEF Bounds
    <2> QED
      BY <1>2, <2>3, <2>4, <2>5 DEF Scan
  <1>3. CASE Assemble
    <2>1. ASSUME NEW seg, NEW t, NEW d, AssembleOn(seg, t, d), ln <= Len(file)
          PROVE  Bounds' /\ file' = file
      BY <1>1, <2>1 DEF AssembleOn, Bounds
    <2> QED
      BY <1>3, <2>1 DEF Assemble, AssembleBlank, AssembleDot, AssembleText,
         AssembleData, AssembleBss, AssembleFail, AssembleEnd, Reads, Bounds
  <1>4. CASE Unreadable \/ Returned \/ UNCHANGED vars
    BY <1>4 DEF Unreadable, Returned, vars, Bounds
  <1> QED
    BY <1>2, <1>3, <1>4 DEF Next

(* Only the first pass adds names, each of them once.                      *)
LEMMA UniqueStep ==
    ASSUME TypeOK, UniqueNames, [Next]_vars
    PROVE  UniqueNames'
  <1>1. CASE ScanStatement
    <2>1. ln \in 1..Len(file) /\ table' = Labelled(file[ln]) /\ ~LabelRefused(file[ln])
      BY <1>1 DEF ScanStatement, Reads, TypeOK
    <2> QED
      BY <2>1, LabelledTable DEF UniqueNames
  <1>2. CASE UNCHANGED table
    BY <1>2 DEF UniqueNames
  <1> QED
    BY <1>1, <1>2 DEF Next, vars, Unreadable, Scan, ScanBlank, ScanDot,
       ScanLabelRefused, ScanEnd, Assemble, AssembleBlank, AssembleDot, AssembleText, AssembleData,
       AssembleBss, AssembleFail, AssembleEnd, AssembleOn, Returned

(* A step of the first pass records where it goes.                         *)
LEMMA ScanOnPositions ==
    ASSUME TypeOK, Bounds, Positions, phase = "scan", ln <= Len(file),
           NEW seg, NEW t, NEW d, ScanOn(seg, t, d),
           Moves(file[ln], Here, [segment |-> seg, text |-> t, data |-> d])
    PROVE  Positions'
  <1> DEFINE n == [segment |-> seg, text |-> t, data |-> d]
  <1>1. Len(file) \in Nat /\ ln \in 1..Len(file)
    BY DEF TypeOK
  <1>2. /\ mark'[ln + 1] = n
        /\ \A j \in 1..ln : mark'[j] = mark[j]
    BY <1>1 DEF ScanOn, Bounds
  <1>3. ASSUME NEW j \in 1..Len(file), j < ln + 1 PROVE Advanced(j)'
    <2>1. CASE j < ln
      <3>1. Advanced(j)
        BY <2>1 DEF Positions, Measured
      <3>2. mark'[j] = mark[j] /\ mark'[j + 1] = mark[j + 1] /\ file' = file
        BY <1>1, <1>2, <2>1 DEF ScanOn
      <3> QED
        BY <3>1, <3>2 DEF Advanced, Moves, OPCODE_LEN, InText, Words
    <2>2. CASE j = ln
      <3>1. mark'[j] = Here /\ mark'[j + 1] = n /\ file' = file
        BY <1>1, <1>2, <2>2 DEF ScanOn, Positions
      <3> QED
        BY <2>2, <3>1 DEF Advanced, Moves, OPCODE_LEN, InText, Words
    <2> QED
      BY <1>1, <1>3, <2>1, <2>2
  <1>4. mark'[ln'] = Here'
    BY <1>2 DEF ScanOn, Here
  <1> QED
    BY <1>3, <1>4 DEF Positions, Measured, ScanOn

(* A step of the second pass goes where the first pass went.               *)
LEMMA AssembleOnPositions ==
    ASSUME TypeOK, Bounds, Positions, phase = "assemble", ln <= Len(file),
           NEW seg, NEW t, NEW d, AssembleOn(seg, t, d),
           mark[ln + 1] = [segment |-> seg, text |-> t, data |-> d]
    PROVE  Positions'
  <1>1. \A j \in 1..Len(file) : Advanced(j)
    BY DEF Positions, Measured
  <1>2. file' = file /\ mark' = mark /\ size' = size /\ phase' = "assemble"
    BY DEF AssembleOn
  <1>3. \A j \in 1..Len(file) : Advanced(j)'
    BY <1>1, <1>2 DEF Advanced, Moves, OPCODE_LEN, InText, Words
  <1>4. mark'[ln'] = Here'
    BY <1>2 DEF AssembleOn, Here
  <1> QED
    BY <1>2, <1>3, <1>4 DEF Positions

(* The two passes stay in step.                                            *)
LEMMA PositionsStep ==
    ASSUME TypeOK, Bounds, Positions, [Next]_vars
    PROVE  Positions'
  <1> DEFINE l == file[ln]
             s == l.stmt
  <1>1. Len(file) \in Nat
    BY DEF TypeOK
  <1>2. ASSUME phase = "assemble", ln <= Len(file)
        PROVE  Moves(l, Here, mark[ln + 1])
    <2>1. ln \in 1..Len(file)
      BY <1>1, <1>2 DEF TypeOK
    <2> QED
      BY <1>2, <2>1 DEF Positions, Measured, Advanced
  <1>3. ASSUME phase' = "failed" PROVE Positions'
    BY <1>3 DEF Positions, Measured
  <1>4. CASE ScanBlank
    <2>1. Moves(l, Here, Here)
      BY <1>4 DEF ScanBlank, Reads, Moves
    <2> QED
      BY <1>4, <2>1, ScanOnPositions DEF ScanBlank, Reads, Here
  <1>5. CASE ScanDot
    <2>1. Moves(l, Here, [segment |-> l.segment, text |-> text_offset,
                          data |-> data_offset])
      BY <1>5 DEF ScanDot, Reads, Moves, Here
    <2> QED
      BY <1>5, <2>1, ScanOnPositions DEF ScanDot, Reads
  <1>6. CASE ScanLabelRefused
    BY <1>3, <1>6 DEF ScanLabelRefused, ScanFail, Return
  <1>7. CASE ScanStatement
    <2>1. CASE ScanError(s, table') = "OK" /\ ScanOn(segment,
                      text_offset + TextBytes(s), data_offset + DataBytes(s))
      <3>1. Moves(l, Here, [segment |-> segment, text |-> text_offset + TextBytes(s),
                            data |-> data_offset + DataBytes(s)])
        <4>1. l.kind = "content" /\ WellFormedLine(l) /\ ~LabelRefused(l)
          <5>1. ln \in 1..Len(file) /\ l.kind = "content" /\ ~LabelRefused(l)
            BY <1>7 DEF ScanStatement, Reads, TypeOK
          <5> QED
            BY <5>1, LineType DEF TypeOK
        <4>2. text_offset \in Nat /\ data_offset \in Nat
          BY DEF TypeOK
        <4>3. CASE InText(segment)
          BY <4>1, <4>2, <4>3 DEF Moves, Here, TextBytes, DataBytes
        <4>4. CASE segment = "data"
          <5>1. l.label # NoLabel
            BY <2>1, <4>1, <4>4 DEF ScanError, WellFormedLine, InText,
               parse_data_directive
          <5> QED
            BY <4>1, <4>2, <4>4, <5>1 DEF Moves, Here, TextBytes, DataBytes, InText
        <4>5. CASE ~InText(segment) /\ segment # "data"
          <5>1. l.label = NoLabel
            BY <4>1, <4>5 DEF LabelRefused, Labellable
          <5> QED
            BY <2>1, <4>1, <4>5, <5>1 DEF ScanError, WellFormedLine,
               parse_data_directive
        <4> QED
          BY <4>3, <4>4, <4>5
      <3> QED
        BY <1>7, <2>1, <3>1, ScanOnPositions DEF ScanStatement, Reads
    <2>2. CASE ScanError(s, table') # "OK" /\ ScanFail(ScanError(s, table'))
      BY <1>3, <2>2 DEF ScanFail, Return
    <2> QED
      BY <1>7, <2>1, <2>2 DEF ScanStatement
  <1>8. CASE ScanEnd
    <2> DEFINE here == [text |-> text_offset, data |-> data_offset]
    <2>a. /\ phase = "scan" /\ ln > Len(file)
          /\ size' = here
          /\ UNCHANGED <<file, mark>>
      BY <1>8 DEF ScanEnd
    <2>b. /\ ln' = 1
          /\ Here' = Start
      BY <1>8 DEF ScanEnd, Here, Start
    <2>1. ln = Len(file) + 1
      BY <1>1, <2>a DEF Bounds
    <2>2. \A j \in 1..Len(file) : Advanced(j)
      <3> SUFFICES ASSUME NEW j \in 1..Len(file) PROVE Advanced(j)
        OBVIOUS
      <3>1. Measured(j)
        BY <1>1, <2>a, <2>1 DEF Measured
      <3> QED
        BY <3>1 DEF Positions
    <2>3. \A j \in 1..Len(file) : Advanced(j)'
      BY <2>a, <2>2 DEF Advanced, Moves, OPCODE_LEN, InText, Words
    <2>4. mark'[ln'] = Here'
      BY <2>a, <2>b DEF Bounds
    <2>5. size' = [text |-> mark'[Len(file') + 1].text,
                   data |-> mark'[Len(file') + 1].data]
      <3>1. mark[Len(file) + 1] = Here
        BY <2>a, <2>1 DEF Positions
      <3> QED
        BY <2>a, <3>1 DEF Here
    <2> QED
      BY <1>8, <2>3, <2>4, <2>5 DEF ScanEnd, Positions
  <1>9. CASE AssembleBlank
    BY <1>2, <1>9, AssembleOnPositions DEF AssembleBlank, Reads, Moves, Here
  <1>10. CASE AssembleDot
    BY <1>2, <1>10, AssembleOnPositions DEF AssembleDot, Reads, Moves, Here
  <1>11. CASE AssembleText
    BY <1>2, <1>11, AssembleOnPositions DEF AssembleText, Reads, Moves, Here, InText
  <1>12. CASE AssembleData
    BY <1>2, <1>12, AssembleOnPositions DEF AssembleData, Reads, Moves, Here, InText
  <1>13. CASE AssembleBss
    BY <1>2, <1>13 DEF AssembleBss, Reads, Moves, Here, InText
  <1>14. CASE AssembleFail
    BY <1>3, <1>14 DEF AssembleFail, Return
  <1>15. CASE AssembleEnd
    <2>1. mark[Len(file) + 1] = Here
      BY <1>1, <1>15 DEF AssembleEnd, Bounds, Positions
    <2>2. \A j \in 1..Len(file) : Advanced(j)
      BY <1>15 DEF AssembleEnd, Positions, Measured
    <2>3. \A j \in 1..Len(file) : Advanced(j)'
      BY <1>15, <2>2 DEF AssembleEnd, Advanced, Moves, OPCODE_LEN, InText, Words
    <2> QED
      BY <1>15, <2>1, <2>3 DEF AssembleEnd, PublishSizes, Positions, Here
  <1>16. CASE Returned \/ UNCHANGED vars
    <2>1. UNCHANGED <<file, phase, ln, segment, text_offset, data_offset, size, mark>>
      BY <1>16 DEF Returned, vars
    <2>2. \A j : Measured(j)' = Measured(j)
      BY <2>1 DEF Measured
    <2>3. \A j : Advanced(j)' = Advanced(j)
      BY <2>1 DEF Advanced, Moves, OPCODE_LEN, InText, Words
    <2>4. Here' = Here
      BY <2>1 DEF Here
    <2> QED
      BY <2>1, <2>2, <2>3, <2>4 DEF Positions
  <1>17. CASE Unreadable
    BY <1>3, <1>17 DEF Unreadable, Return
  <1> QED
    BY <1>4, <1>5, <1>6, <1>7, <1>8, <1>9, <1>10, <1>11, <1>12, <1>13, <1>14,
       <1>15, <1>16, <1>17 DEF Next, Scan, Assemble

(* A step that neither reads a label nor changes the table.                *)
LEMMA LabelsKept ==
    ASSUME LabelsKnown, file' = file, Names(table)' = Names(table),
           \A j \in 1..Len(file) :
               Measured(j)' => Measured(j) \/ file[j].label = NoLabel
    PROVE  LabelsKnown'
  <1> SUFFICES ASSUME NEW j \in 1..Len(file),
                      Measured(j)', file[j].label # NoLabel
               PROVE  /\ file[j].label \in Names(table)
                      /\ \A i \in 1..(j - 1) : file[i].label # file[j].label
    BY DEF LabelsKnown
  <1> QED
    BY DEF LabelsKnown

(* The table knows every label the first pass has gone past.               *)
LEMMA LabelsStep ==
    ASSUME TypeOK, Bounds, UniqueNames, LabelsKnown, [Next]_vars
    PROVE  LabelsKnown'
  <1>1. Len(file) \in Nat /\ ln \in Nat /\ file' = file
    BY BoundsStep DEF TypeOK
  <1>2. CASE phase' = "failed"
    BY <1>2 DEF LabelsKnown, Measured
  <1>3. CASE /\ table' = table
             /\ \A j \in 1..Len(file) : Measured(j)' => Measured(j)
    BY <1>1, <1>3, LabelsKept DEF Names
  <1>4. CASE ScanBlank \/ ScanDot
    <2>1. /\ ln \in 1..Len(file) /\ file[ln].kind # "content"
          /\ phase = "scan" /\ phase' = "scan" /\ ln' = ln + 1 /\ table' = table
      BY <1>1, <1>4 DEF ScanBlank, ScanDot, ScanOn, Reads, Bounds
    <2>2. file[ln].label = NoLabel
      BY <2>1, LineType DEF TypeOK, WellFormedLine
    <2>3. \A j \in 1..Len(file) : Measured(j)' => Measured(j) \/ j = ln
      BY <1>1, <2>1 DEF Measured
    <2> QED
      BY <1>1, <2>1, <2>2, <2>3, LabelsKept DEF Names
  <1>5. CASE ScanStatement
    <2> DEFINE l == file[ln]
    <2>1. /\ ln \in 1..Len(file) /\ table' = Labelled(l) /\ ~LabelRefused(l)
          /\ phase = "scan"
      BY <1>5 DEF ScanStatement, Reads, TypeOK
    <2>2. /\ Names(table') = IF l.label = NoLabel THEN Names(table)
                             ELSE Names(table) \cup {l.label}
          /\ l.label # NoLabel => l.label \notin Names(table)
      BY <2>1, LabelledTable
    <2>3. CASE phase' = "scan" /\ ln' = ln + 1
      <3>1. \A j \in 1..Len(file) : Measured(j)' <=> j <= ln
        BY <1>1, <2>3 DEF Measured
      <3>2. \A j \in 1..Len(file) : j < ln /\ file[j].label # NoLabel =>
               /\ file[j].label \in Names(table)
               /\ \A i \in 1..(j - 1) : file[i].label # file[j].label
        BY <2>1 DEF LabelsKnown, Measured
      <3> SUFFICES ASSUME NEW j \in 1..Len(file), j <= ln, file[j].label # NoLabel
                   PROVE  /\ file[j].label \in Names(table')
                          /\ \A i \in 1..(j - 1) : file[i].label # file[j].label
        BY <1>1, <3>1 DEF LabelsKnown, Names
      <3>3. CASE j < ln
        BY <2>2, <3>2, <3>3
      <3>4. CASE j = ln
        <4>1. l.label \notin Names(table)
          BY <2>2, <3>4
        <4>2. \A i \in 1..(j - 1) : file[i].label # file[j].label
          BY <1>1, <3>2, <3>4, <4>1
        <4> QED
          BY <2>2, <3>4, <4>2
      <3> QED
        BY <1>1, <3>3, <3>4
    <2> QED
      BY <1>2, <1>5, <2>1, <2>3 DEF ScanStatement, ScanOn, ScanFail, Return
  <1>6. CASE ScanEnd
    <2>1. /\ phase = "scan" /\ ln > Len(file) /\ table' = table
      BY <1>6 DEF ScanEnd
    <2>2. \A j \in 1..Len(file) : Measured(j)
      BY <1>1, <2>1 DEF Measured
    <2> QED
      BY <1>3, <2>1, <2>2
  <1>7. CASE Assemble
    <2>1. table' = table /\ phase = "assemble"
      BY <1>7 DEF Assemble, AssembleBlank, AssembleDot, AssembleText, AssembleData,
         AssembleBss, AssembleFail, AssembleEnd, AssembleOn, Reads
    <2>2. \A j \in 1..Len(file) : Measured(j)
      BY <2>1 DEF Measured
    <2> QED
      BY <1>3, <2>1, <2>2
  <1>8. CASE Returned \/ UNCHANGED vars
    <2>1. UNCHANGED <<phase, ln, table>>
      BY <1>8 DEF Returned, vars
    <2>2. \A j \in 1..Len(file) : Measured(j)' => Measured(j)
      BY <2>1 DEF Measured
    <2> QED
      BY <1>3, <2>1, <2>2
  <1>9. CASE ScanLabelRefused \/ Unreadable
    BY <1>2, <1>9 DEF ScanLabelRefused, ScanFail, Unreadable, Return
  <1> QED
    BY <1>4, <1>5, <1>6, <1>7, <1>8, <1>9 DEF Next, Scan

(* The second pass refuses what the first let by.                          *)
LEMMA ShapesStep ==
    ASSUME TypeOK, Bounds, Positions, Shapes, [Next]_vars
    PROVE  Shapes'
  <1> DEFINE Shape(j) ==
               file[j].kind = "content" =>
                 /\ InText(mark[j].segment) => file[j].label = NoLabel
                 /\ mark[j].segment = "data" => file[j].stmt.op = "directive"
  <1>1. Len(file) \in Nat /\ ln \in Nat /\ file' = file
    BY BoundsStep DEF TypeOK
  <1>2. CASE phase' \in {"scan", "failed"}
    BY <1>2 DEF Shapes, Assembled
  <1>3. ASSUME NEW seg, NEW t, NEW d, AssembleOn(seg, t, d), phase = "assemble",
               ln \in 1..Len(file), Shape(ln)
        PROVE  Shapes'
    <2>1. \A j \in 1..Len(file) : j < ln => Shape(j)
      BY <1>3 DEF Shapes, Assembled
    <2>2. \A j \in 1..Len(file) : j < ln + 1 => Shape(j)
      BY <1>1, <1>3, <2>1
    <2>3. mark' = mark /\ ln' = ln + 1 /\ phase' = "assemble"
      BY <1>3 DEF AssembleOn
    <2> QED
      BY <1>1, <2>2, <2>3 DEF Shapes, Assembled, InText
  <1>4. CASE Scan
    <2>1. CASE ScanEnd
      <3>1. phase' = "assemble" /\ ln' = 1
        BY <2>1 DEF ScanEnd
      <3> QED
        BY <3>1 DEF Shapes, Assembled
    <2>2. CASE ~ScanEnd
      BY <1>2, <1>4, <2>2 DEF Scan, ScanBlank, ScanDot, ScanLabelRefused,
         ScanStatement, ScanOn, ScanFail, Return, Reads
    <2> QED
      BY <2>1, <2>2
  <1>5. CASE AssembleBlank \/ AssembleDot
    <2>1. ln \in 1..Len(file) /\ file[ln].kind # "content" /\ phase = "assemble"
      BY <1>1, <1>5 DEF AssembleBlank, AssembleDot, Reads, Bounds
    <2> QED
      BY <1>3, <1>5, <2>1 DEF AssembleBlank, AssembleDot
  <1>6. ASSUME Reads("assemble", "content")
        PROVE  ln \in 1..Len(file) /\ mark[ln].segment = segment /\ phase = "assemble"
    BY <1>1, <1>6 DEF Reads, Bounds, Positions, Here
  <1>7. CASE AssembleText
    <2>1. TextError(file[ln]) = "OK" /\ InText(segment)
      BY <1>7 DEF AssembleText, AssembleError
    <2>2. Shape(ln)
      BY <1>6, <1>7, <2>1 DEF AssembleText, TextError, InText
    <2> QED
      BY <1>3, <1>6, <1>7, <2>2 DEF AssembleText
  <1>8. CASE AssembleData
    <2>1. DataError(file[ln].stmt) = "OK" /\ segment = "data"
      BY <1>8 DEF AssembleData, AssembleError, InText
    <2>2. Shape(ln)
      BY <1>6, <1>8, <2>1 DEF AssembleData, DataError, parse_data_directive, InText
    <2> QED
      BY <1>3, <1>6, <1>8, <2>2 DEF AssembleData
  <1>9. CASE AssembleBss
    <2>1. Shape(ln)
      BY <1>6, <1>9 DEF AssembleBss, InText
    <2> QED
      BY <1>3, <1>6, <1>9, <2>1 DEF AssembleBss
  <1>10. CASE AssembleFail \/ Unreadable
    BY <1>2, <1>10 DEF AssembleFail, Unreadable, Return
  <1>11. CASE AssembleEnd
    <2>1. /\ phase = "assemble" /\ ln > Len(file) /\ mark' = mark
      BY <1>11 DEF AssembleEnd
    <2>2. \A j \in 1..Len(file) : Shape(j)
      BY <1>1, <2>1 DEF Shapes, Assembled
    <2> QED
      BY <1>1, <2>1, <2>2 DEF Shapes, InText
  <1>12. CASE Returned \/ UNCHANGED vars
    <2>1. UNCHANGED <<phase, ln, mark>>
      BY <1>12 DEF Returned, vars
    <2> QED
      BY <1>1, <2>1 DEF Shapes, Assembled, InText
  <1> QED
    BY <1>4, <1>5, <1>7, <1>8, <1>9, <1>10, <1>11, <1>12 DEF Next, Assemble

(* No offset is moved past the capacity it is checked against.             *)
LEMMA CapacityStep ==
    ASSUME TypeOK, CapacityRespected, [Next]_vars
    PROVE  CapacityRespected'
  <1>1. DATA_SIZE \in Nat
    BY DataSizeAssumption
  <1>2. CASE Scan
    <2>1. CASE ScanEnd
      <3>1. text_offset' = 0 /\ data_offset' = 0
        BY <2>1 DEF ScanEnd
      <3> QED
        BY <1>1, <3>1 DEF CapacityRespected
    <2>2. CASE ~ScanEnd
      <3>1. phase' \in {"scan", "failed"}
        BY <1>2, <2>2 DEF Scan, ScanBlank, ScanDot, ScanLabelRefused,
           ScanStatement, ScanOn, ScanFail, Return, Reads
      <3> QED
        BY <3>1 DEF CapacityRespected
    <2> QED
      BY <2>1, <2>2
  <1>3. CASE AssembleText
    <2> DEFINE s == file[ln].stmt
    <2>1. TextError(file[ln]) = "OK" /\ phase = "assemble"
      BY <1>3 DEF AssembleText, AssembleError, Reads, TypeOK
    <2>2. text_offset + OPCODE_LEN * Words(s) <= DATA_SIZE
      BY <2>1 DEF TextError, Fits
    <2> QED
      BY <1>3, <2>1, <2>2 DEF AssembleText, AssembleOn, CapacityRespected
  <1>4. CASE AssembleData
    <2> DEFINE s == file[ln].stmt
    <2>1. DataError(s) = "OK" /\ phase = "assemble"
      BY <1>4 DEF AssembleData, AssembleError, InText, Reads, TypeOK
    <2>2. data_offset + s.n <= DATA_SIZE
      BY <2>1 DEF DataError, parse_data_directive, Fits
    <2> QED
      BY <1>4, <2>1, <2>2 DEF AssembleData, AssembleOn, CapacityRespected
  <1>5. CASE AssembleBlank \/ AssembleDot \/ AssembleBss
    BY <1>5 DEF AssembleBlank, AssembleDot, AssembleBss, AssembleOn, Reads,
       CapacityRespected
  <1>6. CASE AssembleFail \/ Unreadable
    BY <1>6 DEF AssembleFail, Unreadable, Return, CapacityRespected
  <1>7. CASE AssembleEnd
    BY <1>7 DEF AssembleEnd, CapacityRespected
  <1>8. CASE Returned \/ UNCHANGED vars
    BY <1>8 DEF Returned, vars, CapacityRespected
  <1> QED
    BY <1>2, <1>3, <1>4, <1>5, <1>6, <1>7, <1>8 DEF Next, Assemble

-----------------------------------------------------------------------------
(* Theorems                                                                *)

(* The first pass starts with the invariant.                               *)
LEMMA InvInit == Init => IInv
  <1> SUFFICES ASSUME Init PROVE IInv
    OBVIOUS
  <1>1. TypeOK
    BY TypeInit
  <1>2. Len(file) \in Nat
    BY <1>1 DEF TypeOK
  <1>3. /\ mark = [j \in 1..(Len(file) + 1) |-> Start]
        /\ phase = "scan" /\ ln = 1 /\ table = <<>>
    BY DEF Init
  <1>4. Here = Start
    BY DEF Init, Here, Start
  <1>5. Bounds
    BY <1>2, <1>3 DEF Bounds
  <1>6. \A j \in 1..Len(file) : ~Measured(j) /\ ~Assembled(j)
    BY <1>2, <1>3 DEF Measured, Assembled
  <1>7. Positions
    BY <1>2, <1>3, <1>4, <1>6 DEF Positions
  <1>8. UniqueNames
    BY <1>3 DEF UniqueNames
  <1> QED
    BY <1>1, <1>3, <1>5, <1>6, <1>7, <1>8
       DEF IInv, LabelsKnown, Shapes, CapacityRespected

(* Every step of either pass keeps it.                                     *)
LEMMA InvStep == IInv /\ [Next]_vars => IInv'
  BY TypeStep, BoundsStep, PositionsStep, LabelsStep, UniqueStep, ShapesStep,
     CapacityStep DEF IInv

(* The inductive invariant holds in every run of the two passes.           *)
THEOREM Invariance == Spec => []IInv
  BY InvInit, InvStep, PTL DEF Spec

(* How many steps the passes can still take: one for each line, and the    *)
(* ends of the two loops.                                                  *)
PassSteps ==
    CASE phase = "scan"     -> (Len(file) + 2 - ln) + (Len(file) + 2)
      [] phase = "assemble" -> Len(file) + 2 - ln
      [] OTHER              -> 0

(* Every step of a pass is one less to take.                               *)
LEMMA PassAdvances ==
    ASSUME IInv, Unreadable \/ Scan \/ Assemble
    PROVE  PassSteps' < PassSteps
  <1>1. Len(file) \in Nat /\ ln \in Nat /\ ln <= Len(file) + 1 /\ file' = file
    <2>1. Len(file) \in Nat /\ ln \in 1..(Len(file) + 1)
      BY DEF IInv, TypeOK, Bounds
    <2>2. file' = file
      BY DEF Unreadable, Scan, ScanBlank, ScanDot, ScanLabelRefused, ScanStatement, ScanEnd,
             ScanOn, ScanFail, Assemble, AssembleBlank, AssembleDot, AssembleText,
             AssembleData, AssembleBss, AssembleFail, AssembleEnd, AssembleOn
    <2> QED
      BY <2>1, <2>2
  <1>2. \/ phase \in {"scan", "assemble"} /\ phase' = "failed"
        \/ phase \in {"scan", "assemble"} /\ phase' = phase /\ ln' = ln + 1
        \/ phase = "scan" /\ phase' = "assemble" /\ ln' = 1
        \/ phase = "assemble" /\ phase' = "done"
    <2>1. CASE Unreadable
      BY <2>1 DEF Unreadable, Return
    <2>2. CASE Scan
      BY <2>2 DEF Scan, ScanBlank, ScanDot, ScanLabelRefused, ScanStatement, ScanEnd,
                  ScanOn, ScanFail, Return, Reads
    <2>3. CASE Assemble
      BY <2>3 DEF Assemble, AssembleBlank, AssembleDot, AssembleText, AssembleData,
                  AssembleBss, AssembleFail, AssembleEnd, AssembleOn, Return, Reads
    <2> QED
      BY <2>1, <2>2, <2>3
  <1> QED
    BY <1>1, <1>2 DEF PassSteps

(* The passes get a verdict on a file of n lines in at most 2n + 3 steps:  *)
(* each step is one less to take, and there is no step less than none.     *)
(* Termination is that and that a step is taken as long as there is one.   *)
THEOREM PassesAdvance ==
    Spec => /\ [](PassSteps \in Nat /\ PassSteps <= 2 * Len(file) + 3)
            /\ [][PassSteps' < PassSteps]_vars
  <1>1. IInv => PassSteps \in Nat /\ PassSteps <= 2 * Len(file) + 3
    <2> SUFFICES ASSUME IInv PROVE PassSteps \in Nat /\ PassSteps <= 2 * Len(file) + 3
      OBVIOUS
    <2>1. Len(file) \in Nat /\ ln \in 1..(Len(file) + 1)
      BY DEF IInv, TypeOK, Bounds
    <2> QED
      BY <2>1 DEF PassSteps
  <1>2. IInv /\ [Next]_vars => [PassSteps' < PassSteps]_vars
    BY PassAdvances DEF Next, Returned
  <1> QED
    BY <1>1, <1>2, Invariance, PTL DEF Spec

(* The context and the locals of both passes keep their types.             *)
THEOREM TypeCorrect == Spec => []TypeOK
  <1>1. IInv => TypeOK
    BY DEF IInv
  <1> QED
    BY Invariance, <1>1, PTL

(* assemble_file is before every line where scan_labels was before it.     *)
THEOREM Agreement == Spec => []PassesAgree
  <1>1. IInv => PassesAgree
    BY DEF IInv, Positions, PassesAgree, Here
  <1> QED
    BY Invariance, <1>1, PTL

(* The sizes assemble_file publishes are those scan_labels published.      *)
THEOREM Confirmation == Spec => SizesConfirmed
  <1> DEFINE A == phase = "assemble" /\ phase' = "done" => size' = size
  <1>1. ASSUME IInv, [Next]_vars PROVE A
    <2> SUFFICES ASSUME phase = "assemble", phase' = "done" PROVE size' = size
      OBVIOUS
    <2>1. AssembleEnd
      BY <1>1 DEF Next, vars, Unreadable, Scan, ScanBlank, ScanDot, ScanLabelRefused,
         ScanStatement, ScanEnd, Assemble, AssembleBlank, AssembleDot,
         AssembleText, AssembleData, AssembleBss, AssembleFail, AssembleOn,
         Return, Returned, Reads
    <2>2. Len(file) \in Nat /\ ln = Len(file) + 1
      BY <1>1, <2>1 DEF IInv, TypeOK, Bounds, AssembleEnd
    <2> QED
      BY <1>1, <2>1, <2>2 DEF IInv, Positions, Here, AssembleEnd, PublishSizes
  <1>2. IInv /\ [Next]_vars => [A]_vars
    BY <1>1
  <1> QED
    BY Invariance, <1>2, PTL DEF Spec, SizesConfirmed

(* An accepted file has no label in .text, and nothing but labelled        *)
(* directives under names of their own in .data.                           *)
THEOREM Acceptance == Spec => []AcceptedShape
  <1>1. ASSUME IInv PROVE AcceptedShape
    <2> SUFFICES ASSUME phase = "done", NEW j \in 1..Len(file),
                        file[j].kind = "content"
                 PROVE  LET seg == mark[j].segment
                        IN  /\ InText(seg) \/ seg = "data"
                            /\ InText(seg) => file[j].label = NoLabel
                            /\ seg = "data" =>
                                 /\ file[j].label # NoLabel
                                 /\ file[j].stmt.op = "directive"
                                 /\ \A i \in 1..(j - 1) : file[i].label # file[j].label
      BY DEF AcceptedShape
    <2>1. Measured(j) /\ Assembled(j)
      BY DEF Measured, Assembled
    <2>2. Moves(file[j], mark[j], mark[j + 1])
      BY <1>1, <2>1 DEF IInv, Positions, Advanced
    <2>3. /\ InText(mark[j].segment) => file[j].label = NoLabel
          /\ mark[j].segment = "data" => file[j].stmt.op = "directive"
      BY <1>1, <2>1 DEF IInv, Shapes
    <2>4. \/ InText(mark[j].segment)
          \/ mark[j].segment = "data" /\ file[j].label # NoLabel
      BY <2>2 DEF Moves
    <2>5. file[j].label # NoLabel =>
            \A i \in 1..(j - 1) : file[i].label # file[j].label
      BY <1>1, <2>1 DEF IInv, LabelsKnown
    <2> QED
      BY <2>3, <2>4, <2>5 DEF InText
  <1>2. IInv => AcceptedShape
    BY <1>1
  <1> QED
    BY Invariance, <1>2, PTL

(* No file, not even one replaced between the passes, moves an offset of   *)
(* the second pass past the end of its segment.                            *)
THEOREM Capacity == ReplacingSpec => []CapacityRespected
  <1> DEFINE I == TypeOK /\ UniqueNames /\ CapacityRespected
  <1>1. Init => I
    BY InvInit DEF IInv
  <1>2. ASSUME I, [Next \/ Replace]_vars PROVE I'
    <2>1. CASE [Next]_vars
      BY <1>2, <2>1, TypeStep, UniqueStep, CapacityStep
    <2>2. CASE Replace
      <3>1. /\ file' \in Seq(SourceLine)
            /\ UNCHANGED <<phase, err, ln, segment, text_offset, data_offset,
                           table, size, text, data, mark>>
        BY <2>2, FilesAssumption DEF Replace
      <3>2. TypeOK'
        BY <1>2, <3>1 DEF TypeOK, Bytes
      <3> QED
        BY <1>2, <3>1, <3>2 DEF UniqueNames, CapacityRespected
    <2> QED
      BY <1>2, <2>1, <2>2
  <1>3. I => CapacityRespected
    OBVIOUS
  <1> QED
    BY <1>1, <1>2, <1>3, PTL DEF ReplacingSpec

-----------------------------------------------------------------------------
(* What a line lays down                                                   *)

(* What a line of .text does to the segment.                               *)
LEMMA TextLaid ==
    ASSUME TypeOK, CapacityRespected, AssembleText, text_offset % OPCODE_LEN = 0
    PROVE  LET s == file[ln].stmt
           IN  /\ ln \in 1..Len(file) /\ Words(s) \in 0..2 /\ IsInstruction(s)
               /\ text_offset' = text_offset + OPCODE_LEN * Words(s)
               /\ text_offset' % OPCODE_LEN = 0
               /\ \A b \in Bytes : text'[b] =
                      IF b = text_offset
                      THEN [line |-> ln, half |-> 1, rel |-> RelativeAddress(s)]
                      ELSE IF b = text_offset + OPCODE_LEN /\ Words(s) = 2
                      THEN [line |-> ln, half |-> 2, rel |-> RelativeAddress(s)]
                      ELSE text[b]
               /\ \A b \in Bytes :
                      b >= text_offset /\ b < text_offset' /\ b % OPCODE_LEN = 0 =>
                          b = text_offset \/ (b = text_offset + OPCODE_LEN /\ Words(s) = 2)
  <1> DEFINE s == file[ln].stmt
             w == Words(s)
  <1>1. ln \in 1..Len(file) /\ text_offset \in Nat /\ DATA_SIZE \in Nat
    BY DataSizeAssumption DEF AssembleText, Reads, TypeOK
  <1>2. w \in 0..2
    BY <1>1, LineType, WordsType DEF TypeOK
  <1>3. AssembleError(file[ln]) = "OK" /\ InText(segment)
    BY DEF AssembleText
  <1>4. IsInstruction(s)
    BY <1>3 DEF AssembleError, TextError
  <1>5. text_offset' = text_offset + OPCODE_LEN * w
    BY DEF AssembleText, AssembleOn
  <1>6. text' = EmitText(s)
    BY DEF AssembleText
  <1>7. \A b \in Bytes : text'[b] =
            IF b = text_offset
            THEN [line |-> ln, half |-> 1, rel |-> RelativeAddress(s)]
            ELSE IF b = text_offset + OPCODE_LEN /\ w = 2
            THEN [line |-> ln, half |-> 2, rel |-> RelativeAddress(s)]
            ELSE text[b]
    BY <1>6 DEF EmitText
  <1> HIDE DEF w
  <1>8. text_offset' % OPCODE_LEN = 0
    BY <1>1, <1>2, <1>5 DEF OPCODE_LEN
  <1>9. ASSUME NEW b \in Bytes, b >= text_offset, b < text_offset', b % OPCODE_LEN = 0
        PROVE  b = text_offset \/ (b = text_offset + OPCODE_LEN /\ w = 2)
    <2>1. b \in Nat
      BY <1>1 DEF Bytes
    <2> QED
      BY <1>1, <1>2, <1>5, <1>9, <2>1 DEF OPCODE_LEN
  <1> QED
    BY <1>1, <1>2, <1>4, <1>5, <1>7, <1>8, <1>9 DEF w

(* What a line of .data does to the segment.                               *)
LEMMA DataLaid ==
    ASSUME TypeOK, AssembleData
    PROVE  /\ ln \in 1..Len(file) /\ file[ln].stmt.n \in Nat
           /\ data_offset' = data_offset + file[ln].stmt.n
           /\ \A x \in Bytes :
                  /\ x < data_offset => data'[x] = data[x]
                  /\ x >= data_offset /\ x < data_offset' => data'[x] = ln
  <1>1. ln \in 1..Len(file) /\ data_offset \in Nat /\ DATA_SIZE \in Nat
    BY DataSizeAssumption DEF AssembleData, Reads, TypeOK
  <1>2. file[ln].stmt.n \in Nat
    BY <1>1, LineType DEF TypeOK
  <1>3. data_offset' = data_offset + file[ln].stmt.n /\ data' = EmitData(file[ln].stmt)
    BY DEF AssembleData, AssembleOn
  <1>4. ASSUME NEW x \in Bytes
        PROVE  /\ x < data_offset => data'[x] = data[x]
               /\ x >= data_offset /\ x < data_offset' => data'[x] = ln
    <2>1. x \in Nat
      BY <1>1 DEF Bytes
    <2>2. data'[x] = IF x \in data_offset..(data_offset + file[ln].stmt.n - 1)
                     THEN ln ELSE data[x]
      BY <1>3 DEF EmitData
    <2> QED
      BY <1>1, <1>2, <1>3, <2>1, <2>2
  <1> QED
    BY <1>1, <1>2, <1>3, <1>4

-----------------------------------------------------------------------------
(* Files that may be replaced between the passes                           *)

(* An instruction is laid down behind those of the lines before.           *)
LEMMA FilledText ==
    ASSUME TypeOK, CapacityRespected, Filled, AssembleText
    PROVE  Filled'
  <1>1. /\ phase = "assemble" /\ text_offset % OPCODE_LEN = 0 /\ text_offset \in Nat
        /\ phase' = phase /\ ln' = ln + 1 /\ UNCHANGED <<file, data, data_offset>>
    BY DEF AssembleText, AssembleOn, Reads, Filled, TypeOK
  <1>2. /\ ln \in 1..Len(file) /\ Len(file) \in Nat /\ text_offset' \in Nat
        /\ text_offset' % OPCODE_LEN = 0
    BY SMTT(30), <1>1, TextLaid DEF TypeOK, OPCODE_LEN
  <1>3. \A b \in Bytes : b \in Nat
    BY DataSizeAssumption DEF Bytes
  <1>4. ASSUME NEW b \in Bytes, b < text_offset', b % OPCODE_LEN = 0
        PROVE  text'[b].line = IF b < text_offset THEN text[b].line ELSE ln
    <2>1. CASE b < text_offset
      <3>1. b # text_offset /\ b # text_offset + OPCODE_LEN
        BY <1>1, <1>3, <2>1 DEF OPCODE_LEN
      <3> QED
        BY <1>1, <2>1, <3>1, TextLaid
    <2>2. CASE b >= text_offset
      BY <1>1, <1>3, <1>4, <2>2, TextLaid
    <2> QED
      BY <1>1, <1>3, <2>1, <2>2
  <1>5. ASSUME NEW b \in Bytes, b < text_offset, b % OPCODE_LEN = 0
        PROVE  /\ text[b].line \in 1..(ln - 1)
               /\ \A c \in Bytes : c < b /\ c % OPCODE_LEN = 0 => text[c].line <= text[b].line
    BY <1>1, <1>5 DEF Filled
  <1>6. ASSUME NEW b \in Bytes, b < text_offset', b % OPCODE_LEN = 0
        PROVE  /\ text'[b].line \in 1..(ln' - 1)
               /\ \A c \in Bytes : c < b /\ c % OPCODE_LEN = 0 => text'[c].line <= text'[b].line
    <2>1. text'[b].line \in 1..(ln' - 1)
      BY <1>1, <1>2, <1>4, <1>5, <1>6
    <2>2. ASSUME NEW c \in Bytes, c < b, c % OPCODE_LEN = 0
          PROVE  text'[c].line <= text'[b].line
      <3>1. c < text_offset' /\ (b < text_offset => c < text_offset)
        BY <1>1, <1>2, <1>3, <1>6, <2>2
      <3>2. text'[c].line = IF c < text_offset THEN text[c].line ELSE ln
        BY <1>4, <2>2, <3>1
      <3>3. text'[b].line = IF b < text_offset THEN text[b].line ELSE ln
        BY <1>4, <1>6
      <3> QED
        BY <1>2, <1>5, <1>6, <2>2, <3>1, <3>2, <3>3
    <2> QED
      BY <2>1, <2>2
  <1>7. \A x \in Bytes : x < data_offset =>
            data[x] \in 1..(ln - 1) /\ \A y \in Bytes : y < x => data[y] <= data[x]
    BY <1>1 DEF Filled
  <1>8. \A x \in Bytes : x < data_offset => data[x] \in 1..(ln' - 1)
    BY <1>1, <1>2, <1>7
  <1>9. ln' <= Len(file) + 1
    BY <1>1, <1>2
  <1> QED
    BY <1>1, <1>2, <1>6, <1>7, <1>8, <1>9 DEF Filled, Bytes

(* The bytes of a directive are laid down behind those of the lines before.*)
LEMMA FilledData ==
    ASSUME TypeOK, Filled, AssembleData
    PROVE  Filled'
  <1>1. /\ phase = "assemble" /\ text_offset % OPCODE_LEN = 0 /\ data_offset \in Nat
        /\ phase' = phase /\ ln' = ln + 1 /\ UNCHANGED <<file, text, text_offset>>
    BY DEF AssembleData, AssembleOn, Reads, Filled, TypeOK
  <1>2. ln \in 1..Len(file) /\ Len(file) \in Nat /\ data_offset' \in Nat
    BY SMTT(30), <1>1, DataLaid DEF TypeOK
  <1>3. \A x \in Bytes : x \in Nat
    BY DataSizeAssumption DEF Bytes
  <1>4. ASSUME NEW x \in Bytes, x < data_offset'
        PROVE  data'[x] = IF x < data_offset THEN data[x] ELSE ln
    BY <1>1, <1>3, <1>4, DataLaid
  <1>5. ASSUME NEW x \in Bytes, x < data_offset
        PROVE  /\ data[x] \in 1..(ln - 1)
               /\ \A y \in Bytes : y < x => data[y] <= data[x]
    BY <1>1, <1>5 DEF Filled
  <1>6. ASSUME NEW x \in Bytes, x < data_offset'
        PROVE  /\ data'[x] \in 1..(ln' - 1)
               /\ \A y \in Bytes : y < x => data'[y] <= data'[x]
    <2>1. data'[x] \in 1..(ln' - 1)
      BY <1>1, <1>2, <1>4, <1>5, <1>6
    <2>2. ASSUME NEW y \in Bytes, y < x
          PROVE  data'[y] <= data'[x]
      <3>1. y < data_offset' /\ (x < data_offset => y < data_offset)
        BY <1>1, <1>2, <1>3, <1>6, <2>2
      <3>2. data'[y] = IF y < data_offset THEN data[y] ELSE ln
        BY <1>4, <3>1
      <3>3. data'[x] = IF x < data_offset THEN data[x] ELSE ln
        BY <1>4, <1>6
      <3> QED
        BY <1>2, <1>5, <2>2, <3>1, <3>2, <3>3
    <2> QED
      BY <2>1, <2>2
  <1>7. \A b \in Bytes : b < text_offset /\ b % OPCODE_LEN = 0 =>
            /\ text[b].line \in 1..(ln - 1)
            /\ \A c \in Bytes : c < b /\ c % OPCODE_LEN = 0 => text[c].line <= text[b].line
    BY <1>1 DEF Filled
  <1>8. \A b \in Bytes : b < text_offset /\ b % OPCODE_LEN = 0 => text[b].line \in 1..(ln' - 1)
    BY <1>1, <1>2, <1>7
  <1>9. ln' <= Len(file) + 1
    BY <1>1, <1>2
  <1> QED
    BY <1>1, <1>2, <1>6, <1>7, <1>8, <1>9 DEF Filled, Bytes

(* Every step of either pass keeps the segments filled.                    *)
LEMMA FilledStep ==
    ASSUME TypeOK, CapacityRespected, Filled, [Next]_vars
    PROVE  Filled'
  <1>1. Len(file) \in Nat /\ ln \in Nat /\ DATA_SIZE \in Nat
    BY DataSizeAssumption DEF TypeOK
  <1>2. \A b \in Bytes : b \in Nat
    BY <1>1 DEF Bytes
  <1>3. CASE phase' \notin {"assemble", "done"}
    BY <1>3 DEF Filled
  <1>4. CASE ScanEnd
    <2>1. phase' = "assemble" /\ ln' = 1 /\ text_offset' = 0 /\ data_offset' = 0 /\ file' = file
      BY <1>4 DEF ScanEnd
    <2>2. \A b \in Bytes : ~(b < 0)
      BY <1>2
    <2>3. 0 % OPCODE_LEN = 0 /\ ln' <= Len(file') + 1
      BY <1>1, <2>1 DEF OPCODE_LEN
    <2> QED
      BY <2>1, <2>2, <2>3 DEF Filled
  <1>5. CASE AssembleText
    BY <1>5, FilledText
  <1>6. CASE AssembleData
    BY <1>6, FilledData
  <1>7. CASE AssembleBlank \/ AssembleDot \/ AssembleBss
    <2>1. /\ phase = "assemble" /\ phase' = phase /\ ln' = ln + 1 /\ ln <= Len(file)
          /\ UNCHANGED <<file, text, data, text_offset, data_offset>>
      BY <1>7 DEF AssembleBlank, AssembleDot, AssembleBss, AssembleOn, Reads
    <2>2. ln' <= Len(file) + 1 /\ \A k : k \in 1..(ln - 1) => k \in 1..(ln' - 1)
      BY <1>1, <2>1
    <2> QED
      BY <2>1, <2>2 DEF Filled, Bytes
  <1>8. CASE AssembleEnd
    BY <1>8 DEF AssembleEnd, PublishSizes, Filled, Bytes
  <1>9. CASE Returned \/ UNCHANGED vars
    BY <1>9 DEF Returned, vars, Filled, Bytes
  <1>10. CASE ScanBlank \/ ScanDot \/ ScanLabelRefused \/ ScanStatement
              \/ Unreadable \/ AssembleFail
    <2>1. phase' \in {"scan", "failed"}
      BY <1>10 DEF ScanBlank, ScanDot, ScanLabelRefused, ScanStatement, ScanOn, ScanFail,
         Return, Reads, Unreadable, AssembleFail
    <2> QED
      BY <1>3, <2>1
  <1> QED
    BY <1>4, <1>5, <1>6, <1>7, <1>8, <1>9, <1>10 DEF Next, Scan, Assemble

(* No file, not even one replaced between the passes, leaves a gap in an   *)
(* assembled image or has a later line in front of an earlier one.         *)
THEOREM NoGap == ReplacingSpec => []ImageFilled
  <1> DEFINE I == TypeOK /\ UniqueNames /\ CapacityRespected /\ Filled
  <1>1. Init => I
    <2>1. Init => Filled
      BY DEF Init, Filled
    <2> QED
      BY <2>1, InvInit DEF IInv
  <1>2. ASSUME I, [Next \/ Replace]_vars PROVE I'
    <2>1. CASE [Next]_vars
      BY <1>2, <2>1, TypeStep, UniqueStep, CapacityStep, FilledStep
    <2>2. CASE Replace
      <3>1. /\ file' \in Seq(SourceLine) /\ phase = "assemble" /\ ln = 1
            /\ UNCHANGED <<phase, err, ln, segment, text_offset, data_offset,
                           table, size, text, data, mark>>
        BY <2>2, FilesAssumption DEF Replace
      <3>2. TypeOK' /\ UniqueNames' /\ CapacityRespected'
        BY <1>2, <3>1 DEF TypeOK, Bytes, UniqueNames, CapacityRespected
      <3>3. ln' <= Len(file') + 1
        BY <3>1
      <3>4. Filled'
        BY <1>2, <3>1, <3>3 DEF Filled, Bytes
      <3> QED
        BY <3>2, <3>4
    <2> QED
      BY <1>2, <2>1, <2>2
  <1>3. I => ImageFilled
    <2> SUFFICES ASSUME TypeOK, Filled, phase = "done" PROVE ImageFilled
      BY DEF ImageFilled
    <2>1. /\ Len(file) \in Nat /\ ln \in Nat /\ ln <= Len(file) + 1
          /\ size.text = text_offset /\ size.data = data_offset
          /\ text_offset \in Nat /\ data_offset \in Nat
      BY DEF TypeOK, Filled
    <2>2. \A k : k \in 1..(ln - 1) => k \in 1..Len(file)
      BY <2>1
    <2>3. \A x \in Bytes : \A y \in 0..(x - 1) : y \in Bytes /\ y < x
      BY DataSizeAssumption DEF Bytes
    <2> QED
      BY <2>1, <2>2, <2>3 DEF ImageFilled, Filled
  <1> QED
    BY <1>1, <1>2, <1>3, PTL DEF ReplacingSpec

-----------------------------------------------------------------------------
(* The symbols                                                             *)

Unique(tbl) == \A i, j \in DOMAIN tbl : tbl[i].name = tbl[j].name => i = j

(* Where names are unique, the search ends at the entry of the name.       *)
LEMMA LookupIs ==
    ASSUME NEW tbl \in Seq(Symbol(Labels)), Unique(tbl), NEW k \in DOMAIN tbl
    PROVE  symtable_lookup(tbl, tbl[k].name) = tbl[k].offset
  <1> DEFINE First(i) == /\ tbl[i].name = tbl[k].name
                         /\ \A j \in DOMAIN tbl : j < i => tbl[j].name # tbl[k].name
             c == CHOOSE i \in DOMAIN tbl : First(i)
  <1>1. DOMAIN tbl \subseteq Nat
    OBVIOUS
  <1>2. First(k)
    BY <1>1 DEF Unique
  <1>3. c \in DOMAIN tbl /\ First(c)
    BY <1>2
  <1>4. c = k
    BY <1>3 DEF Unique
  <1>5. symtable_lookup(tbl, tbl[k].name) = tbl[c].offset
    BY DEF symtable_lookup
  <1> QED
    BY <1>4, <1>5

(* An insertion adds one symbol and changes no other.                      *)
LEMMA LookupInsert ==
    ASSUME NEW tbl \in Seq(Symbol(Labels)), Unique(tbl), NEW name \in Labels,
           NEW address \in Nat, NEW type \in SymTypes, symtable_accepts(tbl, name),
           NEW t, t = symtable_insert(tbl, name, address, type)
    PROVE  /\ symtable_lookup(t, name) = address
           /\ \A n \in Names(tbl) : symtable_lookup(t, n) = symtable_lookup(tbl, n)
  <1> DEFINE e == [name |-> name, offset |-> address, type |-> type]
  <1>1. e \in Symbol(Labels)
    BY DEF Symbol
  <1>2. /\ t \in Seq(Symbol(Labels))
        /\ DOMAIN t = 1..(Len(tbl) + 1) /\ DOMAIN tbl = 1..Len(tbl) /\ Len(tbl) \in Nat
        /\ \A i \in 1..Len(tbl) : t[i] = tbl[i]
        /\ t[Len(tbl) + 1] = e
    BY <1>1 DEF symtable_insert
  <1>3. Unique(t)
    BY InsertTable DEF Unique
  <1>4. symtable_lookup(t, name) = address
    <2>1. Len(tbl) + 1 \in DOMAIN t /\ t[Len(tbl) + 1].name = name
          /\ t[Len(tbl) + 1].offset = address
      BY <1>2
    <2>2. symtable_lookup(t, t[Len(tbl) + 1].name) = t[Len(tbl) + 1].offset
      BY <1>2, <1>3, <2>1, LookupIs
    <2> QED
      BY <2>1, <2>2
  <1>5. ASSUME NEW n \in Names(tbl)
        PROVE  symtable_lookup(t, n) = symtable_lookup(tbl, n)
    <2>1. PICK k \in DOMAIN tbl : tbl[k].name = n
      BY DEF Names
    <2>2. k \in DOMAIN t /\ t[k] = tbl[k]
      BY <1>2, <2>1
    <2>3. symtable_lookup(tbl, tbl[k].name) = tbl[k].offset
      BY <2>1, LookupIs
    <2>4. symtable_lookup(t, t[k].name) = t[k].offset
      BY <1>2, <1>3, <2>2, LookupIs
    <2> QED
      BY <2>1, <2>2, <2>3, <2>4
  <1> QED
    BY <1>4, <1>5

(* The value of a label, in the table given.                               *)
SymbolTrue(tbl, j) ==
    symtable_lookup(tbl, file[j].label) =
        IF InText(mark[j].segment) THEN mark[j].text ELSE mark[j].data

(* Neither the table nor the positions change.                             *)
LEMMA SymbolsKept ==
    ASSUME SymbolsTrue, UNCHANGED <<file, table>>,
           \A j \in 1..Len(file) : Measured(j)' =>
               (Measured(j) \/ file[j].label = NoLabel) /\ mark'[j] = mark[j]
    PROVE  SymbolsTrue'
  <1> SUFFICES ASSUME NEW j \in 1..Len(file), Measured(j)', file[j].label # NoLabel
               PROVE  (SymbolTrue(table, j))'
    BY DEF SymbolsTrue, SymbolTrue
  <1>1. SymbolTrue(table, j)
    BY DEF SymbolsTrue, SymbolTrue
  <1> QED
    BY <1>1 DEF SymbolTrue, InText, symtable_lookup

(* A label gets the position of its line.                                  *)
LEMMA SymbolAdded ==
    ASSUME IInv, SymbolsTrue, ScanStatement, phase' = "scan", ln' = ln + 1
    PROVE  SymbolsTrue'
  <1> DEFINE l == file[ln]
  <1>1. /\ ln \in 1..Len(file) /\ table' = Labelled(l) /\ ~LabelRefused(l) /\ phase = "scan"
        /\ Len(file) \in Nat /\ table \in Seq(Symbol(Labels)) /\ Unique(table)
    BY DEF IInv, TypeOK, UniqueNames, Unique, ScanStatement, Reads
  <1>2. file' = file /\ \A j \in 1..ln : mark'[j] = mark[j]
    BY <1>1 DEF IInv, Bounds, ScanStatement, ScanOn, ScanFail, Return
  <1>3. mark[ln] = Here
    BY <1>1 DEF IInv, Positions
  <1>4. l.label \in Labels \cup {NoLabel}
    BY <1>1, LineType DEF IInv, TypeOK
  <1>5. ASSUME l.label # NoLabel
        PROVE  /\ symtable_lookup(table', l.label) = LabelAddress
               /\ \A n \in Names(table) :
                      symtable_lookup(table', n) = symtable_lookup(table, n)
    <2>1. l.label \in Labels /\ symtable_accepts(table, l.label)
      BY <1>1, <1>4, <1>5 DEF LabelRefused
    <2>2. LabelAddress \in Nat /\ LabelType \in SymTypes
      BY DEF LabelAddress, LabelType, SymTypes, IInv, TypeOK
    <2>3. table' = symtable_insert(table, l.label, LabelAddress, LabelType)
      BY <1>1, <1>5 DEF Labelled
    <2> HIDE DEF l
    <2> QED
      BY <1>1, <2>1, <2>2, <2>3, LookupInsert
  <1>6. \A n \in Names(table) : symtable_lookup(table', n) = symtable_lookup(table, n)
    BY <1>1, <1>5 DEF Labelled
  <1>7. ASSUME NEW j \in 1..Len(file), Measured(j)', file[j].label # NoLabel
        PROVE  symtable_lookup(table', file[j].label) =
                   IF InText(mark'[j].segment) THEN mark'[j].text ELSE mark'[j].data
    <2>1. j < ln + 1
      BY <1>7 DEF Measured
    <2>2. CASE j < ln
      <3>1. Measured(j)
        BY <1>1, <2>2 DEF Measured
      <3>2. SymbolTrue(table, j) /\ file[j].label \in Names(table)
        BY <1>7, <3>1 DEF SymbolsTrue, SymbolTrue, IInv, LabelsKnown
      <3>3. mark'[j] = mark[j]
        BY <1>1, <1>2, <2>2
      <3> QED
        BY <1>6, <3>2, <3>3 DEF SymbolTrue
    <2>3. CASE j = ln
      <3>1. mark'[j] = Here
        BY <1>1, <1>2, <1>3, <2>3
      <3> QED
        BY <1>5, <1>7, <2>3, <3>1 DEF LabelAddress, Here
    <2> QED
      BY <1>1, <2>1, <2>2, <2>3
  <1> QED
    BY ZenonT(30), <1>2, <1>7 DEF SymbolsTrue

(* Every step keeps the symbols true.                                      *)
LEMMA SymbolsStep ==
    ASSUME IInv, SymbolsTrue, [Next]_vars
    PROVE  SymbolsTrue'
  <1>1. Len(file) \in Nat /\ ln \in Nat /\ file' = file
    BY BoundsStep DEF IInv, TypeOK
  <1>2. CASE phase' = "failed"
    BY <1>2 DEF SymbolsTrue, Measured
  <1>3. CASE ScanBlank \/ ScanDot
    <2>1. /\ ln \in 1..Len(file) /\ file[ln].kind # "content"
          /\ phase = "scan" /\ phase' = "scan" /\ ln' = ln + 1 /\ table' = table
          /\ \A j \in 1..ln : mark'[j] = mark[j]
      BY <1>1, <1>3 DEF ScanBlank, ScanDot, ScanOn, Reads, IInv, Bounds
    <2>2. file[ln].label = NoLabel
      BY <2>1, LineType DEF IInv, TypeOK, WellFormedLine
    <2>3. ASSUME NEW j \in 1..Len(file), Measured(j)'
          PROVE  (Measured(j) \/ file[j].label = NoLabel) /\ mark'[j] = mark[j]
      <3>1. j < ln + 1
        BY <2>1, <2>3 DEF Measured
      <3> QED
        BY <1>1, <2>1, <2>2, <3>1 DEF Measured
    <2> QED
      BY <1>1, <2>1, <2>3, SymbolsKept
  <1>4. CASE ScanStatement
    <2>1. \/ phase' = "scan" /\ ln' = ln + 1
          \/ phase' = "failed"
      BY <1>4 DEF ScanStatement, ScanOn, ScanFail, Return, Reads
    <2> QED
      BY <1>2, <1>4, <2>1, SymbolAdded
  <1>5. CASE ScanEnd
    <2>1. /\ phase = "scan" /\ ln > Len(file) /\ UNCHANGED <<table, mark>>
      BY <1>5 DEF ScanEnd
    <2>2. \A j \in 1..Len(file) : Measured(j)
      BY <1>1, <2>1 DEF Measured
    <2> QED
      BY <1>1, <2>1, <2>2, SymbolsKept
  <1>6. CASE Assemble
    <2>1. UNCHANGED <<table, mark>> /\ phase = "assemble"
      BY <1>6 DEF Assemble, AssembleBlank, AssembleDot, AssembleText, AssembleData,
         AssembleBss, AssembleFail, AssembleEnd, AssembleOn, Reads
    <2>2. \A j \in 1..Len(file) : Measured(j)
      BY <2>1 DEF Measured
    <2> QED
      BY <1>1, <2>1, <2>2, SymbolsKept
  <1>7. CASE Returned \/ UNCHANGED vars
    <2>1. UNCHANGED <<phase, ln, table, mark>>
      BY <1>7 DEF Returned, vars
    <2>2. \A j \in 1..Len(file) : Measured(j)' => Measured(j)
      BY <2>1 DEF Measured
    <2> QED
      BY <1>1, <2>1, <2>2, SymbolsKept
  <1>8. CASE ScanLabelRefused \/ Unreadable
    BY <1>2, <1>8 DEF ScanLabelRefused, ScanFail, Unreadable, Return
  <1> QED
    BY <1>3, <1>4, <1>5, <1>6, <1>7, <1>8 DEF Next, Scan

-----------------------------------------------------------------------------
(* The words and the bytes                                                 *)

(* No instruction is laid down across the start of another.                *)
LEMMA AlignedStep ==
    ASSUME IInv, Aligned, [Next]_vars
    PROVE  Aligned'
  <1>1. TypeOK /\ CapacityRespected
    BY DEF IInv
  <1>2. CASE AssembleText
    <2>1. phase = "assemble" /\ text_offset % OPCODE_LEN = 0 /\ text_offset \in Nat
      BY <1>1, <1>2 DEF AssembleText, Reads, Aligned, TypeOK
    <2>2. ASSUME NEW o \in Bytes, o % OPCODE_LEN # 0 PROVE text'[o] = NoWord
      <3>1. o # text_offset /\ o # text_offset + OPCODE_LEN
        BY <2>1, <2>2 DEF OPCODE_LEN
      <3>2. text'[o] = text[o]
        BY <1>1, <1>2, <2>1, <3>1, TextLaid
      <3> QED
        BY <2>2, <3>2 DEF Aligned
    <2>3. text_offset' % OPCODE_LEN = 0
      BY <1>1, <1>2, <2>1, TextLaid
    <2> QED
      BY <2>2, <2>3 DEF Aligned, Bytes, NoWord
  <1>3. CASE UNCHANGED text /\ (phase' \in {"assemble", "done"} =>
                  text_offset' = 0 \/ (text_offset' = text_offset /\ phase \in {"assemble", "done"}))
    <2>1. 0 % OPCODE_LEN = 0
      BY DEF OPCODE_LEN
    <2> QED
      BY <1>3, <2>1 DEF Aligned, Bytes, NoWord
  <1>4. CASE ScanEnd
    BY <1>3, <1>4 DEF ScanEnd
  <1>5. CASE ScanBlank \/ ScanDot \/ ScanLabelRefused \/ ScanStatement
    BY <1>3, <1>5 DEF ScanBlank, ScanDot, ScanLabelRefused, ScanStatement, ScanOn, ScanFail,
       Return, Reads
  <1>6. CASE AssembleBlank \/ AssembleDot \/ AssembleData \/ AssembleBss
    BY <1>3, <1>6 DEF AssembleBlank, AssembleDot, AssembleData, AssembleBss, AssembleOn, Reads
  <1>7. CASE AssembleFail \/ AssembleEnd \/ Unreadable
    BY <1>3, <1>7 DEF AssembleFail, AssembleEnd, Unreadable, Return
  <1>8. CASE Returned \/ UNCHANGED vars
    BY <1>3, <1>8 DEF Returned, vars
  <1> QED
    BY <1>2, <1>4, <1>5, <1>6, <1>7, <1>8 DEF Next, Scan, Assemble

(* What lies where it should stays there.                                  *)
LEMMA WordKept ==
    ASSUME NEW o, WordTrue(o), text'[o] = text[o], UNCHANGED <<file, mark, size, table>>,
           Assembled(text[o].line) => Assembled(text[o].line)'
    PROVE  WordTrue(o)'
  <1>1. PICK k : k = text[o].line
    OBVIOUS
  <1>2. /\ text'[o].line \in 1..Len(file')
        /\ phase' = "done" \/ (phase' = "assemble" /\ text'[o].line < ln')
    BY <1>1 DEF WordTrue, Assembled
  <1>3. /\ file'[text'[o].line].kind = "content" /\ InText(mark'[text'[o].line].segment)
        /\ o < mark'[text'[o].line + 1].text
        /\ text'[o].half \in {1, 2} /\ o = mark'[text'[o].line].text + OPCODE_LEN * (text'[o].half - 1)
    BY DEF WordTrue
  <1>4. file'[text'[o].line].stmt.op = "la" => file'[text'[o].line].stmt.sym \in Names(table')
    BY DEF WordTrue
  <1>5. text'[o].rel = IF file'[text'[o].line].stmt.op = "la"
                THEN size'.text - mark'[text'[o].line].text
                         + symtable_lookup(table', file'[text'[o].line].stmt.sym)
                ELSE 0
    BY DEF WordTrue
  <1> QED
    BY <1>2, <1>3, <1>4, <1>5, ZenonT(30)
       DEF WordTrue, Assembled, InText, OPCODE_LEN, symtable_lookup, Names

(* The same for a byte of .data.                                           *)
LEMMA ByteKept ==
    ASSUME NEW x, ByteTrue(x), data'[x] = data[x], UNCHANGED <<file, mark>>,
           Assembled(data[x]) => Assembled(data[x])'
    PROVE  ByteTrue(x)'
  BY DEF ByteTrue, Assembled

(* The second pass stands where the first did, and goes where it went.     *)
LEMMA Standing ==
    ASSUME IInv, Reads("assemble", "content")
    PROVE  /\ ln \in 1..Len(file) /\ Len(file) \in Nat
           /\ mark[ln] = Here
           /\ Moves(file[ln], Here, mark[ln + 1])
  <1>1. ln \in 1..Len(file) /\ Len(file) \in Nat
    BY DEF IInv, TypeOK, Reads
  <1>2. mark[ln] = Here /\ Advanced(ln)
    BY <1>1 DEF IInv, Positions, Reads, Measured
  <1> QED
    BY <1>1, <1>2 DEF Advanced

(* The words of an instruction are those of its line.                      *)
LEMMA PlacedText ==
    ASSUME IInv, Aligned, Placed, AssembleText
    PROVE  Placed'
  <1> DEFINE s == file[ln].stmt
  <1>1. /\ TypeOK /\ CapacityRespected /\ phase = "assemble" /\ phase' = "assemble"
        /\ InText(segment) /\ ln' = ln + 1 /\ Reads("assemble", "content")
        /\ UNCHANGED <<file, mark, size, table, data, data_offset>>
        /\ text_offset % OPCODE_LEN = 0 /\ text_offset \in Nat
        /\ file[ln].kind = "content"
    BY DEF IInv, TypeOK, AssembleText, AssembleOn, Reads, Aligned
  <1>2. /\ ln \in 1..Len(file) /\ Len(file) \in Nat
        /\ mark[ln].text = text_offset /\ mark[ln].segment = segment
        /\ mark[ln + 1].text = text_offset'
    <2>1. Moves(file[ln], Here, mark[ln + 1]) /\ mark[ln] = Here
      BY <1>1, Standing
    <2>2. segment # "data"
      BY <1>1 DEF InText
    <2>3. mark[ln + 1] = [Here EXCEPT !.text = Here.text + OPCODE_LEN * Words(s)]
      BY <1>1, <2>1, <2>2 DEF Moves, Here
    <2>4. text_offset' = text_offset + OPCODE_LEN * Words(s)
      BY DEF AssembleText, AssembleOn
    <2> QED
      BY <1>1, <2>1, <2>3, <2>4, Standing DEF Here
  <1>3. \A b \in Bytes : b \in Nat
    BY DataSizeAssumption DEF Bytes
  <1>4. \A k \in 1..Len(file) : Assembled(k) => Assembled(k)'
    BY <1>1, <1>2 DEF Assembled
  <1>5. /\ s.op = "la" => s.sym \in Names(table)
        /\ RelativeAddress(s) =
               IF s.op = "la" THEN size.text - text_offset + symtable_lookup(table, s.sym)
                              ELSE 0
    <2>1. CASE s.op = "la"
      <3>1. s.sym \in Names(table)
        <4>1. TextError(file[ln]) = "OK"
          BY <1>1 DEF AssembleText, AssembleError
        <4> QED
          BY <2>1, <4>1 DEF TextError, expand_pseudo_instr
      <3>2. symtable_lookup(table, s.sym) \in Nat
        BY <3>1, LookupType DEF IInv, TypeOK, UniqueNames
      <3>3. size.text \in Nat /\ base_vaddr \in Nat
        BY <1>1, BaseAssumption DEF TypeOK
      <3> QED
        BY <1>1, <2>1, <3>1, <3>2, <3>3
           DEF RelativeAddress, get_data_vaddr, get_text_vaddr, HEADERS_LEN
    <2>2. CASE s.op # "la"
      BY <2>2 DEF RelativeAddress
    <2> QED
      BY <2>1, <2>2
  <1>6. ASSUME NEW o \in Bytes, o < text_offset', o % OPCODE_LEN = 0
        PROVE  WordTrue(o)'
    <2>1. CASE o < text_offset
      <3>1. WordTrue(o)
        BY <1>1, <1>6, <2>1 DEF Placed
      <3>2. o # text_offset /\ o # text_offset + OPCODE_LEN
        BY <1>1, <1>3, <2>1 DEF OPCODE_LEN
      <3>3. text'[o] = text[o]
        BY <1>1, <3>2, TextLaid
      <3>4. text[o].line \in 1..Len(file)
        BY <3>1 DEF WordTrue
      <3> QED
        BY <1>1, <1>4, <3>1, <3>3, <3>4, WordKept
    <2>2. CASE o >= text_offset
      <3>1. PICK h \in {0, 1} :
                /\ o = text_offset + OPCODE_LEN * h
                /\ text'[o] = [line |-> ln, half |-> 1 + h, rel |-> RelativeAddress(s)]
        <4>1. \/ o = text_offset
              \/ o = text_offset + OPCODE_LEN /\ Words(s) = 2
          BY <1>1, <1>6, <2>2, TextLaid
        <4>2. CASE o = text_offset
          <5>1. text'[o] = [line |-> ln, half |-> 1, rel |-> RelativeAddress(s)]
            BY <1>1, <4>2, TextLaid
          <5>2. o = text_offset + OPCODE_LEN * 0 /\ 1 + 0 = 1
            BY <1>1, <4>2 DEF OPCODE_LEN
          <5> QED
            BY <5>1, <5>2
        <4>3. CASE o = text_offset + OPCODE_LEN /\ Words(s) = 2
          <5>1. o # text_offset
            BY <1>1, <4>3 DEF OPCODE_LEN
          <5>2. text'[o] = [line |-> ln, half |-> 2, rel |-> RelativeAddress(s)]
            BY <1>1, <4>3, <5>1, TextLaid
          <5>3. o = text_offset + OPCODE_LEN * 1 /\ 1 + 1 = 2
            BY <1>1, <4>3 DEF OPCODE_LEN
          <5> QED
            BY <5>2, <5>3
        <4> QED
          BY <4>1, <4>2, <4>3
      <3>2. 1 + h \in {1, 2} /\ (1 + h) - 1 = h
        OBVIOUS
      <3>3. PICK k \in 1..Len(file) : k = ln
        BY <1>2
      <3>4. /\ text'[o].line = k /\ text'[o].half = 1 + h
            /\ text'[o].rel = RelativeAddress(s)
        BY <3>1, <3>3
      <3>5. Assembled(k)'
        BY <1>1, <1>2, <3>3 DEF Assembled
      <3>6. /\ mark'[k].text = text_offset /\ mark'[k + 1].text = text_offset'
            /\ InText(mark'[k].segment) /\ file'[k].kind = "content"
            /\ k \in 1..Len(file')
        BY <1>1, <1>2, <3>3
      <3>7. text'[o].rel =
               IF file'[k].stmt.op = "la"
               THEN size'.text - mark'[k].text + symtable_lookup(table', file'[k].stmt.sym)
               ELSE 0
        BY <1>1, <1>5, <3>3, <3>4, <3>6
      <3>8. o = mark'[k].text + OPCODE_LEN * (text'[o].half - 1) /\ text'[o].half \in {1, 2}
        BY <3>1, <3>2, <3>4, <3>6
      <3>9. file'[k].stmt.op = "la" => file'[k].stmt.sym \in Names(table')
        BY <1>1, <1>5, <3>3
      <3> QED
        BY <1>1, <1>6, <3>4, <3>5, <3>6, <3>7, <3>8, <3>9
           DEF WordTrue, Assembled, InText, OPCODE_LEN, symtable_lookup, Names
    <2> QED
      BY <1>1, <1>3, <2>1, <2>2
  <1>7. ASSUME NEW x \in Bytes, x < data_offset' PROVE ByteTrue(x)'
    <2>1. ByteTrue(x)
      BY <1>1, <1>7 DEF Placed
    <2>2. data[x] \in 1..Len(file)
      BY <2>1 DEF ByteTrue
    <2> QED
      BY <1>1, <1>4, <2>1, <2>2, ByteKept
  <1> QED
    BY <1>1, <1>6, <1>7 DEF Placed, Bytes, OPCODE_LEN

(* The bytes of a directive are those of its line.                         *)
LEMMA PlacedData ==
    ASSUME IInv, Placed, AssembleData
    PROVE  Placed'
  <1>1. /\ TypeOK /\ phase = "assemble" /\ phase' = "assemble"
        /\ segment = "data" /\ ln' = ln + 1 /\ Reads("assemble", "content")
        /\ UNCHANGED <<file, mark, size, table, text, text_offset>>
        /\ data_offset \in Nat /\ file[ln].kind = "content"
    BY DEF IInv, TypeOK, AssembleData, AssembleOn, Reads
  <1>2. /\ ln \in 1..Len(file) /\ Len(file) \in Nat
        /\ mark[ln].data = data_offset /\ mark[ln].segment = "data"
        /\ mark[ln + 1].data = data_offset'
    <2>1. Moves(file[ln], Here, mark[ln + 1]) /\ mark[ln] = Here
      BY <1>1, Standing
    <2>2. ~InText(segment)
      BY <1>1 DEF InText
    <2>3. mark[ln + 1] = [Here EXCEPT !.data = Here.data + file[ln].stmt.n]
      BY <1>1, <2>1, <2>2 DEF Moves, Here
    <2>4. data_offset' = data_offset + file[ln].stmt.n
      BY DEF AssembleData, AssembleOn
    <2> QED
      BY <1>1, <2>1, <2>3, <2>4, Standing DEF Here
  <1>3. \A b \in Bytes : b \in Nat
    BY DataSizeAssumption DEF Bytes
  <1>4. \A k \in 1..Len(file) : Assembled(k) => Assembled(k)'
    BY <1>1, <1>2 DEF Assembled
  <1>5. ASSUME NEW o \in Bytes, o < text_offset', o % OPCODE_LEN = 0
        PROVE  WordTrue(o)'
    <2>1. WordTrue(o)
      BY <1>1, <1>5 DEF Placed
    <2>2. text[o].line \in 1..Len(file)
      BY <2>1 DEF WordTrue
    <2> QED
      BY <1>1, <1>4, <2>1, <2>2, WordKept
  <1>6. ASSUME NEW x \in Bytes, x < data_offset' PROVE ByteTrue(x)'
    <2>1. CASE x < data_offset
      <3>1. ByteTrue(x) /\ data'[x] = data[x]
        BY <1>1, <2>1, DataLaid DEF Placed
      <3>2. data[x] \in 1..Len(file)
        BY <3>1 DEF ByteTrue
      <3> QED
        BY <1>1, <1>4, <3>1, <3>2, ByteKept
    <2>2. CASE x >= data_offset
      <3>1. PICK k \in 1..Len(file) : k = ln
        BY <1>2
      <3>2. data'[x] = k
        BY <1>1, <1>6, <2>2, <3>1, DataLaid
      <3>3. Assembled(k)'
        BY <1>1, <1>2, <3>1 DEF Assembled
      <3>4. mark'[k].data <= x /\ x < mark'[k + 1].data
        BY <1>1, <1>2, <1>6, <2>2, <3>1
      <3> QED
        BY <1>1, <1>2, <3>1, <3>2, <3>3, <3>4 DEF ByteTrue, Assembled
    <2> QED
      BY <1>1, <1>3, <2>1, <2>2
  <1> QED
    BY <1>1, <1>5, <1>6 DEF Placed, Bytes, OPCODE_LEN

(* Every step keeps what is laid down in place.                            *)
LEMMA PlacedStep ==
    ASSUME IInv, Aligned, Placed, [Next]_vars
    PROVE  Placed'
  <1>1. Len(file) \in Nat /\ ln \in Nat /\ file' = file
    BY BoundsStep DEF IInv, TypeOK
  <1>2. CASE phase' \in {"scan", "failed"}
    BY <1>2 DEF Placed
  <1>3. CASE ScanEnd
    <2>1. \A b \in Bytes : ~(b < 0)
      BY DataSizeAssumption DEF Bytes
    <2>2. text_offset' = 0 /\ data_offset' = 0
      BY <1>3 DEF ScanEnd
    <2> QED
      BY <1>3, <2>1, <2>2 DEF ScanEnd, Placed, Bytes
  <1>4. CASE ScanBlank \/ ScanDot \/ ScanLabelRefused \/ ScanStatement
            \/ AssembleFail \/ Unreadable
    BY <1>2, <1>4 DEF ScanBlank, ScanDot, ScanLabelRefused, ScanStatement, ScanOn, ScanFail,
       Return, Reads, AssembleFail, Unreadable
  <1>5. CASE AssembleText
    BY <1>5, PlacedText
  <1>6. CASE AssembleData
    BY <1>6, PlacedData
  <1>7. ASSUME phase \in {"assemble", "done"}, UNCHANGED <<mark, size, table, text, data,
                                                           text_offset, data_offset>>,
               \A k \in 1..Len(file) : Assembled(k) => Assembled(k)',
               phase' = "done" => phase = "done"
                                  \/ size = [text |-> text_offset, data |-> data_offset]
        PROVE  Placed'
    <2>1. ASSUME NEW o \in Bytes, o < text_offset', o % OPCODE_LEN = 0
          PROVE  WordTrue(o)'
      <3>1. WordTrue(o)
        BY <1>7, <2>1 DEF Placed
      <3>2. text[o].line \in 1..Len(file)
        BY <3>1 DEF WordTrue
      <3> QED
        BY <1>1, <1>7, <3>1, <3>2, WordKept
    <2>2. ASSUME NEW x \in Bytes, x < data_offset' PROVE ByteTrue(x)'
      <3>1. ByteTrue(x)
        BY <1>7, <2>2 DEF Placed
      <3>2. data[x] \in 1..Len(file)
        BY <3>1 DEF ByteTrue
      <3> QED
        BY <1>1, <1>7, <3>1, <3>2, ByteKept
    <2> QED
      BY <1>7, <2>1, <2>2 DEF Placed, Bytes, OPCODE_LEN
  <1>8. CASE AssembleBlank \/ AssembleDot \/ AssembleBss
    <2>1. /\ phase = "assemble" /\ ln' = ln + 1 /\ phase' = phase
          /\ UNCHANGED <<mark, size, table, text, data, text_offset, data_offset>>
      BY <1>8 DEF AssembleBlank, AssembleDot, AssembleBss, AssembleOn, Reads
    <2>2. \A k \in 1..Len(file) : Assembled(k) => Assembled(k)'
      BY <1>1, <2>1 DEF Assembled
    <2> QED
      BY <1>7, <2>1, <2>2
  <1>9. CASE AssembleEnd
    <2>1. /\ phase = "assemble" /\ phase' = "done" /\ ln > Len(file)
          /\ size' = [text |-> text_offset, data |-> data_offset]
          /\ UNCHANGED <<mark, table, text, data, text_offset, data_offset>>
      BY <1>9 DEF AssembleEnd, PublishSizes
    <2>2. ln = Len(file) + 1
      BY <1>1, <2>1 DEF IInv, Bounds
    <2>3. size' = size
      BY <2>1, <2>2 DEF IInv, Positions, Here
    <2>4. \A k \in 1..Len(file) : Assembled(k)'
      BY <2>1 DEF Assembled
    <2> QED
      BY <1>7, <2>1, <2>3, <2>4
  <1>10. CASE Returned \/ UNCHANGED vars
    <2>1. UNCHANGED <<phase, ln, mark, size, table, text, data, text_offset, data_offset>>
      BY <1>10 DEF Returned, vars
    <2>2. \A k \in 1..Len(file) : Assembled(k) => Assembled(k)'
      BY <2>1 DEF Assembled
    <2>3. CASE phase \in {"assemble", "done"}
      BY <1>7, <2>1, <2>2, <2>3
    <2>4. CASE phase \notin {"assemble", "done"}
      BY <2>1, <2>4 DEF Placed
    <2> QED
      BY <2>3, <2>4
  <1> QED
    BY <1>3, <1>4, <1>5, <1>6, <1>8, <1>9, <1>10 DEF Next, Scan, Assemble

(* The segments are empty when the passes begin.                           *)
LEMMA ImageInit ==
    ASSUME Init PROVE ImageInv
  <1>1. IInv
    BY InvInit
  <1>2. phase = "scan" /\ ln = 1 /\ text = [b \in Bytes |-> NoWord]
    BY DEF Init
  <1>3. \A j \in 1..Len(file) : ~Measured(j)
    BY <1>1, <1>2 DEF Measured, IInv, TypeOK
  <1> QED
    BY <1>1, <1>2, <1>3 DEF ImageInv, SymbolsTrue, Aligned, Placed

(* Every step of either pass keeps what the segments and the table hold.   *)
LEMMA ImageStep ==
    ASSUME ImageInv, [Next]_vars PROVE ImageInv'
  <1>1. IInv'
    BY InvStep DEF ImageInv
  <1> QED
    BY <1>1, SymbolsStep, AlignedStep, PlacedStep DEF ImageInv

(* The image grows as the lines call for: every word, byte and symbol is   *)
(* where the first pass measured its line.                                 *)
THEOREM ImageInvariance == Spec => []ImageInv
  <1>1. Init => ImageInv
    BY ImageInit
  <1>2. ImageInv /\ [Next]_vars => ImageInv'
    BY ImageStep
  <1> QED
    BY <1>1, <1>2, PTL DEF Spec

-----------------------------------------------------------------------------
(* The way from an instruction to its data                                 *)

(* Induction, for a set in place of a predicate: the natural numbers are   *)
(* well-founded, so a number outside the set would have a least one.       *)
LEMMA SetInduction ==
    ASSUME NEW T, 0 \in T, \A n \in Nat : n \in T => n + 1 \in T
    PROVE  \A n \in Nat : n \in T
  <1> DEFINE R == {p \in Nat \X Nat : p[1] < p[2]}
             U == Nat \ T
  <1>1. IsWellFoundedOn(R, Nat)
    BY NatLessThanWellFounded DEF OpToRel
  <1>2. ASSUME U # {} PROVE FALSE
    <2>1. PICK n \in U : \A m \in U : ~(<<m, n>> \in R)
      <3>1. U \subseteq Nat
        OBVIOUS
      <3> HIDE DEF R, U
      <3> QED
        BY <1>1, <1>2, <3>1, WFMin
    <2>2. n # 0 /\ n \in Nat
      OBVIOUS
    <2>3. n - 1 \in Nat /\ n - 1 \notin T
      BY <2>2
    <2>4. <<n - 1, n>> \in R
      BY <2>2, <2>3
    <2> QED
      BY <2>1, <2>3, <2>4
  <1> QED
    BY <1>2

(* The position of a line and of the one behind it.                        *)
LEMMA MarkStep ==
    ASSUME IInv, phase \in {"assemble", "done"}, NEW j \in 1..Len(file)
    PROVE  /\ mark[j] \in Position /\ mark[j + 1] \in Position
           /\ mark[j].text <= mark[j + 1].text /\ mark[j].data <= mark[j + 1].data
           /\ Moves(file[j], mark[j], mark[j + 1])
  <1>1. Len(file) \in Nat /\ j \in DOMAIN mark /\ j + 1 \in DOMAIN mark
    BY DEF IInv, TypeOK, Bounds
  <1>2. mark[j] \in Position /\ mark[j + 1] \in Position
    BY <1>1 DEF IInv, TypeOK
  <1>3. Moves(file[j], mark[j], mark[j + 1])
    BY DEF IInv, Positions, Measured, Advanced
  <1>4. file[j] \in Line /\ Words(file[j].stmt) \in 0..2 /\ file[j].stmt.n \in Nat
    BY LineType, WordsType DEF IInv, TypeOK
  <1>5. file[j].kind \in {"blank", "dot", "content"}
    BY <1>4 DEF Line
  <1>6. mark[j].text \in Nat /\ mark[j].data \in Nat
    BY <1>2 DEF Position
  <1>7. mark[j].text <= mark[j + 1].text /\ mark[j].data <= mark[j + 1].data
    <2>1. CASE file[j].kind = "blank"
      BY <1>3, <1>6, <2>1 DEF Moves
    <2>2. CASE file[j].kind = "dot"
      BY <1>2, <1>3, <1>6, <2>2 DEF Moves, Position
    <2>3. CASE file[j].kind = "content"
      <3>1. \/ mark[j + 1] = [mark[j] EXCEPT !.text = mark[j].text +
                                                 OPCODE_LEN * Words(file[j].stmt)]
            \/ mark[j + 1] = [mark[j] EXCEPT !.data = mark[j].data + file[j].stmt.n]
        BY <1>3, <2>3 DEF Moves
      <3>2. \/ /\ mark[j + 1].text = mark[j].text + OPCODE_LEN * Words(file[j].stmt)
               /\ mark[j + 1].data = mark[j].data
            \/ /\ mark[j + 1].text = mark[j].text
               /\ mark[j + 1].data = mark[j].data + file[j].stmt.n
        BY <1>2, <3>1 DEF Position
      <3> QED
        BY <1>4, <1>6, <3>2 DEF OPCODE_LEN
    <2> QED
      BY <1>5, <2>1, <2>2, <2>3
  <1> QED
    BY <1>2, <1>3, <1>7

(* The positions of a file that has been measured never go back.           *)
LEMMA MarksOrdered ==
    ASSUME IInv, phase \in {"assemble", "done"},
           NEW i \in 1..(Len(file) + 1), NEW j \in 1..(Len(file) + 1), i <= j
    PROVE  mark[i].text <= mark[j].text /\ mark[i].data <= mark[j].data
  <1> DEFINE T == {n \in Nat : i + n <= Len(file) + 1 =>
                       mark[i].text <= mark[i + n].text /\ mark[i].data <= mark[i + n].data}
  <1>1. Len(file) \in Nat /\ i \in Nat /\ j \in Nat
    BY DEF IInv, TypeOK
  <1>2. \A k \in 1..(Len(file) + 1) : mark[k].text \in Nat /\ mark[k].data \in Nat
    BY DEF IInv, TypeOK, Bounds, Position
  <1>3. 0 \in T
    BY <1>1, <1>2
  <1>4. ASSUME NEW n \in Nat, n \in T PROVE n + 1 \in T
    <2> SUFFICES ASSUME i + (n + 1) <= Len(file) + 1
                 PROVE  /\ mark[i].text <= mark[i + (n + 1)].text
                        /\ mark[i].data <= mark[i + (n + 1)].data
      OBVIOUS
    <2>1. i + n \in 1..Len(file) /\ i + (n + 1) = (i + n) + 1
          /\ i + (n + 1) \in 1..(Len(file) + 1) /\ i + n \in 1..(Len(file) + 1)
      BY <1>1
    <2>2. mark[i].text <= mark[i + n].text /\ mark[i].data <= mark[i + n].data
      BY <1>1, <1>4, <2>1
    <2>3. /\ mark[i + n].text <= mark[(i + n) + 1].text
          /\ mark[i + n].data <= mark[(i + n) + 1].data
      BY <2>1, MarkStep
    <2>4. /\ mark[i].text \in Nat /\ mark[i].data \in Nat
          /\ mark[i + n].text \in Nat /\ mark[i + n].data \in Nat
          /\ mark[i + (n + 1)].text \in Nat /\ mark[i + (n + 1)].data \in Nat
      BY <1>2, <2>1
    <2> QED
      BY SMTT(30), <2>1, <2>2, <2>3, <2>4
  <1>5. \A n \in Nat : n \in T
    <2> HIDE DEF T
    <2> QED
      BY <1>3, <1>4, SetInduction
  <1>6. j - i \in T /\ i + (j - i) = j
    <2>1. j - i \in Nat
      BY <1>1
    <2> QED
      BY <1>1, <1>5, <2>1
  <1> QED
    BY <1>1, <1>6

(* The distance a la carries ends at the first byte of its symbol.         *)
LEMMA LaReachesIs ==
    ASSUME ImageInv PROVE LaReachesData
  <1> SUFFICES ASSUME phase = "done", NEW o \in Bytes, NEW j \in 1..Len(file),
                      o < size.text, text[o].half = 1,
                      file[text[o].line].stmt.op = "la",
                      file[j].kind = "content",
                      file[j].label = file[text[o].line].stmt.sym
               PROVE  LET b == TextAddress(o) + text[o].rel - DataAddress(0)
                      IN  /\ b \in 0..size.data
                          /\ \A x \in 0..(size.data - 1) : data[x] >= j <=> x >= b
    BY DEF LaReachesData
  <1>1. IInv /\ SymbolsTrue /\ Aligned /\ Placed
    BY DEF ImageInv
  <1>2. /\ Len(file) \in Nat /\ size.text = text_offset /\ size.data = data_offset
        /\ text_offset \in Nat /\ data_offset \in Nat /\ data_offset <= DATA_SIZE
        /\ DATA_SIZE \in Nat /\ base_vaddr \in Nat
        /\ size.data = mark[Len(file) + 1].data
    BY <1>1, DataSizeAssumption, BaseAssumption
       DEF IInv, TypeOK, Placed, CapacityRespected, Positions
  <1>3. o % OPCODE_LEN = 0
    BY <1>1 DEF Aligned, NoWord
  <1>4. WordTrue(o)
    BY <1>1, <1>2, <1>3 DEF Placed
  <1>5. PICK l \in 1..Len(file) : l = text[o].line
    BY <1>4 DEF WordTrue
  <1>6. /\ o = mark[l].text + OPCODE_LEN * (1 - 1) /\ file[l].stmt.sym \in Names(table)
        /\ text[o].rel = size.text - mark[l].text + symtable_lookup(table, file[l].stmt.sym)
    BY <1>4, <1>5 DEF WordTrue
  <1>7. file[j].label # NoLabel
    <2>1. file[l].stmt.sym \in Labels
      <3>1. PICK i \in DOMAIN table : table[i].name = file[l].stmt.sym
        BY <1>6 DEF Names
      <3>2. table[i] \in Symbol(Labels)
        BY <1>1 DEF IInv, TypeOK
      <3> QED
        BY <3>1, <3>2 DEF Symbol
    <2> QED
      BY <1>5, <2>1, NoLabelAssumption
  <1>8. /\ Moves(file[j], mark[j], mark[j + 1])
        /\ InText(mark[j].segment) => file[j].label = NoLabel
    BY <1>1, MarkStep DEF IInv, Shapes, Assembled
  <1>9. ~InText(mark[j].segment)
    BY <1>7, <1>8
  <1>10. symtable_lookup(table, file[j].label) = mark[j].data
    BY <1>1, <1>7, <1>9 DEF SymbolsTrue, Measured
  <1>11. /\ mark[j].data \in Nat /\ mark[l].text \in Nat
         /\ mark[j].data <= mark[Len(file) + 1].data
    <2>1. /\ j \in 1..(Len(file) + 1) /\ Len(file) + 1 \in 1..(Len(file) + 1)
          /\ j <= Len(file) + 1
      BY <1>2
    <2> QED
      BY <1>1, <2>1, MarkStep, MarksOrdered DEF Position
  <1> DEFINE b == TextAddress(o) + text[o].rel - DataAddress(0)
  <1>12. b = mark[j].data
    <2>1. text[o].rel = size.text - o + mark[j].data /\ o \in Nat
      <3>1. o = mark[l].text /\ o \in Nat
        BY <1>6, <1>11 DEF OPCODE_LEN
      <3>2. file[l].stmt.sym = file[j].label
        BY <1>5
      <3> QED
        BY <1>6, <1>10, <3>1, <3>2
    <2>2. PICK m \in Nat : m = mark[j].data
      BY <1>11
    <2>3. PICK r \in Int : r = text[o].rel
      BY <1>2, <2>1, <2>2
    <2>4. PICK t \in Nat : t = size.text
      BY <1>2
    <2>5. o \in Nat /\ r = t - o + m
      BY <2>1, <2>2, <2>3, <2>4
    <2>6. b = (base_vaddr + 84 + o + r) - (base_vaddr + 84 + t + 0)
      <3>1. TextAddress(o) = base_vaddr + 84 + o
        BY <2>5, BaseAssumption DEF TextAddress, HEADERS_LEN
      <3>2. DataAddress(0) = base_vaddr + 84 + t + 0
        BY <2>4, BaseAssumption DEF DataAddress, HEADERS_LEN
      <3>3. b = TextAddress(o) + r - DataAddress(0)
        BY <2>3, Zenon
      <3> HIDE DEF b
      <3> QED
        BY <2>5, <3>1, <3>2, <3>3, BaseAssumption
    <2> HIDE DEF b
    <2>7. b = m
      BY <2>5, <2>6, BaseAssumption
    <2> QED
      BY <2>2, <2>7
  <1>13. b \in 0..size.data
    BY <1>2, <1>11, <1>12
  <1>14. ASSUME NEW x \in 0..(size.data - 1)
         PROVE  data[x] >= j <=> x >= b
    <2>1. x \in Bytes /\ x < data_offset /\ x \in Nat
      BY <1>2 DEF Bytes
    <2>2. ByteTrue(x)
      BY <1>1, <2>1 DEF Placed
    <2>3. PICK k \in 1..Len(file) : k = data[x]
      BY <2>2 DEF ByteTrue
    <2>4. mark[k].data <= x /\ x < mark[k + 1].data
      BY <2>2, <2>3 DEF ByteTrue
    <2>5. mark[k].data \in Nat /\ mark[k + 1].data \in Nat
      BY <1>1, MarkStep DEF Position
    <2>6. /\ k \in 1..(Len(file) + 1) /\ k + 1 \in 1..(Len(file) + 1)
          /\ j \in 1..(Len(file) + 1)
      BY <1>2
    <2>7. CASE k >= j
      <3>1. mark[j].data <= mark[k].data
        BY <1>1, <2>6, <2>7, MarksOrdered
      <3> QED
        BY SMTT(30), <1>11, <1>12, <2>1, <2>3, <2>4, <2>5, <2>7, <3>1
    <2>8. CASE k < j
      <3>1. mark[k + 1].data <= mark[j].data
        BY <1>1, <1>2, <2>6, <2>8, MarksOrdered
      <3> QED
        BY SMTT(30), <1>11, <1>12, <2>1, <2>3, <2>4, <2>5, <2>8, <3>1
    <2> QED
      BY <1>2, <2>3, <2>7, <2>8
  <1> QED
    BY <1>13, <1>14

(* Every la of every assembled program reaches its data.                   *)
THEOREM LaReaches == Spec => []LaReachesData
  <1>1. ImageInv => LaReachesData
    BY LaReachesIs
  <1> QED
    BY <1>1, ImageInvariance, PTL

-----------------------------------------------------------------------------
(* Sums over the lines of a set                                            *)

(* The sums of w over the numbers of T that are at most k, for k up to n.  *)
IsPrefix(p, w, T, n) ==
    /\ p \in [0..n -> Nat]
    /\ p[0] = 0
    /\ \A k \in 1..n : p[k] = p[k - 1] + IF k \in T THEN w[k] ELSE 0

(* There are such sums.                                                    *)
LEMMA PrefixExists ==
    ASSUME NEW N \in Nat, NEW w \in [1..N -> Nat], NEW T
    PROVE  \E p : IsPrefix(p, w, T, N)
  <1> DEFINE Q == {n \in Nat : n <= N => \E p : IsPrefix(p, w, T, n)}
  <1>1. 0 \in Q
    <2>1. IsPrefix([k \in 0..0 |-> 0], w, T, 0)
      BY DEF IsPrefix
    <2> QED
      BY <2>1
  <1>2. ASSUME NEW n \in Nat, n \in Q PROVE n + 1 \in Q
    <2> SUFFICES ASSUME n + 1 <= N PROVE \E p : IsPrefix(p, w, T, n + 1)
      OBVIOUS
    <2>1. PICK p : IsPrefix(p, w, T, n)
      BY <1>2
    <2> DEFINE more == IF n + 1 \in T THEN w[n + 1] ELSE 0
               q == [k \in 0..(n + 1) |-> IF k = n + 1 THEN p[n] + more ELSE p[k]]
    <2>2. more \in Nat /\ p[n] \in Nat
      BY <2>1 DEF IsPrefix
    <2>3. q \in [0..(n + 1) -> Nat]
      BY <2>1, <2>2 DEF IsPrefix
    <2>4. q[0] = 0
      BY <2>1 DEF IsPrefix
    <2>5. ASSUME NEW k \in 1..(n + 1)
          PROVE  q[k] = q[k - 1] + IF k \in T THEN w[k] ELSE 0
      <3>1. CASE k = n + 1
        BY <3>1
      <3>2. CASE k # n + 1
        <4>1. k \in 1..n /\ k - 1 \in 0..n /\ k - 1 # n + 1 /\ k \in 0..(n + 1)
              /\ k - 1 \in 0..(n + 1)
          BY <3>2
        <4>2. q[k] = p[k] /\ q[k - 1] = p[k - 1]
          BY <3>2, <4>1
        <4> HIDE DEF q
        <4> QED
          BY <2>1, <4>1, <4>2 DEF IsPrefix
      <3> QED
        BY <3>1, <3>2
    <2> HIDE DEF q
    <2>6. IsPrefix(q, w, T, n + 1)
      BY <2>3, <2>4, <2>5 DEF IsPrefix
    <2> QED
      BY <2>6
  <1> HIDE DEF Q
  <1>3. \A n \in Nat : n \in Q
    BY <1>1, <1>2, SetInduction
  <1> QED
    BY <1>3 DEF Q

(* An element more counts once, wherever it is.                            *)
LEMMA PrefixAdds ==
    ASSUME NEW N \in Nat, NEW w \in [1..N -> Nat], NEW T, NEW x \in 1..N, x \notin T,
           NEW p, IsPrefix(p, w, T, N), NEW q, IsPrefix(q, w, T \cup {x}, N)
    PROVE  q[N] = p[N] + w[x]
  <1> DEFINE Right(n) == q[n] = p[n] + IF n >= x THEN w[x] ELSE 0
             Q == {n \in Nat : n <= N => Right(n)}
  <1>1. 0 \in Q
    BY DEF IsPrefix
  <1>2. ASSUME NEW n \in Nat, n \in Q PROVE n + 1 \in Q
    <2> SUFFICES ASSUME n + 1 <= N PROVE Right(n + 1)
      OBVIOUS
    <2>1. /\ n + 1 \in 1..N /\ n \in 0..N /\ (n + 1) - 1 = n
          /\ p[n] \in Nat /\ q[n] \in Nat
      BY SMTT(30) DEF IsPrefix
    <2>2. /\ p[n + 1] = p[n] + IF n + 1 \in T THEN w[n + 1] ELSE 0
          /\ q[n + 1] = q[n] + IF n + 1 \in T \cup {x} THEN w[n + 1] ELSE 0
      BY <2>1 DEF IsPrefix
    <2>3. w[n + 1] \in Nat /\ w[x] \in Nat
      BY <2>1
    <2>4. Right(n)
      BY <1>2, <2>1
    <2>5. CASE n + 1 = x
      <3>1. ~(n >= x) /\ n + 1 \notin T
        BY <2>5
      <3> QED
        BY <2>1, <2>2, <2>3, <2>4, <2>5, <3>1
    <2>6. CASE n + 1 # x
      <3>1. (n + 1 >= x <=> n >= x) /\ (n + 1 \in T \cup {x} <=> n + 1 \in T)
        BY <2>6
      <3> QED
        BY <2>1, <2>2, <2>3, <2>4, <3>1
    <2> QED
      BY <2>5, <2>6
  <1> HIDE DEF Q
  <1>3. \A n \in Nat : n \in Q
    BY <1>1, <1>2, SetInduction
  <1>4. Right(N)
    BY <1>3 DEF Q
  <1> QED
    BY <1>4

(* Nothing adds up to zero.                                                *)
LEMMA PrefixEmpty ==
    ASSUME NEW N \in Nat, NEW w \in [1..N -> Nat], NEW p, IsPrefix(p, w, {}, N)
    PROVE  p[N] = 0
  <1> DEFINE Q == {n \in Nat : n <= N => p[n] = 0}
  <1>1. 0 \in Q
    BY DEF IsPrefix
  <1>2. ASSUME NEW n \in Nat, n \in Q PROVE n + 1 \in Q
    <2> SUFFICES ASSUME n + 1 <= N PROVE p[n + 1] = 0
      OBVIOUS
    <2>1. n + 1 \in 1..N /\ (n + 1) - 1 = n /\ p[n] = 0
      BY <1>2
    <2> QED
      BY <2>1 DEF IsPrefix
  <1> HIDE DEF Q
  <1>3. \A n \in Nat : n \in Q
    BY <1>1, <1>2, SetInduction
  <1> QED
    BY <1>3 DEF Q

(* The sum of w over T.                                                    *)
Total(w, T, N) == (CHOOSE p : IsPrefix(p, w, T, N))[N]

(* It is a natural number.                                                 *)
LEMMA TotalType ==
    ASSUME NEW N \in Nat, NEW w \in [1..N -> Nat], NEW T
    PROVE  /\ IsPrefix(CHOOSE p : IsPrefix(p, w, T, N), w, T, N)
           /\ Total(w, T, N) \in Nat
  <1>1. IsPrefix(CHOOSE p : IsPrefix(p, w, T, N), w, T, N)
    BY PrefixExists
  <1> DEFINE p == CHOOSE p : IsPrefix(p, w, T, N)
  <1>2. Total(w, T, N) = p[N]
    BY DEF Total
  <1> HIDE DEF p
  <1>3. p \in [0..N -> Nat]
    BY <1>1 DEF p, IsPrefix
  <1> QED
    BY <1>1, <1>2, <1>3

(* It is zero for nothing.                                                 *)
LEMMA TotalEmpty ==
    ASSUME NEW N \in Nat, NEW w \in [1..N -> Nat]
    PROVE  Total(w, {}, N) = 0
  <1>1. PICK p : p = CHOOSE f : IsPrefix(f, w, {}, N)
    OBVIOUS
  <1>2. IsPrefix(p, w, {}, N)
    BY <1>1, TotalType
  <1> QED
    BY <1>1, <1>2, PrefixEmpty DEF Total

(* Every element of T adds to it once.                                     *)
LEMMA TotalAdds ==
    ASSUME NEW N \in Nat, NEW w \in [1..N -> Nat], NEW T, NEW x \in 1..N, x \notin T
    PROVE  Total(w, T \cup {x}, N) = Total(w, T, N) + w[x]
  <1>1. PICK p : p = CHOOSE f : IsPrefix(f, w, T, N)
    OBVIOUS
  <1>2. PICK q : q = CHOOSE f : IsPrefix(f, w, T \cup {x}, N)
    OBVIOUS
  <1>3. IsPrefix(p, w, T, N) /\ IsPrefix(q, w, T \cup {x}, N)
    BY <1>1, <1>2, TotalType
  <1>4. q[N] = p[N] + w[x]
    BY <1>3, PrefixAdds
  <1> QED
    BY <1>1, <1>2, <1>4 DEF Total

(* What the fold of the community modules computes over the subsets of S.  *)
Solves(g, w, S) ==
    g = [s \in SUBSET S |->
            IF s = {} THEN 0
            ELSE LET x == CHOOSE x \in s : TRUE IN w[x] + g[s \ {x}]]

(* The sums over the subsets of S are such a fold.                         *)
LEMMA TotalSolves ==
    ASSUME NEW N \in Nat, NEW w \in [1..N -> Nat], NEW S \in SUBSET (1..N)
    PROVE  \E g : Solves(g, w, S)
  <1> DEFINE g == [s \in SUBSET S |-> Total(w, s, N)]
  <1>1. ASSUME NEW s \in SUBSET S
        PROVE  g[s] = IF s = {} THEN 0
                      ELSE LET x == CHOOSE x \in s : TRUE IN w[x] + g[s \ {x}]
    <2>1. CASE s = {}
      BY <2>1, TotalEmpty
    <2>2. CASE s # {}
      <3>1. PICK x \in s : x = CHOOSE y \in s : TRUE
        BY <2>2
      <3>2. x \in 1..N /\ x \notin s \ {x} /\ (s \ {x}) \cup {x} = s /\ s \ {x} \in SUBSET S
        OBVIOUS
      <3>3. PICK t \in SUBSET S : t = s \ {x}
        BY <3>2
      <3>4. Total(w, t \cup {x}, N) = Total(w, t, N) + w[x]
        BY SMTT(30), <3>2, <3>3, TotalAdds
      <3>5. w[x] \in Nat /\ Total(w, t, N) \in Nat
        BY <3>2, TotalType
      <3>6. g[s] = Total(w, t \cup {x}, N) /\ g[t] = Total(w, t, N)
        BY <3>2, <3>3
      <3> HIDE DEF g
      <3>7. g[s] = w[x] + g[t]
        BY <3>4, <3>5, <3>6
      <3> QED
        BY <2>2, <3>1, <3>3, <3>7
    <2> QED
      BY <2>1, <2>2
  <1> HIDE DEF g
  <1>2. g = [s \in SUBSET S |->
                IF s = {} THEN 0
                ELSE LET x == CHOOSE x \in s : TRUE IN w[x] + g[s \ {x}]]
    BY <1>1 DEF g
  <1> QED
    BY <1>2 DEF Solves

(* It is the sum, in whatever order it picks the elements.                 *)
LEMMA SolvesTotal ==
    ASSUME NEW N \in Nat, NEW w \in [1..N -> Nat], NEW S \in SUBSET (1..N),
           NEW g, Solves(g, w, S)
    PROVE  g[S] = Total(w, S, N)
  <1> DEFINE Q == {n \in Nat : \A s \in SUBSET S :
                                  Cardinality(s) = n => g[s] = Total(w, s, N)}
  <1>1. \A s \in SUBSET S : IsFiniteSet(s) /\ Cardinality(s) \in Nat
    <2>1. IsFiniteSet(1..N)
      BY FS_Interval
    <2> QED
      BY <2>1, FS_Subset, FS_CardinalityType
  <1>2. ASSUME NEW s \in SUBSET S
        PROVE  g[s] = IF s = {} THEN 0
                      ELSE LET x == CHOOSE x \in s : TRUE IN w[x] + g[s \ {x}]
    BY Zenon DEF Solves
  <1>3. 0 \in Q
    <2> SUFFICES ASSUME NEW s \in SUBSET S, Cardinality(s) = 0
                 PROVE  g[s] = Total(w, s, N)
      OBVIOUS
    <2>1. s = {}
      BY <1>1, FS_EmptySet
    <2> QED
      BY <1>2, <2>1, TotalEmpty
  <1>4. ASSUME NEW n \in Nat, n \in Q PROVE n + 1 \in Q
    <2> SUFFICES ASSUME NEW s \in SUBSET S, Cardinality(s) = n + 1
                 PROVE  g[s] = Total(w, s, N)
      OBVIOUS
    <2>1. s # {}
      BY FS_EmptySet
    <2>2. PICK x \in s : x = CHOOSE y \in s : TRUE
      BY <2>1
    <2>3. x \in 1..N /\ x \notin s \ {x} /\ (s \ {x}) \cup {x} = s /\ s \ {x} \in SUBSET S
      OBVIOUS
    <2>4. Cardinality(s \ {x}) = n
      <3>1. Cardinality(s \ {x}) = Cardinality(s) - 1
        BY <1>1, FS_RemoveElement
      <3> QED
        BY <3>1
    <2>5. PICK t \in SUBSET S : t = s \ {x}
      BY <2>3
    <2>6. x \in 1..N /\ x \notin t /\ t \cup {x} = s /\ w[x] \in Nat
      BY <2>3, <2>5
    <2>7. g[t] = Total(w, t, N)
      BY <1>4, <2>4, <2>5
    <2>8. g[s] = w[x] + g[t]
      BY <1>2, <2>1, <2>2, <2>5
    <2> HIDE DEF Q
    <2>9. Total(w, t \cup {x}, N) = Total(w, t, N) + w[x] /\ Total(w, t, N) \in Nat
      BY <2>6, TotalAdds, TotalType
    <2>10. Total(w, s, N) = Total(w, t, N) + w[x]
      BY <2>6, <2>9, Zenon
    <2> QED
      BY <2>6, <2>7, <2>8, <2>9, <2>10
  <1> HIDE DEF Q
  <1>5. \A n \in Nat : n \in Q
    BY <1>3, <1>4, SetInduction
  <1> QED
    BY <1>1, <1>5 DEF Q

-----------------------------------------------------------------------------
(* The table and the checks                                                *)

(* The lines that define a name are finitely many.                         *)
LEMMA DefiningFinite ==
    ASSUME TypeOK
    PROVE  /\ IsFiniteSet(Defining) /\ Defining \in SUBSET (1..Len(file))
           /\ Cardinality(Defining) \in Nat
  <1>1. Len(file) \in Nat
    BY DEF TypeOK
  <1>2. PICK D \in SUBSET (1..Len(file)) : D = Defining
    BY DEF Defining
  <1>3. IsFiniteSet(1..Len(file))
    BY <1>1, FS_Interval
  <1>4. IsFiniteSet(D) /\ Cardinality(D) \in Nat
    BY <1>3, FS_Subset, FS_CardinalityType
  <1> QED
    BY <1>2, <1>4

(* Lines without a label add nothing to the table.                         *)
LEMMA EntriesKept ==
    ASSUME Entries, phase # "failed", UNCHANGED <<file, table>>,
           \A j \in 1..Len(file) : file[j].label # NoLabel => (Measured(j)' <=> Measured(j))
    PROVE  Entries'
  <1>1. Defining' = Defining
    BY DEF Defining
  <1>2. Names(table)' = Names(table)
    BY DEF Names
  <1>3. /\ Names(table) = {file[j].label : j \in Defining}
        /\ Len(table) = Cardinality(Defining)
        /\ Len(table) <= MAX_SYMBOLS
    BY DEF Entries
  <1>4. {file[j].label : j \in Defining}' = {file[j].label : j \in Defining}
    BY <1>1
  <1>5. Cardinality(Defining)' = Cardinality(Defining)
    BY <1>1
  <1> QED
    BY <1>2, <1>3, <1>4, <1>5 DEF Entries

(* A line with one adds it.                                                *)
LEMMA EntryAdded ==
    ASSUME IInv, Entries, ScanStatement, phase' = "scan", ln' = ln + 1
    PROVE  Entries'
  <1> DEFINE l == file[ln]
  <1>1. /\ ln \in 1..Len(file) /\ table' = Labelled(l) /\ ~LabelRefused(l)
        /\ phase = "scan" /\ Len(file) \in Nat /\ ln \in Nat /\ TypeOK /\ UniqueNames
    BY DEF ScanStatement, Reads, IInv, TypeOK
  <1>2. file' = file
    BY <1>1, BoundsStep DEF IInv, Next, Scan
  <1>3. \A j \in 1..Len(file) : Measured(j)' <=> Measured(j) \/ j = ln
    BY <1>1 DEF Measured
  <1>4. ~Measured(ln)
    BY <1>1 DEF Measured
  <1>5. CASE l.label = NoLabel
    <2>1. table' = table
      BY <1>1, <1>5 DEF Labelled
    <2> QED
      BY <1>1, <1>2, <1>3, <1>5, <2>1, EntriesKept
  <1>6. CASE l.label # NoLabel
    <2>1. Defining' = Defining \cup {ln} /\ ln \notin Defining
      BY <1>1, <1>2, <1>3, <1>4, <1>6 DEF Defining
    <2>2. PICK D : D = Defining
      OBVIOUS
    <2>3. /\ IsFiniteSet(D) /\ Cardinality(D) \in Nat
          /\ Names(table) = {file[j].label : j \in D}
          /\ Len(table) = Cardinality(D)
      BY <1>1, <2>2, DefiningFinite DEF Entries
    <2>4. PICK n : n = ln
      OBVIOUS
    <2>5. Cardinality(D \cup {n}) = Cardinality(D) + 1
      <3>1. n \notin D
        BY <2>1, <2>2, <2>4
      <3> QED
        BY <2>3, <3>1, FS_AddElement
    <2>6. Len(table') = Len(table) + 1 /\ Len(table) < MAX_SYMBOLS
      <3>1. symtable_accepts(table, l.label) /\ table \in Seq(Symbol(Labels))
        BY <1>1, <1>6 DEF LabelRefused, TypeOK
      <3>2. PICK e : table' = Append(table, e)
        BY <1>1, <1>6 DEF Labelled, symtable_insert
      <3> QED
        BY <3>1, <3>2 DEF symtable_accepts
    <2>7. Names(table') = Names(table) \cup {l.label}
      BY <1>1, <1>6, LabelledTable
    <2>8. Names(table') = {file[j].label : j \in D \cup {n}}
      BY <2>3, <2>4, <2>7
    <2>9. Cardinality(Defining)' = Cardinality(D \cup {n})
          /\ {file[j].label : j \in Defining}' = {file[j].label : j \in D \cup {n}}
      BY <1>2, <2>1, <2>2, <2>4
    <2>10. Len(table') <= MAX_SYMBOLS
      BY <2>3, <2>6, MaxSymbolsAssumption
    <2>11. Names(table)' = Names(table')
      BY DEF Names
    <2> QED
      BY <2>3, <2>4, <2>5, <2>6, <2>8, <2>9, <2>10, <2>11 DEF Entries
  <1> QED
    BY <1>5, <1>6

(* No other step touches the table, or defines a name.                     *)
LEMMA EntriesStep ==
    ASSUME IInv, Entries, [Next]_vars
    PROVE  Entries'
  <1>1. Len(file) \in Nat /\ ln \in Nat /\ file' = file
    BY BoundsStep DEF IInv, TypeOK
  <1>2. CASE phase' = "failed"
    BY <1>2 DEF Entries
  <1>3. CASE ScanBlank \/ ScanDot
    <2>1. /\ ln \in 1..Len(file) /\ file[ln].kind # "content"
          /\ phase = "scan" /\ phase' = "scan" /\ ln' = ln + 1 /\ table' = table
      BY <1>1, <1>3 DEF ScanBlank, ScanDot, ScanOn, Reads, IInv, Bounds
    <2>2. file[ln].label = NoLabel
      BY <2>1, LineType DEF IInv, TypeOK, WellFormedLine
    <2>3. \A j \in 1..Len(file) : file[j].label # NoLabel => (Measured(j)' <=> Measured(j))
      BY <1>1, <2>1, <2>2 DEF Measured
    <2> QED
      BY <1>1, <2>1, <2>3, EntriesKept
  <1>4. CASE ScanStatement
    <2>1. \/ phase' = "scan" /\ ln' = ln + 1
          \/ phase' = "failed"
      BY <1>4 DEF ScanStatement, ScanOn, ScanFail, Return, Reads
    <2> QED
      BY <1>2, <1>4, <2>1, EntryAdded
  <1>5. CASE ScanEnd \/ AssembleBlank \/ AssembleDot \/ AssembleText \/ AssembleData
            \/ AssembleBss \/ AssembleEnd
    <2>1. /\ phase # "failed" /\ phase' # "failed" /\ table' = table
          /\ phase = "scan" => ln > Len(file)
          /\ phase' # "scan"
      BY <1>5 DEF ScanEnd, AssembleBlank, AssembleDot, AssembleText, AssembleData,
         AssembleBss, AssembleEnd, AssembleOn, Reads
    <2>2. \A j \in 1..Len(file) : Measured(j)' <=> Measured(j)
      BY <1>1, <2>1 DEF Measured
    <2> QED
      BY <1>1, <2>1, <2>2, EntriesKept
  <1>6. CASE (Returned \/ UNCHANGED vars) /\ phase # "failed"
    <2>1. UNCHANGED <<phase, ln, table>>
      BY <1>6 DEF Returned, vars
    <2>2. \A j \in 1..Len(file) : Measured(j)' <=> Measured(j)
      BY <1>1, <2>1 DEF Measured
    <2> QED
      BY <1>1, <1>6, <2>1, <2>2, EntriesKept
  <1>7. CASE ScanLabelRefused \/ AssembleFail \/ Unreadable
    BY <1>2, <1>7 DEF ScanLabelRefused, ScanFail, AssembleFail, Unreadable, Return
  <1>8. CASE (Returned \/ UNCHANGED vars) /\ phase = "failed"
    BY <1>2, <1>8 DEF Returned, vars
  <1> QED
    BY <1>3, <1>4, <1>5, <1>6, <1>7, <1>8 DEF Next, Scan, Assemble

(* The lines of .text that have a la name what has a place in the table.   *)
LEMMA DefinedKept ==
    ASSUME DefinedAbove, file' = file,
           \A j \in 1..Len(file) : Measured(j)' =>
               (Measured(j) \/ file[j].kind # "content") /\ mark'[j] = mark[j]
    PROVE  DefinedAbove'
  <1> SUFFICES ASSUME NEW j \in 1..Len(file), Measured(j)', file[j].kind = "content",
                      InText(mark'[j].segment), file[j].stmt.op = "la"
               PROVE  /\ file[j].stmt.sym # NoLabel
                      /\ \E i \in 1..j : file[i].label = file[j].stmt.sym
    BY DEF DefinedAbove, InText
  <1>1. Measured(j) /\ InText(mark[j].segment)
    OBVIOUS
  <1> QED
    BY <1>1 DEF DefinedAbove

(* A line that gets by has found its symbol in the table it leaves.        *)
LEMMA DefinedAdded ==
    ASSUME IInv, Entries, DefinedAbove, ScanStatement, phase' = "scan", ln' = ln + 1
    PROVE  DefinedAbove'
  <1> DEFINE l == file[ln]
             s == l.stmt
  <1>1. /\ ln \in 1..Len(file) /\ table' = Labelled(l) /\ phase = "scan"
        /\ Len(file) \in Nat /\ ln \in Nat /\ TypeOK
    BY DEF ScanStatement, Reads, IInv, TypeOK
  <1>2. file' = file /\ Entries'
    BY <1>1, BoundsStep, EntryAdded DEF IInv, Next, Scan
  <1>3. \A j \in 1..Len(file) : Measured(j)' <=> j <= ln
    BY <1>1 DEF Measured
  <1>4. \A j \in 1..ln : mark'[j] = mark[j]
    <2>1. PICK p : mark' = [mark EXCEPT ![ln + 1] = p]
      BY <1>1 DEF ScanStatement, ScanOn, ScanFail, Return
    <2> QED
      BY <1>1, <2>1 DEF IInv, Bounds
  <1>5. mark[ln].segment = segment
    BY <1>1 DEF IInv, Positions, Here
  <1>6. ScanError(s, table') = "OK"
    BY <1>1 DEF ScanStatement, ScanFail, Return
  <1>7. ASSUME NEW j \in 1..Len(file), Measured(j)', file[j].kind = "content",
               InText(mark'[j].segment), file[j].stmt.op = "la"
        PROVE  /\ file[j].stmt.sym # NoLabel
               /\ \E i \in 1..j : file[i].label = file[j].stmt.sym
    <2>1. j <= ln /\ mark'[j] = mark[j]
      BY <1>1, <1>3, <1>4, <1>7
    <2>2. CASE j < ln
      <3>1. Measured(j) /\ InText(mark[j].segment)
        BY <1>1, <1>7, <2>1, <2>2 DEF Measured
      <3> QED
        BY <1>7, <3>1 DEF DefinedAbove
    <2>3. CASE j = ln
      <3>1. InText(segment) /\ s.op = "la"
        BY <1>5, <1>7, <2>1, <2>3
      <3>2. s.sym \in Names(table')
        BY <1>6, <3>1 DEF ScanError, expand_pseudo_instr
      <3>3. PICK i \in Defining' : file[i].label = s.sym
        BY <1>1, <1>2, <3>2 DEF Entries, Names
      <3>4. i \in 1..Len(file) /\ Measured(i)' /\ file[i].label # NoLabel
        BY <1>2, <3>3 DEF Defining
      <3>5. i \in 1..j
        BY <1>1, <1>3, <2>3, <3>4
      <3> QED
        BY <2>3, <3>3, <3>4, <3>5
    <2> QED
      BY <1>1, <2>1, <2>2, <2>3
  <1> QED
    BY <1>2, <1>7 DEF DefinedAbove, InText

(* The second pass has every line of the first.                            *)
LEMMA DefinedStep ==
    ASSUME IInv, Entries, DefinedAbove, [Next]_vars
    PROVE  DefinedAbove'
  <1>1. Len(file) \in Nat /\ ln \in Nat /\ file' = file
    BY BoundsStep DEF IInv, TypeOK
  <1>2. CASE phase' = "failed"
    BY <1>2 DEF DefinedAbove, Measured
  <1>3. CASE ScanBlank \/ ScanDot
    <2>1. /\ ln \in 1..Len(file) /\ file[ln].kind # "content"
          /\ phase = "scan" /\ phase' = "scan" /\ ln' = ln + 1
          /\ \A j \in 1..ln : mark'[j] = mark[j]
      BY <1>1, <1>3 DEF ScanBlank, ScanDot, ScanOn, Reads, IInv, Bounds
    <2>2. ASSUME NEW j \in 1..Len(file), Measured(j)'
          PROVE  (Measured(j) \/ file[j].kind # "content") /\ mark'[j] = mark[j]
      <3>1. j < ln + 1
        BY <2>1, <2>2 DEF Measured
      <3> QED
        BY <1>1, <2>1, <3>1 DEF Measured
    <2> QED
      BY <1>1, <2>2, DefinedKept
  <1>4. CASE ScanStatement
    <2>1. \/ phase' = "scan" /\ ln' = ln + 1
          \/ phase' = "failed"
      BY <1>4 DEF ScanStatement, ScanOn, ScanFail, Return, Reads
    <2> QED
      BY <1>2, <1>4, <2>1, DefinedAdded
  <1>5. CASE ScanEnd
    <2>1. /\ phase = "scan" /\ ln > Len(file) /\ mark' = mark
      BY <1>5 DEF ScanEnd
    <2>2. \A j \in 1..Len(file) : Measured(j)
      BY <1>1, <2>1 DEF Measured
    <2> QED
      BY <1>1, <2>1, <2>2, DefinedKept
  <1>6. CASE Assemble
    <2>1. mark' = mark /\ phase = "assemble"
      BY <1>6 DEF Assemble, AssembleBlank, AssembleDot, AssembleText, AssembleData,
         AssembleBss, AssembleFail, AssembleEnd, AssembleOn, Reads
    <2>2. \A j \in 1..Len(file) : Measured(j)
      BY <2>1 DEF Measured
    <2> QED
      BY <1>1, <2>1, <2>2, DefinedKept
  <1>7. CASE Returned \/ UNCHANGED vars
    <2>1. UNCHANGED <<phase, ln, mark>>
      BY <1>7 DEF Returned, vars
    <2>2. \A j \in 1..Len(file) : Measured(j)' => Measured(j)
      BY <2>1 DEF Measured
    <2> QED
      BY <1>1, <2>1, <2>2, DefinedKept
  <1>8. CASE ScanLabelRefused \/ Unreadable
    BY <1>2, <1>8 DEF ScanLabelRefused, ScanFail, Unreadable, Return
  <1> QED
    BY <1>3, <1>4, <1>5, <1>6, <1>7, <1>8 DEF Next, Scan

(* What the second pass lets by is well formed.                            *)
LEMMA CheckedStep ==
    ASSUME IInv, Checked, [Next]_vars
    PROVE  Checked'
  <1> DEFINE Good(j) ==
               file[j].kind = "content" =>
                 /\ InText(mark[j].segment) =>
                        /\ IsInstruction(file[j].stmt)
                        /\ file[j].stmt.op \in {"pseudo", "la"} => file[j].stmt.parse = "OK"
                        /\ file[j].stmt.encode = "OK"
                 /\ mark[j].segment = "data" => file[j].stmt.parse = "OK"
  <1>1. Len(file) \in Nat /\ ln \in Nat /\ file' = file
    BY BoundsStep DEF IInv, TypeOK
  <1>2. CASE phase' \in {"scan", "failed"}
    BY <1>2 DEF Checked, Assembled
  <1>3. ASSUME NEW seg, NEW t, NEW d, AssembleOn(seg, t, d), phase = "assemble",
               ln \in 1..Len(file), Good(ln)
        PROVE  Checked'
    <2>1. \A j \in 1..Len(file) : j < ln => Good(j)
      BY <1>3 DEF Checked, Assembled
    <2>2. \A j \in 1..Len(file) : j < ln + 1 => Good(j)
      BY <1>1, <1>3, <2>1
    <2>3. mark' = mark /\ ln' = ln + 1 /\ phase' = "assemble"
      BY <1>3 DEF AssembleOn
    <2> QED
      BY <1>1, <2>2, <2>3 DEF Checked, Assembled, InText
  <1>4. CASE Scan
    <2>1. CASE ScanEnd
      <3>1. phase' = "assemble" /\ ln' = 1
        BY <2>1 DEF ScanEnd
      <3> QED
        BY <3>1 DEF Checked, Assembled
    <2>2. CASE ~ScanEnd
      BY <1>2, <1>4, <2>2 DEF Scan, ScanBlank, ScanDot, ScanLabelRefused,
         ScanStatement, ScanOn, ScanFail, Return, Reads
    <2> QED
      BY <2>1, <2>2
  <1>5. CASE AssembleBlank \/ AssembleDot
    <2>1. ln \in 1..Len(file) /\ file[ln].kind # "content" /\ phase = "assemble"
      BY <1>1, <1>5 DEF AssembleBlank, AssembleDot, Reads, IInv, Bounds
    <2> QED
      BY <1>3, <1>5, <2>1 DEF AssembleBlank, AssembleDot
  <1>6. ASSUME Reads("assemble", "content")
        PROVE  ln \in 1..Len(file) /\ mark[ln].segment = segment /\ phase = "assemble"
    BY <1>1, <1>6 DEF Reads, IInv, Bounds, Positions, Here
  <1>7. CASE AssembleText
    <2>1. TextError(file[ln]) = "OK" /\ InText(segment)
      BY <1>7 DEF AssembleText, AssembleError
    <2>2. Good(ln)
      BY <1>6, <1>7, <2>1 DEF AssembleText, TextError, expand_pseudo_instr, InText
    <2> QED
      BY <1>3, <1>6, <1>7, <2>2 DEF AssembleText
  <1>8. CASE AssembleData
    <2>1. DataError(file[ln].stmt) = "OK" /\ segment = "data"
      BY <1>8 DEF AssembleData, AssembleError, InText
    <2>2. Good(ln)
      BY <1>6, <1>8, <2>1 DEF AssembleData, DataError, parse_data_directive, InText
    <2> QED
      BY <1>3, <1>6, <1>8, <2>2 DEF AssembleData
  <1>9. CASE AssembleBss
    <2>1. Good(ln)
      BY <1>6, <1>9 DEF AssembleBss, InText
    <2> QED
      BY <1>3, <1>6, <1>9, <2>1 DEF AssembleBss
  <1>10. CASE AssembleFail \/ Unreadable
    BY <1>2, <1>10 DEF AssembleFail, Unreadable, Return
  <1>11. CASE AssembleEnd
    <2>1. /\ phase = "assemble" /\ ln > Len(file) /\ mark' = mark
      BY <1>11 DEF AssembleEnd
    <2>2. \A j \in 1..Len(file) : Good(j)
      BY <1>1, <2>1 DEF Checked, Assembled
    <2> QED
      BY <1>1, <2>1, <2>2 DEF Checked, InText
  <1>12. CASE Returned \/ UNCHANGED vars
    <2>1. UNCHANGED <<phase, ln, mark>>
      BY <1>12 DEF Returned, vars
    <2> QED
      BY <1>1, <2>1 DEF Checked, Assembled, InText
  <1> QED
    BY <1>4, <1>5, <1>7, <1>8, <1>9, <1>10, <1>11, <1>12 DEF Next, Assemble

(* The table is empty when the passes begin, and nothing has been let by.  *)
LEMMA VerdictInit ==
    ASSUME Init PROVE VerdictInv
  <1>1. ImageInv /\ phase = "scan" /\ ln = 1 /\ table = <<>>
    BY ImageInit DEF Init
  <1>2. \A j \in 1..Len(file) : ~Measured(j) /\ ~Assembled(j)
    BY <1>1 DEF Measured, Assembled, ImageInv, IInv, TypeOK
  <1>3. Defining = {}
    BY <1>2 DEF Defining
  <1>4. Names(table) = {}
    BY <1>1 DEF Names
  <1>5. Cardinality(Defining) = 0
    BY <1>3, FS_EmptySet
  <1>6. Entries
    BY <1>1, <1>3, <1>4, <1>5, MaxSymbolsAssumption DEF Entries
  <1> QED
    BY <1>1, <1>2, <1>6 DEF VerdictInv, DefinedAbove, Checked

(* Every step of either pass keeps what the verdict rests on.              *)
LEMMA VerdictStep ==
    ASSUME VerdictInv, [Next]_vars PROVE VerdictInv'
  <1>1. ImageInv' /\ Entries'
    BY ImageStep, EntriesStep DEF VerdictInv, ImageInv
  <1>2. DefinedAbove' /\ Checked'
    BY DefinedStep, CheckedStep DEF VerdictInv, ImageInv
  <1> QED
    BY <1>1, <1>2 DEF VerdictInv

(* The inductive invariant with the table and the checks of the passes.    *)
THEOREM VerdictInvariance == Spec => []VerdictInv
  <1>1. Init => VerdictInv
    BY VerdictInit
  <1>2. VerdictInv /\ [Next]_vars => VerdictInv'
    BY VerdictStep
  <1> QED
    BY <1>1, <1>2, PTL DEF Spec

-----------------------------------------------------------------------------
(* Positions                                                               *)

(* Assembly says of a line what the passes say of it.                      *)
LEMMA SameLines ==
    /\ Promise!SourceLine = SourceLine
    /\ \A s : Promise!Words(s) = Words(s)
    /\ \A s : Promise!IsInstruction(s) = IsInstruction(s)
    /\ \A g : Promise!InText(g) = InText(g)
  <1>1. Promise!SourceLine = SourceLine
    <2>1. Promise!Line = Line
      BY DEF Promise!Line, Line, Promise!SegmentNames, SegmentNames, Promise!Statement,
             Statement, Promise!Errors, Errors
    <2>2. \A l : Promise!WellFormedLine(l) <=> WellFormedLine(l)
      BY DEF Promise!WellFormedLine, WellFormedLine
    <2> QED
      BY <2>1, <2>2 DEF Promise!SourceLine, SourceLine
  <1>2. \A s : Promise!Words(s) = Words(s)
    BY DEF Promise!Words, Words
  <1>3. \A s : Promise!IsInstruction(s) = IsInstruction(s)
    BY DEF Promise!IsInstruction, IsInstruction
  <1>4. \A g : Promise!InText(g) = InText(g)
    BY DEF Promise!InText, InText
  <1> QED
    BY <1>1, <1>2, <1>3, <1>4

(* What the lines of a file lay down, each in its segment.                 *)
TextLength(f) == [i \in 1..Len(f) |-> 4 * Words(f[i].stmt)]
DataLength(f) == [i \in 1..Len(f) |-> f[i].stmt.n]

(* They are natural numbers, one for every line.                           *)
LEMMA LengthType ==
    ASSUME NEW f \in Seq(SourceLine)
    PROVE  /\ Len(f) \in Nat
           /\ TextLength(f) \in [1..Len(f) -> Nat]
           /\ DataLength(f) \in [1..Len(f) -> Nat]
           /\ Promise!TextLines(f) \in SUBSET (1..Len(f))
           /\ Promise!DataLines(f) \in SUBSET (1..Len(f))
  <1>1. Len(f) \in Nat /\ DOMAIN f = 1..Len(f)
    OBVIOUS
  <1>2. ASSUME NEW i \in 1..Len(f)
        PROVE  4 * Words(f[i].stmt) \in Nat /\ f[i].stmt.n \in Nat
    <2>1. Words(f[i].stmt) \in 0..2 /\ f[i].stmt.n \in Nat
      BY LineType, WordsType
    <2> QED
      BY <2>1
  <1> QED
    BY <1>1, <1>2 DEF TextLength, DataLength, Promise!TextLines, Promise!DataLines,
       Promise!ContentLines

(* The offsets of Assembly are sums.                                       *)
LEMMA TextAtIs ==
    ASSUME NEW f \in Seq(SourceLine), NEW j
    PROVE  Promise!TextAt(f, j) =
               Total(TextLength(f), Promise!TextLines(f) \cap Promise!Before(j), Len(f))
  <1>1. PICK S : S = Promise!TextLines(f) \cap Promise!Before(j)
    OBVIOUS
  <1>2. PICK w : w = TextLength(f)
    OBVIOUS
  <1>3. Len(f) \in Nat /\ w \in [1..Len(f) -> Nat] /\ S \in SUBSET (1..Len(f))
    BY <1>1, <1>2, LengthType
  <1> DEFINE Folds(g) ==
               g = [s \in SUBSET S |->
                       IF s = {} THEN 0
                       ELSE LET x == CHOOSE x \in s : TRUE
                            IN  4 * Words(f[x].stmt) + g[s \ {x}]]
  <1>4. Promise!TextAt(f, j) = (CHOOSE g : Folds(g))[S]
    BY <1>1 DEF Promise!TextAt, Promise!MapThenSumSet, Promise!MapThenFoldSet,
                Promise!Words, Words
  <1>5. \A s \in SUBSET S : s # {} =>
            LET x == CHOOSE x \in s : TRUE IN w[x] = 4 * Words(f[x].stmt)
    BY <1>2, <1>3 DEF TextLength
  <1>6. \A g : Folds(g) <=> Solves(g, w, S)
    BY <1>5, ZenonT(30) DEF Solves
  <1>7. PICK g : g = CHOOSE h : Folds(h)
    OBVIOUS
  <1> HIDE DEF Folds
  <1>8. \E h : Folds(h)
    <2>1. PICK h : Solves(h, w, S)
      BY <1>3, TotalSolves
    <2> QED
      BY <1>6, <2>1
  <1>9. Solves(g, w, S)
    BY <1>6, <1>7, <1>8
  <1>10. g[S] = Total(w, S, Len(f))
    BY <1>3, <1>9, SolvesTotal
  <1> QED
    BY <1>1, <1>2, <1>4, <1>7, <1>10

(* So are those in .data.                                                  *)
LEMMA DataAtIs ==
    ASSUME NEW f \in Seq(SourceLine), NEW j
    PROVE  Promise!DataAt(f, j) =
               Total(DataLength(f), Promise!DataLines(f) \cap Promise!Before(j), Len(f))
  <1>1. PICK S : S = Promise!DataLines(f) \cap Promise!Before(j)
    OBVIOUS
  <1>2. PICK w : w = DataLength(f)
    OBVIOUS
  <1>3. Len(f) \in Nat /\ w \in [1..Len(f) -> Nat] /\ S \in SUBSET (1..Len(f))
    BY <1>1, <1>2, LengthType
  <1> DEFINE Folds(g) ==
               g = [s \in SUBSET S |->
                       IF s = {} THEN 0
                       ELSE LET x == CHOOSE x \in s : TRUE IN f[x].stmt.n + g[s \ {x}]]
  <1>4. Promise!DataAt(f, j) = (CHOOSE g : Folds(g))[S]
    BY <1>1 DEF Promise!DataAt, Promise!MapThenSumSet, Promise!MapThenFoldSet
  <1>5. \A s \in SUBSET S : s # {} =>
            LET x == CHOOSE x \in s : TRUE IN w[x] = f[x].stmt.n
    BY <1>2, <1>3 DEF DataLength
  <1>6. ASSUME NEW g PROVE Folds(g) <=> Solves(g, w, S)
    <2>1. ASSUME NEW s \in SUBSET S
          PROVE  (IF s = {} THEN 0
                  ELSE LET x == CHOOSE x \in s : TRUE IN f[x].stmt.n + g[s \ {x}])
                 = (IF s = {} THEN 0
                    ELSE LET x == CHOOSE x \in s : TRUE IN w[x] + g[s \ {x}])
      BY <1>5
    <2> QED
      BY <2>1 DEF Solves
  <1>7. PICK g : g = CHOOSE h : Folds(h)
    OBVIOUS
  <1> HIDE DEF Folds
  <1>8. \E h : Folds(h)
    <2>1. PICK h : Solves(h, w, S)
      BY <1>3, TotalSolves
    <2> QED
      BY <1>6, <2>1
  <1>9. Solves(g, w, S)
    BY <1>6, <1>7, <1>8
  <1>10. g[S] = Total(w, S, Len(f))
    BY <1>3, <1>9, SolvesTotal
  <1> QED
    BY <1>1, <1>2, <1>4, <1>7, <1>10

(* They start at zero, and a line moves them on by what it lays down.      *)
LEMMA TextAtStep ==
    ASSUME NEW f \in Seq(SourceLine), NEW j \in 1..Len(f)
    PROVE  /\ Promise!TextAt(f, 1) = 0
           /\ Promise!TextAt(f, j) \in Nat
           /\ Promise!TextAt(f, j + 1) =
                  Promise!TextAt(f, j) + IF j \in Promise!TextLines(f)
                                         THEN 4 * Words(f[j].stmt) ELSE 0
  <1>1. PICK T \in SUBSET (1..Len(f)) : T = Promise!TextLines(f)
    BY LengthType
  <1>2. PICK w \in [1..Len(f) -> Nat] : w = TextLength(f)
    BY LengthType
  <1>3. Len(f) \in Nat /\ j \in Nat
    OBVIOUS
  <1>4. Promise!TextAt(f, 1) = 0
    <2>1. T \cap Promise!Before(1) = {}
      BY DEF Promise!Before
    <2> QED
      BY <1>1, <1>2, <1>3, <2>1, TextAtIs, TotalEmpty
  <1>5. PICK S : S = T \cap Promise!Before(j)
    OBVIOUS
  <1>6. Promise!TextAt(f, j) = Total(w, S, Len(f)) /\ Total(w, S, Len(f)) \in Nat
    BY <1>1, <1>2, <1>3, <1>5, TextAtIs, TotalType
  <1>7. j \notin S /\ (j + 1) - 1 = j
    BY <1>3, <1>5 DEF Promise!Before
  <1>8. CASE j \in T
    <2>1. T \cap Promise!Before(j + 1) = S \cup {j}
      BY <1>3, <1>5, <1>8 DEF Promise!Before
    <2>2. Promise!TextAt(f, j + 1) = Total(w, S \cup {j}, Len(f))
      BY <1>1, <1>2, <2>1, TextAtIs
    <2>3. Total(w, S \cup {j}, Len(f)) = Total(w, S, Len(f)) + w[j]
      BY <1>3, <1>7, TotalAdds
    <2>4. w[j] = 4 * Words(f[j].stmt)
      BY <1>2 DEF TextLength
    <2> QED
      BY <1>1, <1>4, <1>6, <1>8, <2>2, <2>3, <2>4
  <1>9. CASE j \notin T
    <2>1. T \cap Promise!Before(j + 1) = S
      BY <1>3, <1>5, <1>9 DEF Promise!Before
    <2>2. Promise!TextAt(f, j + 1) = Total(w, S, Len(f))
      BY <1>1, <1>2, <2>1, TextAtIs
    <2> QED
      BY <1>1, <1>4, <1>6, <1>9, <2>2
  <1> QED
    BY <1>8, <1>9

(* The same for .data.                                                     *)
LEMMA DataAtStep ==
    ASSUME NEW f \in Seq(SourceLine), NEW j \in 1..Len(f)
    PROVE  /\ Promise!DataAt(f, 1) = 0
           /\ Promise!DataAt(f, j) \in Nat
           /\ Promise!DataAt(f, j + 1) =
                  Promise!DataAt(f, j) + IF j \in Promise!DataLines(f)
                                         THEN f[j].stmt.n ELSE 0
  <1>1. PICK T \in SUBSET (1..Len(f)) : T = Promise!DataLines(f)
    BY LengthType
  <1>2. PICK w \in [1..Len(f) -> Nat] : w = DataLength(f)
    BY LengthType
  <1>3. Len(f) \in Nat /\ j \in Nat
    OBVIOUS
  <1>4. Promise!DataAt(f, 1) = 0
    <2>1. T \cap Promise!Before(1) = {}
      BY DEF Promise!Before
    <2> QED
      BY <1>1, <1>2, <1>3, <2>1, DataAtIs, TotalEmpty
  <1>5. PICK S : S = T \cap Promise!Before(j)
    OBVIOUS
  <1>6. Promise!DataAt(f, j) = Total(w, S, Len(f)) /\ Total(w, S, Len(f)) \in Nat
    BY <1>1, <1>2, <1>3, <1>5, DataAtIs, TotalType
  <1>7. j \notin S /\ (j + 1) - 1 = j
    BY <1>3, <1>5 DEF Promise!Before
  <1>8. CASE j \in T
    <2>1. T \cap Promise!Before(j + 1) = S \cup {j}
      BY <1>3, <1>5, <1>8 DEF Promise!Before
    <2>2. Promise!DataAt(f, j + 1) = Total(w, S \cup {j}, Len(f))
      BY <1>1, <1>2, <2>1, DataAtIs
    <2>3. Total(w, S \cup {j}, Len(f)) = Total(w, S, Len(f)) + w[j]
      BY <1>3, <1>7, TotalAdds
    <2>4. w[j] = f[j].stmt.n
      BY <1>2 DEF DataLength
    <2> QED
      BY <1>1, <1>4, <1>6, <1>8, <2>2, <2>3, <2>4
  <1>9. CASE j \notin T
    <2>1. T \cap Promise!Before(j + 1) = S
      BY <1>3, <1>5, <1>9 DEF Promise!Before
    <2>2. Promise!DataAt(f, j + 1) = Total(w, S, Len(f))
      BY <1>1, <1>2, <2>1, DataAtIs
    <2> QED
      BY <1>1, <1>4, <1>6, <1>9, <2>2
  <1> QED
    BY <1>8, <1>9

(* The segment of a line is that of the line before it, unless that one is *)
(* a dot line.                                                             *)
LEMMA SegmentAtStep ==
    ASSUME NEW f \in Seq(SourceLine), NEW j \in 1..Len(f)
    PROVE  /\ Promise!SegmentAt(f, 1) = ""
           /\ Promise!SegmentAt(f, j + 1) = IF f[j].kind = "dot" THEN f[j].segment
                                            ELSE Promise!SegmentAt(f, j)
  <1>1. Len(f) \in Nat /\ j \in Nat /\ (j + 1) - 1 = j
    OBVIOUS
  <1>2. Promise!SegmentAt(f, 1) = ""
    <2>1. {i \in Promise!Before(1) : f[i].kind = "dot"} = {}
      BY DEF Promise!Before
    <2> QED
      BY <2>1 DEF Promise!SegmentAt
  <1>3. CASE f[j].kind = "dot"
    <2>1. PICK D : D = {i \in Promise!Before(j + 1) : f[i].kind = "dot"}
      OBVIOUS
    <2>2. j \in D /\ \A i \in D : i \in Nat /\ j >= i
      BY <1>1, <1>3, <2>1 DEF Promise!Before
    <2>3. Promise!Max(D) = j
      <3>1. \A x \in D : (\A y \in D : x >= y) => x = j
        BY <1>1, <2>2
      <3> QED
        BY <2>2, <3>1 DEF Promise!Max
    <2>4. Promise!SegmentAt(f, j + 1) = IF D = {} THEN "" ELSE f[Promise!Max(D)].segment
      BY <2>1 DEF Promise!SegmentAt
    <2> QED
      BY <1>2, <1>3, <2>2, <2>3, <2>4
  <1>4. CASE f[j].kind # "dot"
    <2>1. {i \in Promise!Before(j + 1) : f[i].kind = "dot"}
              = {i \in Promise!Before(j) : f[i].kind = "dot"}
      BY <1>1, <1>4 DEF Promise!Before
    <2> QED
      BY <1>2, <1>4, <2>1 DEF Promise!SegmentAt
  <1> QED
    BY <1>3, <1>4

(* Offsets do not go back.                                                 *)
LEMMA OffsetsOrdered ==
    ASSUME NEW f \in Seq(SourceLine), NEW i \in 1..(Len(f) + 1),
           NEW j \in 1..(Len(f) + 1), i <= j
    PROVE  /\ Promise!TextAt(f, i) \in Nat /\ Promise!DataAt(f, i) \in Nat
           /\ Promise!TextAt(f, j) \in Nat /\ Promise!DataAt(f, j) \in Nat
           /\ Promise!TextAt(f, i) <= Promise!TextAt(f, j)
           /\ Promise!DataAt(f, i) <= Promise!DataAt(f, j)
  <1>1. Len(f) \in Nat /\ i \in Nat /\ j \in Nat
    OBVIOUS
  <1>2. ASSUME NEW k \in 1..(Len(f) + 1)
        PROVE  Promise!TextAt(f, k) \in Nat /\ Promise!DataAt(f, k) \in Nat
    <2>1. PICK w \in [1..Len(f) -> Nat] : w = TextLength(f)
      BY LengthType
    <2>2. PICK v \in [1..Len(f) -> Nat] : v = DataLength(f)
      BY LengthType
    <2>3. PICK S : S = Promise!TextLines(f) \cap Promise!Before(k)
      OBVIOUS
    <2>4. PICK D : D = Promise!DataLines(f) \cap Promise!Before(k)
      OBVIOUS
    <2>5. Total(w, S, Len(f)) \in Nat /\ Total(v, D, Len(f)) \in Nat
      BY <1>1, TotalType
    <2> QED
      BY <2>1, <2>2, <2>3, <2>4, <2>5, TextAtIs, DataAtIs
  <1>3. ASSUME NEW k \in 1..Len(f)
        PROVE  /\ Promise!TextAt(f, k) <= Promise!TextAt(f, k + 1)
               /\ Promise!DataAt(f, k) <= Promise!DataAt(f, k + 1)
    <2>1. Words(f[k].stmt) \in Nat /\ f[k].stmt.n \in Nat
      <3>1. Words(f[k].stmt) \in 0..2 /\ f[k].stmt.n \in Nat
        BY LineType, WordsType
      <3> QED
        BY <3>1
    <2>2. PICK t \in Nat : t = IF k \in Promise!TextLines(f) THEN 4 * Words(f[k].stmt) ELSE 0
      BY <2>1
    <2>3. PICK d \in Nat : d = IF k \in Promise!DataLines(f) THEN f[k].stmt.n ELSE 0
      BY <2>1
    <2>4. /\ Promise!TextAt(f, k + 1) = Promise!TextAt(f, k) + t
          /\ Promise!DataAt(f, k + 1) = Promise!DataAt(f, k) + d
          /\ Promise!TextAt(f, k) \in Nat /\ Promise!DataAt(f, k) \in Nat
      BY <2>2, <2>3, TextAtStep, DataAtStep
    <2> QED
      BY <2>4
  <1> DEFINE T == {n \in Nat : i + n <= Len(f) + 1 =>
                       /\ Promise!TextAt(f, i) <= Promise!TextAt(f, i + n)
                       /\ Promise!DataAt(f, i) <= Promise!DataAt(f, i + n)}
  <1>4. 0 \in T
    BY <1>1, <1>2
  <1>5. ASSUME NEW n \in Nat, n \in T PROVE n + 1 \in T
    <2> SUFFICES ASSUME i + (n + 1) <= Len(f) + 1
                 PROVE  /\ Promise!TextAt(f, i) <= Promise!TextAt(f, i + (n + 1))
                        /\ Promise!DataAt(f, i) <= Promise!DataAt(f, i + (n + 1))
      OBVIOUS
    <2>1. PICK k \in 1..Len(f) : k = i + n
      BY <1>1
    <2>2. k + 1 = i + (n + 1) /\ k \in 1..(Len(f) + 1) /\ k + 1 \in 1..(Len(f) + 1)
      BY <1>1, <2>1
    <2>3. /\ Promise!TextAt(f, i) <= Promise!TextAt(f, k)
          /\ Promise!DataAt(f, i) <= Promise!DataAt(f, k)
      BY <1>1, <1>5, <2>1
    <2>4. /\ Promise!TextAt(f, k) <= Promise!TextAt(f, k + 1)
          /\ Promise!DataAt(f, k) <= Promise!DataAt(f, k + 1)
      BY <1>3
    <2>5. /\ Promise!TextAt(f, i) <= Promise!TextAt(f, k + 1)
          /\ Promise!DataAt(f, i) <= Promise!DataAt(f, k + 1)
      <3>1. /\ Promise!TextAt(f, i) \in Nat /\ Promise!DataAt(f, i) \in Nat
            /\ Promise!TextAt(f, k) \in Nat /\ Promise!DataAt(f, k) \in Nat
            /\ Promise!TextAt(f, k + 1) \in Nat /\ Promise!DataAt(f, k + 1) \in Nat
        BY <1>2, <2>2
      <3> HIDE DEF T
      <3> QED
        BY <2>3, <2>4, <3>1
    <2> QED
      BY <2>2, <2>5
  <1>6. \A n \in Nat : n \in T
    <2> HIDE DEF T
    <2> QED
      BY <1>4, <1>5, SetInduction
  <1>7. j - i \in Nat /\ i + (j - i) = j
    BY <1>1
  <1>8. /\ Promise!TextAt(f, i) <= Promise!TextAt(f, i + (j - i))
        /\ Promise!DataAt(f, i) <= Promise!DataAt(f, i + (j - i))
    <2>1. j - i \in T
      BY <1>6, <1>7
    <2>2. i + (j - i) <= Len(f) + 1
      BY <1>1, <1>7
    <2> QED
      BY <2>1, <2>2
  <1> QED
    BY <1>2, <1>7, <1>8

(* The lines of a segment.                                                 *)
LEMMA LinesIn ==
    ASSUME NEW f \in Seq(SourceLine), NEW j \in 1..Len(f)
    PROVE  /\ j \in Promise!ContentLines(f) <=> f[j].kind = "content"
           /\ j \in Promise!TextLines(f) <=>
                  f[j].kind = "content" /\ InText(Promise!SegmentAt(f, j))
           /\ j \in Promise!DataLines(f) <=>
                  f[j].kind = "content" /\ Promise!SegmentAt(f, j) = "data"
  BY SameLines DEF Promise!ContentLines, Promise!TextLines, Promise!DataLines

(* Positions that follow the lines of a file from its start are those of   *)
(* Assembly.                                                               *)
LEMMA PositionsAre ==
    ASSUME NEW f \in Seq(SourceLine), NEW m, NEW n \in 0..Len(f), m[1] = Start,
           \A j \in 1..n : Moves(f[j], m[j], m[j + 1]),
           \A j \in 1..(n + 1) : m[j] \in Position
    PROVE  \A j \in 1..(n + 1) :
               /\ m[j].segment = Promise!SegmentAt(f, j)
               /\ m[j].text = Promise!TextAt(f, j)
               /\ m[j].data = Promise!DataAt(f, j)
  <1> DEFINE Right(j) == /\ m[j].segment = Promise!SegmentAt(f, j)
                         /\ m[j].text = Promise!TextAt(f, j)
                         /\ m[j].data = Promise!DataAt(f, j)
             T == {k \in Nat : k <= n => Right(k + 1)}
  <1>1. Len(f) \in Nat /\ n \in Nat
    OBVIOUS
  <1>2. 0 \in T
    <2>1. Promise!SegmentAt(f, 1) = "" /\ Promise!TextAt(f, 1) = 0 /\ Promise!DataAt(f, 1) = 0
      <3>1. Promise!TextAt(f, 1) = 0
        <4>1. Promise!TextLines(f) \cap Promise!Before(1) = {}
          BY DEF Promise!Before
        <4> QED
          BY <4>1, TextAtIs, TotalEmpty, LengthType
      <3>2. Promise!DataAt(f, 1) = 0
        <4>1. Promise!DataLines(f) \cap Promise!Before(1) = {}
          BY DEF Promise!Before
        <4> QED
          BY <4>1, DataAtIs, TotalEmpty, LengthType
      <3>3. Promise!SegmentAt(f, 1) = ""
        <4>1. {i \in Promise!Before(1) : f[i].kind = "dot"} = {}
          BY DEF Promise!Before
        <4> QED
          BY <4>1 DEF Promise!SegmentAt
      <3> QED
        BY <3>1, <3>2, <3>3
    <2>2. m[1].segment = "" /\ m[1].text = 0 /\ m[1].data = 0
      <3>1. Start.segment = "" /\ Start.text = 0 /\ Start.data = 0
        BY DEF Start
      <3> QED
        BY <3>1
    <2>3. Right(1)
      BY <2>1, <2>2
    <2> QED
      BY <2>3
  <1>3. ASSUME NEW k \in Nat, k \in T PROVE k + 1 \in T
    <2> SUFFICES ASSUME k + 1 <= n PROVE Right((k + 1) + 1)
      OBVIOUS
    <2>1. PICK j \in 1..n : j = k + 1
      BY <1>1
    <2>2. /\ j \in 1..Len(f) /\ j \in 1..(n + 1) /\ j + 1 \in 1..(n + 1)
          /\ Right(j) /\ m[j] \in Position /\ m[j + 1] \in Position
          /\ Moves(f[j], m[j], m[j + 1])
      BY <1>1, <1>3, <2>1
    <2>3. f[j] \in Line /\ f[j].kind \in {"blank", "dot", "content"}
      BY <2>2, LineType DEF Line
    <2>4. /\ Promise!SegmentAt(f, j + 1) = IF f[j].kind = "dot" THEN f[j].segment
                                           ELSE Promise!SegmentAt(f, j)
          /\ Promise!TextAt(f, j + 1) =
                 Promise!TextAt(f, j) + IF j \in Promise!TextLines(f)
                                        THEN 4 * Words(f[j].stmt) ELSE 0
          /\ Promise!DataAt(f, j + 1) =
                 Promise!DataAt(f, j) + IF j \in Promise!DataLines(f)
                                        THEN f[j].stmt.n ELSE 0
      BY <2>2, SegmentAtStep, TextAtStep, DataAtStep
    <2>5. m[j].text \in Nat /\ m[j].data \in Nat
      BY <2>2 DEF Position
    <2>6. Right(j + 1)
      <3>1. CASE f[j].kind # "content"
        <4>1. j \notin Promise!TextLines(f) /\ j \notin Promise!DataLines(f)
          BY <2>2, <3>1, LinesIn
        <4>2. /\ m[j + 1].text = m[j].text /\ m[j + 1].data = m[j].data
              /\ m[j + 1].segment = IF f[j].kind = "dot" THEN f[j].segment ELSE m[j].segment
          BY <2>2, <2>3, <3>1 DEF Moves, Position
        <4> HIDE DEF T
        <4> QED
          BY <2>2, <2>4, <2>5, <4>1, <4>2
      <3>2. CASE f[j].kind = "content" /\ InText(m[j].segment)
        <4>1. j \in Promise!TextLines(f) /\ j \notin Promise!DataLines(f)
          BY <2>2, <3>2, LinesIn DEF InText
        <4>2. /\ m[j + 1].text = m[j].text + 4 * Words(f[j].stmt)
              /\ m[j + 1].data = m[j].data /\ m[j + 1].segment = m[j].segment
          <5>1. m[j + 1] = [m[j] EXCEPT !.text = m[j].text + OPCODE_LEN * Words(f[j].stmt)]
            BY <2>2, <3>2 DEF Moves, InText
          <5> QED
            BY <2>2, <5>1 DEF Position, OPCODE_LEN
        <4> HIDE DEF T
        <4> QED
          BY <2>2, <2>4, <2>5, <3>2, <4>1, <4>2
      <3>3. CASE f[j].kind = "content" /\ ~InText(m[j].segment)
        <4>1. /\ m[j].segment = "data"
              /\ m[j + 1] = [m[j] EXCEPT !.data = m[j].data + f[j].stmt.n]
          BY <2>2, <3>3 DEF Moves
        <4>2. j \notin Promise!TextLines(f) /\ j \in Promise!DataLines(f)
          BY <2>2, <3>3, <4>1, LinesIn
        <4>3. /\ m[j + 1].data = m[j].data + f[j].stmt.n
              /\ m[j + 1].text = m[j].text /\ m[j + 1].segment = m[j].segment
          BY <2>2, <4>1 DEF Position
        <4> HIDE DEF T
        <4> QED
          BY <2>2, <2>4, <2>5, <3>3, <4>2, <4>3
      <3> QED
        BY <3>1, <3>2, <3>3
    <2> QED
      BY <2>1, <2>6
  <1>4. \A k \in Nat : k \in T
    <2> HIDE DEF T
    <2> QED
      BY <1>2, <1>3, SetInduction
  <1>5. ASSUME NEW j \in 1..(n + 1) PROVE Right(j)
    <2>1. j - 1 \in Nat /\ j - 1 <= n /\ (j - 1) + 1 = j
      BY <1>1
    <2>2. j - 1 \in T
      BY <1>4, <2>1
    <2>3. Right((j - 1) + 1)
      BY <2>1, <2>2
    <2> HIDE DEF Right
    <2> QED
      BY <2>1, <2>3
  <1> QED
    BY <1>5

(* The passes stand where Assembly puts the line they read.                *)
LEMMA MarksAre ==
    ASSUME IInv, phase # "failed", NEW j \in 1..(Len(file) + 1), phase = "scan" => j <= ln
    PROVE  /\ mark[j].segment = Promise!SegmentAt(file, j)
           /\ mark[j].text = Promise!TextAt(file, j)
           /\ mark[j].data = Promise!DataAt(file, j)
  <1>1. PICK f \in Seq(SourceLine) : f = file
    BY DEF IInv, TypeOK
  <1>2. PICK m : m = mark
    OBVIOUS
  <1>3. Len(f) \in Nat /\ j - 1 \in 0..Len(f) /\ (j - 1) + 1 = j
    BY <1>1
  <1>4. m[1] = Start
    BY <1>2 DEF IInv, Bounds
  <1>5. ASSUME NEW k \in 1..(j - 1) PROVE Moves(f[k], m[k], m[k + 1])
    <2>1. k \in 1..Len(file) /\ Measured(k)
      BY <1>1, <1>3 DEF Measured, IInv, TypeOK
    <2> QED
      BY <1>1, <1>2, <2>1 DEF IInv, Positions, Advanced
  <1>6. ASSUME NEW k \in 1..((j - 1) + 1) PROVE m[k] \in Position
    <2>1. k \in DOMAIN mark
      BY <1>1, <1>3 DEF IInv, Bounds
    <2> QED
      BY <1>2, <2>1 DEF IInv, TypeOK
  <1>7. PICK n \in 0..Len(f) : n = j - 1
    BY <1>3
  <1>8. \A k \in 1..(n + 1) : /\ m[k].segment = Promise!SegmentAt(f, k)
                              /\ m[k].text = Promise!TextAt(f, k)
                              /\ m[k].data = Promise!DataAt(f, k)
    BY <1>4, <1>5, <1>6, <1>7, PositionsAre
  <1>9. j \in 1..(n + 1)
    BY <1>3, <1>7
  <1> QED
    BY <1>1, <1>2, <1>8, <1>9

(* In particular the line a pass is about to read.                         *)
LEMMA HereIs ==
    ASSUME IInv, phase \in {"scan", "assemble"}
    PROVE  /\ ln \in 1..(Len(file) + 1)
           /\ segment = Promise!SegmentAt(file, ln)
           /\ text_offset = Promise!TextAt(file, ln)
           /\ data_offset = Promise!DataAt(file, ln)
  <1>1. ln \in 1..(Len(file) + 1) /\ ln <= ln
    BY DEF IInv, Bounds
  <1>2. /\ mark[ln].segment = segment /\ mark[ln].text = text_offset
        /\ mark[ln].data = data_offset
    BY DEF IInv, Positions, Here
  <1> QED
    BY <1>1, <1>2, MarksAre

-----------------------------------------------------------------------------
(* What an acceptable file has                                             *)

(* Assembly counts as the invariant does.                                  *)
LEMMA SameCardinality ==
    ASSUME NEW S PROVE Promise!Cardinality(S) = Cardinality(S)
  BY DEF Promise!Cardinality, Cardinality

(* Its labels are in .data.                                                *)
LEMMA LabelledIsData ==
    ASSUME NEW f \in Seq(SourceLine), Promise!Acceptable(f), NEW j \in 1..Len(f),
           f[j].label # NoLabel
    PROVE  j \in Promise!DataLines(f)
  <1>1. f[j].kind = "content"
    BY LineType DEF WellFormedLine
  <1>2. j \in Promise!TextLines(f) \/ j \in Promise!DataLines(f)
    BY <1>1, LinesIn DEF Promise!Acceptable
  <1> QED
    BY <1>2 DEF Promise!Acceptable, Promise!AcceptableText

(* Every line of it has room.                                              *)
LEMMA Room ==
    ASSUME NEW f \in Seq(SourceLine), Promise!Acceptable(f), NEW j \in 1..Len(f)
    PROVE  /\ j \in Promise!TextLines(f) =>
                  Promise!TextAt(f, j) + 4 * Words(f[j].stmt) <= DATA_SIZE
           /\ j \in Promise!DataLines(f) =>
                  Promise!DataAt(f, j) + f[j].stmt.n <= DATA_SIZE
  <1>1. /\ Len(f) \in Nat /\ j + 1 \in 1..(Len(f) + 1) /\ Len(f) + 1 \in 1..(Len(f) + 1)
        /\ j + 1 <= Len(f) + 1
    OBVIOUS
  <1>2. /\ Promise!TextAt(f, j + 1) \in Nat /\ Promise!DataAt(f, j + 1) \in Nat
        /\ Promise!TextAt(f, Len(f) + 1) \in Nat /\ Promise!DataAt(f, Len(f) + 1) \in Nat
        /\ Promise!TextAt(f, j + 1) <= Promise!TextAt(f, Len(f) + 1)
        /\ Promise!DataAt(f, j + 1) <= Promise!DataAt(f, Len(f) + 1)
    BY <1>1, OffsetsOrdered
  <1>3. /\ Promise!TextAt(f, Len(f) + 1) <= DATA_SIZE
        /\ Promise!DataAt(f, Len(f) + 1) <= DATA_SIZE
    BY DEF Promise!Acceptable, Promise!TextSize, Promise!DataSize
  <1>4. /\ j \in Promise!TextLines(f) =>
               Promise!TextAt(f, j + 1) = Promise!TextAt(f, j) + 4 * Words(f[j].stmt)
        /\ j \in Promise!DataLines(f) =>
               Promise!DataAt(f, j + 1) = Promise!DataAt(f, j) + f[j].stmt.n
    BY TextAtStep, DataAtStep
  <1> QED
    BY <1>2, <1>3, <1>4, DataSizeAssumption

(* When a pass comes to a la of it, the table has the symbol.              *)
LEMMA SymbolThere ==
    ASSUME VerdictInv, phase \in {"scan", "assemble"}, Promise!Acceptable(file),
           NEW j \in 1..Len(file), phase = "scan" => j <= ln,
           j \in Promise!TextLines(file), file[j].stmt.op = "la"
    PROVE  file[j].stmt.sym \in Names(table)
  <1>1. file \in Seq(SourceLine) /\ Len(file) \in Nat /\ ln \in Nat
    BY DEF VerdictInv, ImageInv, IInv, TypeOK
  <1>2. PICK i \in Promise!DataLines(file) \cap Promise!Before(j) :
            file[i].label = file[j].stmt.sym
    BY DEF Promise!Acceptable, Promise!AcceptableText
  <1>3. i \in 1..(j - 1) /\ file[i].label # NoLabel
    BY <1>2 DEF Promise!Acceptable, Promise!AcceptableData, Promise!Before
  <1>4. i \in 1..Len(file) /\ Measured(i)
    BY <1>1, <1>3 DEF Measured
  <1> QED
    BY <1>2, <1>3, <1>4 DEF VerdictInv, ImageInv, IInv, LabelsKnown

-----------------------------------------------------------------------------
(* What the passes reject is not acceptable                                *)

(* A label the first pass refuses: out of place, taken, or one too many.   *)
LEMMA LabelRefusedRightly ==
    ASSUME VerdictInv, ScanLabelRefused
    PROVE  ~Promise!Acceptable(file)
  <1>1. PICK f \in Seq(SourceLine) : f = file
    BY DEF VerdictInv, ImageInv, IInv, TypeOK
  <1>2. /\ IInv /\ Entries /\ phase = "scan" /\ f[ln].kind = "content"
        /\ ln \in 1..Len(f) /\ Len(f) \in Nat /\ f[ln].label # NoLabel
    BY <1>1 DEF VerdictInv, ImageInv, ScanLabelRefused, LabelRefused, Reads, IInv, TypeOK
  <1> SUFFICES ASSUME Promise!Acceptable(f) PROVE FALSE
    BY <1>1
  <1>3. ln \in Promise!DataLines(f)
    BY <1>2, LabelledIsData
  <1>4. segment = "data"
    BY <1>1, <1>2, <1>3, LinesIn, HereIs
  <1>5. ~symtable_accepts(table, f[ln].label)
    BY <1>1, <1>4 DEF ScanLabelRefused, LabelRefused, Labellable
  <1>6. PICK D \in SUBSET (1..Len(f)) : D = Defining
    BY <1>1 DEF Defining
  <1>7. /\ D \subseteq Promise!DataLines(f) /\ ln \notin D
        /\ Names(table) = {f[j].label : j \in D} /\ Len(table) = Cardinality(D)
    <2>1. D \subseteq Promise!DataLines(f)
      BY <1>1, <1>6, LabelledIsData DEF Defining
    <2>2. ln \notin D
      BY <1>2, <1>6 DEF Defining, Measured
    <2> QED
      BY <1>1, <1>2, <1>6, <2>1, <2>2 DEF Entries
  <1>8. CASE f[ln].label \in Names(table)
    <2>1. PICK i \in D : f[i].label = f[ln].label
      BY <1>7, <1>8
    <2> QED
      BY <1>3, <1>7, <2>1 DEF Promise!Acceptable, Promise!AcceptableData
  <1>9. CASE f[ln].label \notin Names(table)
    <2>1. ~(Len(table) < MAX_SYMBOLS)
      BY <1>5, <1>9 DEF symtable_accepts
    <2>2. PICK S \in SUBSET (1..Len(f)) : S = Promise!DataLines(f)
      BY LengthType
    <2>3. PICK n : n = ln
      OBVIOUS
    <2>4. IsFiniteSet(S) /\ IsFiniteSet(D)
      <3>1. IsFiniteSet(1..Len(f))
        BY <1>2, FS_Interval
      <3> QED
        BY <3>1, FS_Subset
    <2>5. D \cup {n} \subseteq S /\ n \notin D
      BY <1>3, <1>7, <2>2, <2>3
    <2>6. Cardinality(D \cup {n}) = Cardinality(D) + 1 /\ IsFiniteSet(D \cup {n})
      BY <2>4, <2>5, FS_AddElement
    <2>7. Cardinality(D \cup {n}) <= Cardinality(S)
      BY <2>4, <2>5, FS_Subset
    <2>8. Cardinality(S) <= MAX_SYMBOLS
      BY <2>2, SameCardinality DEF Promise!Acceptable
    <2>9. Cardinality(D) \in Nat /\ Cardinality(S) \in Nat /\ MAX_SYMBOLS \in Nat
      BY <2>4, FS_CardinalityType, MaxSymbolsAssumption
    <2> QED
      BY <1>7, <2>1, <2>6, <2>7, <2>8, <2>9
  <1> QED
    BY <1>8, <1>9

(* What is wrong with a statement of .data, in either pass.                *)
LEMMA DirectiveRight ==
    ASSUME IInv, phase \in {"scan", "assemble"}, ln \in 1..Len(file),
           Promise!Acceptable(file), ln \in Promise!DataLines(file)
    PROVE  /\ file[ln].stmt.op # "none"
           /\ parse_data_directive(file[ln].stmt, data_offset) = "OK"
  <1>1. PICK f \in Seq(SourceLine) : f = file
    BY DEF IInv, TypeOK
  <1>2. PICK n \in 1..Len(f) : n = ln
    BY <1>1
  <1>3. f[n].stmt.op = "directive" /\ f[n].stmt.parse = "OK"
    BY <1>1, <1>2 DEF Promise!Acceptable, Promise!AcceptableData
  <1>4. Promise!DataAt(f, n) + f[n].stmt.n <= DATA_SIZE
    BY <1>1, <1>2, Room
  <1>5. data_offset = Promise!DataAt(f, n)
    BY <1>1, <1>2, HereIs
  <1> QED
    BY <1>1, <1>2, <1>3, <1>4, <1>5 DEF parse_data_directive, Fits

(* A statement the first pass refuses, its label already in the table.     *)
LEMMA StatementRefusedRightly ==
    ASSUME VerdictInv, ScanStatement, phase' = "failed"
    PROVE  ~Promise!Acceptable(file)
  <1> DEFINE s == file[ln].stmt
  <1>1. /\ IInv /\ TypeOK /\ UniqueNames /\ phase = "scan" /\ file[ln].kind = "content"
        /\ ln \in 1..Len(file) /\ file \in Seq(SourceLine)
        /\ ~LabelRefused(file[ln]) /\ table' = Labelled(file[ln])
    BY DEF VerdictInv, ImageInv, ScanStatement, Reads, IInv, TypeOK
  <1>2. ScanError(s, table') # "OK"
    BY <1>1 DEF ScanStatement, ScanOn
  <1> SUFFICES ASSUME Promise!Acceptable(file) PROVE FALSE
    OBVIOUS
  <1>3. ln \in Promise!TextLines(file) \/ ln \in Promise!DataLines(file)
    BY <1>1, LinesIn DEF Promise!Acceptable
  <1>4. segment = Promise!SegmentAt(file, ln)
    BY <1>1, HereIs
  <1>5. CASE ln \in Promise!TextLines(file)
    <2>1. InText(segment)
      BY <1>1, <1>4, <1>5, LinesIn
    <2>2. IsInstruction(s) /\ (s.op \in {"pseudo", "la"} => s.parse = "OK")
      BY <1>5, SameLines DEF Promise!Acceptable, Promise!AcceptableText
    <2>3. s.op = "la" => s.sym \in Names(table)
      BY <1>1, <1>5, SymbolThere
    <2>4. Names(table) \subseteq Names(table')
      BY <1>1, LabelledTable
    <2>5. expand_pseudo_instr(s, table') = "OK"
      BY <2>2, <2>3, <2>4 DEF expand_pseudo_instr
    <2> QED
      BY <1>2, <2>1, <2>2, <2>5 DEF ScanError
  <1>6. CASE ln \in Promise!DataLines(file)
    <2>1. segment = "data"
      BY <1>1, <1>4, <1>6, LinesIn
    <2> QED
      BY <1>1, <1>2, <1>6, <2>1, DirectiveRight DEF ScanError, InText
  <1> QED
    BY <1>3, <1>5, <1>6

(* A line the second pass refuses.                                         *)
LEMMA LineRefusedRightly ==
    ASSUME VerdictInv, AssembleFail
    PROVE  ~Promise!Acceptable(file)
  <1> DEFINE s == file[ln].stmt
  <1>1. /\ IInv /\ TypeOK /\ phase = "assemble" /\ file[ln].kind = "content"
        /\ ln \in 1..Len(file) /\ file \in Seq(SourceLine)
        /\ AssembleError(file[ln]) # "OK"
    BY DEF VerdictInv, ImageInv, AssembleFail, Reads, IInv, TypeOK
  <1> SUFFICES ASSUME Promise!Acceptable(file) PROVE FALSE
    OBVIOUS
  <1>2. ln \in Promise!TextLines(file) \/ ln \in Promise!DataLines(file)
    BY <1>1, LinesIn DEF Promise!Acceptable
  <1>3. segment = Promise!SegmentAt(file, ln) /\ text_offset = Promise!TextAt(file, ln)
    BY <1>1, HereIs
  <1>4. CASE ln \in Promise!TextLines(file)
    <2>1. InText(segment)
      BY <1>1, <1>3, <1>4, LinesIn
    <2>2. /\ file[ln].label = NoLabel /\ IsInstruction(s) /\ s.encode = "OK"
          /\ s.op \in {"pseudo", "la"} => s.parse = "OK"
      BY <1>4, SameLines DEF Promise!Acceptable, Promise!AcceptableText
    <2>3. s.op = "la" => s.sym \in Names(table)
      BY <1>1, <1>4, SymbolThere
    <2>4. expand_pseudo_instr(s, table) = "OK"
      BY <2>2, <2>3 DEF expand_pseudo_instr
    <2>5. Promise!TextAt(file, ln) + 4 * Words(s) <= DATA_SIZE
      <3>1. PICK f \in Seq(SourceLine) : f = file
        BY <1>1
      <3>2. PICK n \in 1..Len(f) : n = ln
        BY <1>1, <3>1
      <3>3. Promise!TextAt(f, n) + 4 * Words(f[n].stmt) <= DATA_SIZE
        BY <1>4, <3>1, <3>2, Room
      <3> QED
        BY <3>1, <3>2, <3>3
    <2>6. Fits(text_offset, OPCODE_LEN * Words(s))
      BY <1>3, <2>5 DEF Fits, OPCODE_LEN
    <2> QED
      BY <1>1, <2>1, <2>2, <2>4, <2>6 DEF AssembleError, TextError
  <1>5. CASE ln \in Promise!DataLines(file)
    <2>1. segment = "data"
      BY <1>1, <1>3, <1>5, LinesIn
    <2> QED
      BY <1>1, <1>5, <2>1, DirectiveRight DEF AssembleError, DataError, InText
  <1> QED
    BY <1>2, <1>4, <1>5

-----------------------------------------------------------------------------
(* What the passes accept is acceptable                                    *)

(* At the end of the second pass every line has been measured and checked. *)
LEMMA AtTheEnd ==
    ASSUME VerdictInv, AssembleEnd
    PROVE  /\ IInv /\ phase = "assemble" /\ ln = Len(file) + 1
           /\ file \in Seq(SourceLine) /\ Len(file) \in Nat
           /\ \A j \in 1..Len(file) : Measured(j) /\ Assembled(j)
           /\ \A j \in 1..(Len(file) + 1) :
                  /\ mark[j].segment = Promise!SegmentAt(file, j)
                  /\ mark[j].text = Promise!TextAt(file, j)
                  /\ mark[j].data = Promise!DataAt(file, j)
           /\ text_offset = Promise!TextSize(file) /\ data_offset = Promise!DataSize(file)
  <1>1. /\ IInv /\ TypeOK /\ phase = "assemble" /\ ln > Len(file)
        /\ file \in Seq(SourceLine) /\ Len(file) \in Nat
    BY DEF VerdictInv, ImageInv, AssembleEnd, IInv, TypeOK
  <1>2. ln = Len(file) + 1
    BY <1>1 DEF IInv, Bounds
  <1>3. \A j \in 1..Len(file) : Measured(j) /\ Assembled(j)
    BY <1>1, <1>2 DEF Measured, Assembled
  <1>4. \A j \in 1..(Len(file) + 1) :
            /\ mark[j].segment = Promise!SegmentAt(file, j)
            /\ mark[j].text = Promise!TextAt(file, j)
            /\ mark[j].data = Promise!DataAt(file, j)
    BY <1>1, MarksAre
  <1>5. text_offset = Promise!TextSize(file) /\ data_offset = Promise!DataSize(file)
    BY <1>1, <1>2, HereIs DEF Promise!TextSize, Promise!DataSize
  <1> QED
    BY <1>1, <1>2, <1>3, <1>4, <1>5

(* A line of content is in .text, without a label, or in .data, with one.  *)
LEMMA ContentIs ==
    ASSUME VerdictInv, AssembleEnd, NEW j \in 1..Len(file), file[j].kind = "content"
    PROVE  \/ j \in Promise!TextLines(file) /\ InText(mark[j].segment)
              /\ file[j].label = NoLabel
           \/ j \in Promise!DataLines(file) /\ mark[j].segment = "data"
              /\ file[j].label # NoLabel
  <1>1. /\ IInv /\ Measured(j) /\ Assembled(j) /\ Len(file) \in Nat
        /\ file \in Seq(SourceLine)
    BY AtTheEnd
  <1>2. mark[j].segment = Promise!SegmentAt(file, j)
    BY <1>1, AtTheEnd
  <1>3. \/ InText(mark[j].segment)
        \/ mark[j].segment = "data" /\ file[j].label # NoLabel
    BY <1>1 DEF IInv, Positions, Advanced, Moves
  <1>4. InText(mark[j].segment) => file[j].label = NoLabel
    BY <1>1 DEF IInv, Shapes
  <1> QED
    BY <1>1, <1>2, <1>3, <1>4, LinesIn

(* Reaching the end of the second pass takes an acceptable file.           *)
LEMMA AcceptedRightly ==
    ASSUME VerdictInv, AssembleEnd
    PROVE  Promise!Acceptable(file)
  <1>1. PICK f \in Seq(SourceLine) : f = file
    BY AtTheEnd
  <1>2. Len(f) \in Nat
    OBVIOUS
  <1>3. /\ Promise!ContentLines(f) \subseteq 1..Len(f)
        /\ Promise!TextLines(f) \subseteq Promise!ContentLines(f)
        /\ Promise!DataLines(f) \subseteq Promise!ContentLines(f)
    BY DEF Promise!ContentLines, Promise!TextLines, Promise!DataLines
  <1>4. Promise!ContentLines(f) = Promise!TextLines(f) \cup Promise!DataLines(f)
    <2>1. ASSUME NEW j \in Promise!ContentLines(f)
          PROVE  j \in Promise!TextLines(f) \/ j \in Promise!DataLines(f)
      BY <1>1, <1>3, ContentIs, LinesIn
    <2> QED
      BY <1>3, <2>1
  <1>5. ASSUME NEW j \in Promise!TextLines(f) PROVE Promise!AcceptableText(f, j)
    <2> DEFINE s == f[j].stmt
    <2>1. /\ j \in 1..Len(f) /\ f[j].kind = "content" /\ ~(j \in Promise!DataLines(f))
      BY <1>3, LinesIn DEF InText
    <2>2. InText(mark[j].segment) /\ f[j].label = NoLabel
      BY <1>1, <2>1, ContentIs
    <2>3. Measured(j) /\ Assembled(j)
      BY <1>1, <2>1, AtTheEnd
    <2>4. IsInstruction(s) /\ (s.op \in {"pseudo", "la"} => s.parse = "OK") /\ s.encode = "OK"
      BY <1>1, <2>1, <2>2, <2>3 DEF VerdictInv, Checked
    <2>5. ASSUME s.op = "la"
          PROVE  \E i \in Promise!DataLines(f) \cap Promise!Before(j) : f[i].label = s.sym
      <3>1. PICK i \in 1..j : s.sym # NoLabel /\ f[i].label = s.sym
        BY <1>1, <2>1, <2>2, <2>3, <2>5 DEF VerdictInv, DefinedAbove
      <3>2. i # j /\ i \in 1..Len(f) /\ i \in 1..(j - 1)
        BY <1>2, <2>1, <2>2, <3>1
      <3>3. f[i].kind = "content"
        BY <3>1, <3>2, LineType DEF WellFormedLine
      <3>4. i \in Promise!DataLines(f)
        BY <1>1, <3>1, <3>2, <3>3, ContentIs
      <3> QED
        BY <3>1, <3>2, <3>4 DEF Promise!Before
    <2> QED
      BY <2>2, <2>4, <2>5, SameLines DEF Promise!AcceptableText
  <1>6. ASSUME NEW j \in Promise!DataLines(f) PROVE Promise!AcceptableData(f, j)
    <2>1. /\ j \in 1..Len(f) /\ f[j].kind = "content" /\ ~(j \in Promise!TextLines(f))
      BY <1>3, LinesIn DEF InText
    <2>2. mark[j].segment = "data" /\ f[j].label # NoLabel
      BY <1>1, <2>1, ContentIs
    <2>3. Measured(j) /\ Assembled(j) /\ IInv
      BY <1>1, <2>1, AtTheEnd
    <2>4. f[j].stmt.op = "directive" /\ f[j].stmt.parse = "OK"
      BY <1>1, <2>1, <2>2, <2>3 DEF VerdictInv, Checked, IInv, Shapes
    <2>5. ASSUME NEW i \in Promise!DataLines(f) \ {j} PROVE f[i].label # f[j].label
      <3>1. /\ i \in 1..Len(f) /\ f[i].kind = "content" /\ ~(i \in Promise!TextLines(f))
        BY <1>3, LinesIn DEF InText
      <3>2. f[i].label # NoLabel /\ Measured(i)
        BY <1>1, <3>1, ContentIs, AtTheEnd
      <3>3. i \in 1..(j - 1) \/ j \in 1..(i - 1)
        BY <1>2, <2>1, <3>1
      <3> QED
        BY <1>1, <2>1, <2>2, <2>3, <3>1, <3>2, <3>3 DEF IInv, LabelsKnown
    <2> QED
      BY <2>2, <2>4, <2>5 DEF Promise!AcceptableData
  <1>7. Promise!Cardinality(Promise!DataLines(f)) <= MAX_SYMBOLS
    <2>1. Defining = Promise!DataLines(f)
      <3>1. ASSUME NEW j \in 1..Len(f), f[j].label # NoLabel PROVE j \in Promise!DataLines(f)
        <4>1. f[j].kind = "content"
          BY <3>1, LineType DEF WellFormedLine
        <4> QED
          BY <1>1, <3>1, <4>1, ContentIs
      <3>2. ASSUME NEW j \in Promise!DataLines(f) PROVE j \in 1..Len(f) /\ f[j].label # NoLabel
        <4>1. /\ j \in 1..Len(f) /\ f[j].kind = "content" /\ ~(j \in Promise!TextLines(f))
          BY <1>3, LinesIn DEF InText
        <4> QED
          BY <1>1, <4>1, ContentIs
      <3>3. \A j \in 1..Len(f) : Measured(j)
        BY <1>1, AtTheEnd
      <3> QED
        BY <1>1, <3>1, <3>2, <3>3 DEF Defining
    <2>2. Len(table) = Cardinality(Defining) /\ Len(table) <= MAX_SYMBOLS
      BY AtTheEnd DEF VerdictInv, Entries
    <2>3. PICK S : S = Promise!DataLines(f)
      OBVIOUS
    <2>4. Promise!Cardinality(S) = Cardinality(S)
      BY SameCardinality
    <2> QED
      BY <2>1, <2>2, <2>3, <2>4
  <1>8. Promise!TextSize(f) <= DATA_SIZE /\ Promise!DataSize(f) <= DATA_SIZE
    BY <1>1, AtTheEnd DEF IInv, CapacityRespected
  <1>9. Promise!Acceptable(f)
    BY <1>4, <1>5, <1>6, <1>7, <1>8 DEF Promise!Acceptable
  <1> QED
    BY <1>1, <1>9

-----------------------------------------------------------------------------
(* The image                                                               *)

(* The word below the end of .text that starts at o.                       *)
LEMMA WordRight ==
    ASSUME VerdictInv, AssembleEnd, NEW o \in Bytes, o < text_offset, o % OPCODE_LEN = 0
    PROVE  text[o] = Promise!WordAt(file, o)
  <1>1. PICK f \in Seq(SourceLine) : f = file
    BY AtTheEnd
  <1>2. /\ Len(f) \in Nat /\ o \in Nat /\ text_offset \in Nat
        /\ text_offset = Promise!TextSize(f) /\ text[o] \in Word
    BY <1>1, AtTheEnd, DataSizeAssumption DEF IInv, TypeOK, Bytes
  <1>3. WordTrue(o) /\ SymbolsTrue /\ phase = "assemble"
    BY AtTheEnd DEF VerdictInv, ImageInv, Placed
  <1>4. PICK l \in 1..Len(f) : l = text[o].line
    BY <1>1, <1>3 DEF WordTrue
  <1>5. /\ f[l].kind = "content" /\ InText(mark[l].segment)
        /\ o < mark[l + 1].text
        /\ text[o].half \in {1, 2}
        /\ o = mark[l].text + OPCODE_LEN * (text[o].half - 1)
        /\ text[o].rel = IF f[l].stmt.op = "la"
                         THEN size.text - mark[l].text + symtable_lookup(table, f[l].stmt.sym)
                         ELSE 0
    BY <1>1, <1>3, <1>4 DEF WordTrue
  <1>6. /\ mark[l].segment = Promise!SegmentAt(f, l)
        /\ mark[l].text = Promise!TextAt(f, l)
        /\ mark[l + 1].text = Promise!TextAt(f, l + 1)
    <2>1. l \in 1..(Len(f) + 1) /\ l + 1 \in 1..(Len(f) + 1)
      BY <1>2
    <2> QED
      BY <1>1, <2>1, AtTheEnd
  <1>7. l \in Promise!TextLines(f)
    BY <1>5, <1>6, LinesIn
  <1>8. /\ Promise!TextAt(f, l) \in Nat /\ Promise!TextAt(f, l + 1) \in Nat
        /\ Promise!TextAt(f, l) <= o /\ o < Promise!TextAt(f, l + 1)
    <2>1. l \in 1..(Len(f) + 1) /\ l + 1 \in 1..(Len(f) + 1) /\ l <= l + 1
      BY <1>2
    <2>2. Promise!TextAt(f, l) \in Nat /\ Promise!TextAt(f, l + 1) \in Nat
      BY <2>1, OffsetsOrdered
    <2> QED
      BY <1>2, <1>5, <1>6, <2>2 DEF OPCODE_LEN
  <1>9. ASSUME NEW i \in Promise!TextLines(f),
               Promise!TextAt(f, i) <= o, o < Promise!TextAt(f, i + 1)
        PROVE  i = l
    <2>1. i \in 1..Len(f)
      BY LengthType
    <2>2. /\ i \in 1..(Len(f) + 1) /\ i + 1 \in 1..(Len(f) + 1)
          /\ l \in 1..(Len(f) + 1) /\ l + 1 \in 1..(Len(f) + 1)
      BY <1>2, <2>1
    <2>3. CASE i < l
      <3>1. /\ i + 1 <= l
        BY <1>2, <2>1, <2>3
      <3>2. /\ Promise!TextAt(f, i + 1) <= Promise!TextAt(f, l)
            /\ Promise!TextAt(f, i + 1) \in Nat
        BY <2>2, <3>1, OffsetsOrdered
      <3> QED
        BY <1>2, <1>8, <1>9, <3>2
    <2>4. CASE l < i
      <3>1. l + 1 <= i
        BY <1>2, <2>1, <2>4
      <3>2. /\ Promise!TextAt(f, l + 1) <= Promise!TextAt(f, i)
            /\ Promise!TextAt(f, i) \in Nat
        BY <2>2, <3>1, OffsetsOrdered
      <3> QED
        BY <1>2, <1>8, <1>9, <3>2
    <2> QED
      BY <1>2, <2>1, <2>3, <2>4
  <1>10. l = CHOOSE i \in Promise!TextLines(f) :
                 Promise!TextAt(f, i) <= o /\ o < Promise!TextAt(f, i + 1)
    BY <1>7, <1>8, <1>9
  <1>11. Promise!WordAt(f, o) =
             [line |-> l,
              half |-> 1 + (o - Promise!TextAt(f, l)) \div 4,
              rel  |-> IF f[l].stmt.op = "la"
                       THEN Promise!TextSize(f) - Promise!TextAt(f, l)
                                + Promise!DataAt(f, Promise!Definer(f, f[l].stmt.sym))
                       ELSE 0]
    BY <1>10 DEF Promise!WordAt
  <1>12. text[o].half = 1 + (o - Promise!TextAt(f, l)) \div 4
    <2>1. PICK t \in Nat : t = Promise!TextAt(f, l)
      BY <1>8
    <2>2. PICK h \in {1, 2} : h = text[o].half
      BY <1>5
    <2>3. o - t = 4 * (h - 1)
      BY <1>2, <1>5, <1>6, <2>1, <2>2 DEF OPCODE_LEN
    <2>4. h = 1 + (o - t) \div 4
      BY <2>2, <2>3
    <2> QED
      BY <2>1, <2>2, <2>4
  <1>13. ASSUME f[l].stmt.op = "la"
         PROVE  /\ size.text = Promise!TextSize(f)
                /\ symtable_lookup(table, f[l].stmt.sym)
                       = Promise!DataAt(f, Promise!Definer(f, f[l].stmt.sym))
    <2>1. PICK d : d = Promise!Definer(f, f[l].stmt.sym)
      OBVIOUS
    <2>2. Promise!Acceptable(f)
      BY <1>1, AcceptedRightly
    <2>3. \E i \in Promise!DataLines(f) : f[i].label = f[l].stmt.sym
      BY <1>7, <1>13, <2>2 DEF Promise!Acceptable, Promise!AcceptableText
    <2>4. d \in Promise!DataLines(f) /\ f[d].label = f[l].stmt.sym
      BY <2>1, <2>3 DEF Promise!Definer
    <2>5. d \in 1..Len(f) /\ f[d].kind = "content" /\ ~(d \in Promise!TextLines(f))
      BY <2>4, LengthType, LinesIn DEF InText
    <2>6. ~InText(mark[d].segment) /\ f[d].label # NoLabel /\ Measured(d)
      <3>1. mark[d].segment = "data" /\ f[d].label # NoLabel
        BY <1>1, <2>5, ContentIs
      <3> QED
        BY <1>1, <2>5, <3>1, AtTheEnd DEF InText
    <2>7. symtable_lookup(table, f[d].label) = mark[d].data
      BY <1>1, <1>3, <2>5, <2>6 DEF SymbolsTrue
    <2>8. mark[d].data = Promise!DataAt(f, d)
      <3>1. d \in 1..(Len(f) + 1)
        BY <1>2, <2>5
      <3> QED
        BY <1>1, <3>1, AtTheEnd
    <2>9. size.text = Promise!TextSize(f)
      <3>1. size.text = mark[Len(file) + 1].text
        BY <1>3, AtTheEnd DEF IInv, Positions
      <3>2. Len(f) + 1 \in 1..(Len(f) + 1)
        BY <1>2
      <3> QED
        BY <1>1, <3>1, <3>2, AtTheEnd DEF Promise!TextSize
    <2> QED
      BY <2>1, <2>4, <2>7, <2>8, <2>9
  <1>14. text[o] = [line |-> text[o].line, half |-> text[o].half, rel |-> text[o].rel]
    BY <1>2 DEF Word
  <1>15. text[o] = Promise!WordAt(f, o)
    <2>1. text[o].rel = IF f[l].stmt.op = "la"
                        THEN Promise!TextSize(f) - Promise!TextAt(f, l)
                                 + Promise!DataAt(f, Promise!Definer(f, f[l].stmt.sym))
                        ELSE 0
      BY <1>5, <1>6, <1>13
    <2> QED
      BY <1>4, <1>11, <1>12, <1>14, <2>1, Zenon
  <1> QED
    BY <1>1, <1>15

(* The byte x below the end of .data.                                      *)
LEMMA ByteRight ==
    ASSUME VerdictInv, AssembleEnd, NEW x \in Bytes, x < data_offset
    PROVE  data[x] = Promise!ByteAt(file, x)
  <1>1. PICK f \in Seq(SourceLine) : f = file
    BY AtTheEnd
  <1>2. Len(f) \in Nat /\ x \in Nat
    BY DataSizeAssumption DEF Bytes
  <1>3. ByteTrue(x)
    BY AtTheEnd DEF VerdictInv, ImageInv, Placed
  <1>4. PICK l \in 1..Len(f) : l = data[x]
    BY <1>1, <1>3 DEF ByteTrue
  <1>5. /\ f[l].kind = "content" /\ mark[l].segment = "data"
        /\ mark[l].data <= x /\ x < mark[l + 1].data
    BY <1>1, <1>3, <1>4 DEF ByteTrue
  <1>6. /\ mark[l].segment = Promise!SegmentAt(f, l)
        /\ mark[l].data = Promise!DataAt(f, l)
        /\ mark[l + 1].data = Promise!DataAt(f, l + 1)
    <2>1. l \in 1..(Len(f) + 1) /\ l + 1 \in 1..(Len(f) + 1)
      BY <1>2
    <2> QED
      BY <1>1, <2>1, AtTheEnd
  <1>7. /\ l \in Promise!DataLines(f)
        /\ Promise!DataAt(f, l) <= x /\ x < Promise!DataAt(f, l + 1)
    BY <1>5, <1>6, LinesIn
  <1>8. ASSUME NEW i \in Promise!DataLines(f),
               Promise!DataAt(f, i) <= x, x < Promise!DataAt(f, i + 1)
        PROVE  i = l
    <2>1. i \in 1..Len(f)
      BY LengthType
    <2>2. /\ i \in 1..(Len(f) + 1) /\ i + 1 \in 1..(Len(f) + 1)
          /\ l \in 1..(Len(f) + 1) /\ l + 1 \in 1..(Len(f) + 1)
      BY <1>2, <2>1
    <2>3. CASE i < l
      <3>1. /\ i + 1 <= l
        BY <1>2, <2>1, <2>3
      <3>2. /\ Promise!DataAt(f, i + 1) <= Promise!DataAt(f, l)
            /\ Promise!DataAt(f, i + 1) \in Nat /\ Promise!DataAt(f, l) \in Nat
        BY <2>2, <3>1, OffsetsOrdered
      <3> QED
        BY <1>2, <1>7, <1>8, <3>2
    <2>4. CASE l < i
      <3>1. l + 1 <= i
        BY <1>2, <2>1, <2>4
      <3>2. /\ Promise!DataAt(f, l + 1) <= Promise!DataAt(f, i)
            /\ Promise!DataAt(f, l + 1) \in Nat /\ Promise!DataAt(f, i) \in Nat
        BY <2>2, <3>1, OffsetsOrdered
      <3> QED
        BY <1>2, <1>7, <1>8, <3>2
    <2> QED
      BY <1>2, <2>1, <2>3, <2>4
  <1>9. l = CHOOSE i \in Promise!DataLines(f) :
                Promise!DataAt(f, i) <= x /\ x < Promise!DataAt(f, i + 1)
    BY <1>7, <1>8
  <1> QED
    BY <1>1, <1>4, <1>9 DEF Promise!ByteAt

(* What the passes have written when they are done.                        *)
LEMMA ImageRight ==
    ASSUME VerdictInv, AssembleEnd
    PROVE  Contents' = Promise!Image(file)
  <1>1. PICK f \in Seq(SourceLine) : f = file
    BY AtTheEnd
  <1>2. /\ phase' = "done" /\ size' = [text |-> text_offset, data |-> data_offset]
        /\ text' = text /\ data' = data
    BY DEF AssembleEnd, PublishSizes
  <1>3. PICK t \in Nat : t = text_offset
    BY AtTheEnd DEF IInv, TypeOK
  <1>4. PICK d \in Nat : d = data_offset
    BY AtTheEnd DEF IInv, TypeOK
  <1>5. /\ t = Promise!TextSize(f) /\ d = Promise!DataSize(f)
        /\ t <= DATA_SIZE /\ d <= DATA_SIZE /\ DATA_SIZE \in Nat
    BY <1>1, <1>3, <1>4, AtTheEnd, DataSizeAssumption DEF IInv, CapacityRespected
  <1>6. ASSUME NEW k \in 1..(t \div 4)
        PROVE  text[4 * (k - 1)] = Promise!WordAt(f, 4 * (k - 1))
    <2>1. PICK o : o = 4 * (k - 1)
      OBVIOUS
    <2>2. o \in Nat /\ o < t /\ o % 4 = 0
      BY <1>3, <2>1
    <2>3. o \in Bytes
      BY <1>3, <1>5, <2>2 DEF Bytes
    <2> QED
      BY <1>1, <1>3, <2>1, <2>2, <2>3, WordRight DEF OPCODE_LEN
  <1>7. ASSUME NEW k \in 1..d
        PROVE  data[k - 1] = Promise!ByteAt(f, k - 1)
    <2>1. PICK x : x = k - 1
      OBVIOUS
    <2>2. x \in Nat /\ x < d /\ x \in Bytes
      BY <1>4, <1>5, <2>1 DEF Bytes
    <2> QED
      BY <1>1, <1>4, <2>1, <2>2, ByteRight
  <1>8. Contents' = [text |-> [k \in 1..(t \div 4) |-> text[4 * (k - 1)]],
                    data |-> [k \in 1..d |-> data[k - 1]]]
    BY <1>2, <1>3, <1>4 DEF Contents, OPCODE_LEN
  <1>9. Promise!Image(f) =
            [text |-> [k \in 1..(t \div 4) |-> Promise!WordAt(f, 4 * (k - 1))],
             data |-> [k \in 1..d |-> Promise!ByteAt(f, k - 1)]]
    BY <1>5 DEF Promise!Image
  <1> QED
    BY <1>1, <1>6, <1>7, <1>8, <1>9

-----------------------------------------------------------------------------
(* The refinement                                                          *)

(* Before a pass has returned, and after one has failed, there is no image.*)
LEMMA NothingYet ==
    ASSUME phase # "done" PROVE Contents = Promise!NoImage
  BY DEF Contents, Promise!NoImage

(* The same for the state after a step.                                    *)
LEMMA NothingThen ==
    ASSUME phase' # "done" PROVE Contents' = Promise!NoImage
  BY DEF Contents, Promise!NoImage

(* The passes begin with the verdict open.                                 *)
LEMMA PromiseInit ==
    ASSUME Init PROVE Promise!Init
  <1>1. file \in Seq(Promise!SourceLine)
    BY FilesAssumption, SameLines DEF Init
  <1>2. phase = "scan" /\ Verdict = "pending"
    BY DEF Init, Verdict
  <1> QED
    BY <1>1, <1>2, NothingYet DEF Promise!Init

(* A step of a pass is a verdict, or changes nothing Assembly sees.        *)
LEMMA PromiseStep ==
    ASSUME VerdictInv, [Next]_vars PROVE [Promise!Next]_(Promise!vars)
  <1>1. file' = file
    BY BoundsStep DEF VerdictInv, ImageInv, IInv
  <1>2. ASSUME phase \in {"scan", "assemble"}, phase' \in {"scan", "assemble"}
        PROVE  UNCHANGED Promise!vars
    <2>1. Verdict = "pending" /\ Verdict' = "pending"
      BY <1>2 DEF Verdict
    <2>2. Contents' = Contents
      BY <1>2, NothingYet, NothingThen
    <2> QED
      BY <1>1, <2>1, <2>2 DEF Promise!vars
  <1>3. ASSUME phase \in {"scan", "assemble"}, phase' = "failed",
               err' # "FILE_ERROR" => ~Promise!Acceptable(file)
        PROVE  Promise!Next
    <2>1. Verdict = "pending" /\ Contents' = Contents
      BY <1>3, NothingYet, NothingThen DEF Verdict
    <2>2. CASE err' = "FILE_ERROR"
      <3>1. Verdict' = "unreadable"
        BY <1>3, <2>2 DEF Verdict
      <3> QED
        BY <1>1, <2>1, <3>1 DEF Promise!Next, Promise!GiveUp
    <2>3. CASE err' # "FILE_ERROR"
      <3>1. Verdict' = "rejected"
        BY <1>3, <2>3 DEF Verdict
      <3> QED
        BY <1>1, <1>3, <2>1, <2>3, <3>1 DEF Promise!Next, Promise!Reject
    <2> QED
      BY <2>2, <2>3
  <1>4. CASE Unreadable
    BY <1>3, <1>4 DEF Unreadable, Return
  <1>5. CASE ScanBlank \/ ScanDot \/ ScanEnd \/ AssembleBlank \/ AssembleDot
            \/ AssembleText \/ AssembleData \/ AssembleBss
    <2>1. phase \in {"scan", "assemble"} /\ phase' \in {"scan", "assemble"}
      BY <1>5 DEF ScanBlank, ScanDot, ScanEnd, ScanOn, AssembleBlank, AssembleDot,
         AssembleText, AssembleData, AssembleBss, AssembleOn, Reads
    <2> QED
      BY <1>2, <2>1
  <1>6. CASE ScanLabelRefused
    BY <1>3, <1>6, LabelRefusedRightly DEF ScanLabelRefused, ScanFail, Return, Reads
  <1>7. CASE ScanStatement
    <2>1. phase = "scan" /\ phase' \in {"scan", "failed"}
      BY <1>7 DEF ScanStatement, ScanOn, ScanFail, Return, Reads
    <2>2. CASE phase' = "scan"
      BY <1>2, <2>1, <2>2
    <2>3. CASE phase' = "failed"
      BY <1>3, <1>7, <2>1, <2>3, StatementRefusedRightly
    <2> QED
      BY <2>1, <2>2, <2>3
  <1>8. CASE AssembleFail
    BY <1>3, <1>8, LineRefusedRightly DEF AssembleFail, Return, Reads
  <1>9. CASE AssembleEnd
    <2>1. Verdict = "pending" /\ Verdict' = "accepted"
      BY <1>9 DEF AssembleEnd, Verdict
    <2>2. Promise!Acceptable(file) /\ Contents' = Promise!Image(file)
      BY <1>9, AcceptedRightly, ImageRight
    <2> QED
      BY <1>1, <2>1, <2>2 DEF Promise!Next, Promise!Accept
  <1>10. CASE Returned \/ UNCHANGED vars
    <2>1. UNCHANGED <<file, phase, err, size, text, data>>
      BY <1>10 DEF Returned, vars
    <2> QED
      BY <2>1 DEF Promise!vars, Verdict, Contents
  <1> QED
    BY <1>4, <1>5, <1>6, <1>7, <1>8, <1>9, <1>10 DEF Next, Scan, Assemble

(* The two passes implement Assembly, for every source file, capacity and  *)
(* table size: the verdict is the one the whole file calls for, and so is  *)
(* the image.                                                              *)
THEOREM Refinement == Spec => Promise!Init /\ [][Promise!Next]_(Promise!vars)
  <1>1. Init => Promise!Init
    BY PromiseInit
  <1>2. VerdictInv /\ [Next]_vars => [Promise!Next]_(Promise!vars)
    BY PromiseStep
  <1> QED
    BY <1>1, <1>2, VerdictInvariance, PTL DEF Spec

-----------------------------------------------------------------------------
(***************************************************************************)
(* The program: what the verdicts of the passes and of writer32 come to,   *)
(* for source files of every length, every command line and every way the  *)
(* calls of stdio may fail.  The invariants of Assembler and of ElfWriter  *)
(* hold side by side, since the passes are over when writer32 is called;   *)
(* their lemmas are used as they stand.                                    *)
(***************************************************************************)

(* The theorems of ElfWriter for the sizes the passes leave behind.  What  *)
(* that module assumes of its constants holds here: base_vaddr and Cuts    *)
(* are taken to be what it takes them to be, and the sizes are any.        *)
E == INSTANCE ElfWriterProofs
         WITH text_len <- size.text, data_len <- size.data,
              TextSizes <- Nat, DataSizes <- Nat

(* Before main gets to the output, nothing of writer32 has happened.       *)
Ahead ==
    /\ stage \in {"calloc", "argparse", "passes"} => W!WriterInit
    /\ stage \in {"calloc", "argparse"} => phase = "scan" /\ size.text = 0
    /\ stage = "passes" => argv = <<>> /\ arguments.infile

(* Without an input file, or after both passes.                            *)
Settled ==
    stage = "output" =>
        /\ argv = <<>>
        /\ \/ arguments.infile /\ phase = "done"
           \/ ~arguments.infile /\ size.text = 0
        /\ E!IInv
        /\ call # "fopen" => size.text # 0

(* What has been left behind.                                              *)
Left ==
    stage = "exited" =>
        /\ E!IInv
        /\ disk = "new" => arguments.infile /\ phase = "done" /\ size.text > 0
        /\ exit_code = "SUCCESS" =>
               /\ argv = <<>> /\ arguments.infile => phase = "done"
               /\ IF size.text > 0
                  THEN phase = "done" /\ call = "returned" /\ ret = "OK"
                  ELSE disk = "old" /\ ret = "none"

Stages == {"calloc", "argparse", "passes", "output", "exited"}

(* The inductive invariant of the program.                                 *)
MainInv ==
    /\ ImageInv
    /\ argv \in Seq(Keys)
    /\ stage \in Stages
    /\ Ahead
    /\ Settled
    /\ Left

-----------------------------------------------------------------------------
(* The steps of main                                                       *)

(* The sizes the passes keep are sizes writer32 can be called with.        *)
LEMMA SizesType ==
    ASSUME ImageInv PROVE size.text \in Nat /\ size.data \in Nat
  BY DEF ImageInv, IInv, TypeOK

(* writer32 has its own names in Driver and in the theorems about it.      *)
LEMMA SameInit ==
    ASSUME ImageInv, W!WriterInit PROVE E!Init
  BY SizesType DEF E!Init, W!WriterInit, E!WriterInit

(* The file it writes is the same.                                         *)
LEMMA SamePlan ==
    /\ E!Plan = W!Plan
    /\ E!Program = W!Program
    /\ \A c, k : E!Before(c, k) = W!Before(c, k)
    /\ \A c : E!Size(c) = W!Size(c)
  <1>1. \A c, k : E!Before(c, k) = W!Before(c, k)
    BY Zenon DEF E!Before, W!Before
  <1>2. \A c : E!Size(c) = W!Size(c)
    BY <1>1 DEF E!Size, W!Size
  <1>3. E!Plan = W!Plan
    BY Zenon DEF E!Plan, W!Plan, E!Segment, W!Segment, E!Chunk, W!Chunk, E!EHDR, W!EHDR,
           E!PHDR, W!PHDR, E!SHDR, W!SHDR, E!SH_NUM_SECTIONS, W!SH_NUM_SECTIONS,
           E!shstrtab_size, W!shstrtab_size
  <1>4. E!Program = W!Program
    BY Zenon DEF E!Program, W!Program, E!fill_program_header, W!fill_program_header,
           E!shstrtab_offset, W!shstrtab_offset, E!data_offset, W!data_offset,
           E!text_offset, W!text_offset, E!EHDR, W!EHDR, E!PHDR, W!PHDR
  <1> QED
    BY <1>1, <1>2, <1>3, <1>4

(* So is its memory.                                                       *)
LEMMA SameMemory ==
    ASSUME NEW c, NEW p, NEW a
    PROVE  E!Memory(c, p, a) = W!Memory(c, p, a)
  BY Zenon DEF E!Memory, W!Memory, E!Byte, W!Byte, E!Nothing, W!Nothing, E!Before, W!Before

(* And so are its steps.                                                   *)
LEMMA SameStep ==
    ASSUME W!WriterNext PROVE E!WriterNext
  <1>1. /\ E!Plan = W!Plan
        /\ \A c, k : E!Before(c, k) = W!Before(c, k)
        /\ \A c : E!Size(c) = W!Size(c)
    BY SamePlan
  <1>2. /\ W!Open => E!Open
        /\ W!OpenFails => E!OpenFails
    BY DEF W!Open, E!Open, W!OpenFails, E!OpenFails, W!Returns, E!Returns
  <1>3. \A limit : W!Flushes(limit) = E!Flushes(limit)
    BY DEF W!Flushes, E!Flushes
  <1>4. W!Write => E!Write
    BY <1>1, <1>3 DEF W!Write, E!Write
  <1>5. W!WriteFails => E!WriteFails
    BY <1>1, <1>3 DEF W!WriteFails, E!WriteFails
  <1>6. W!Abort => E!Abort
    BY <1>1, <1>3 DEF W!Abort, E!Abort, W!Returns, E!Returns
  <1>7. W!Close => E!Close
    BY <1>1, <1>3 DEF W!Close, E!Close, W!Returns, E!Returns
  <1>8. W!CloseFails => E!CloseFails
    BY <1>1, <1>3 DEF W!CloseFails, E!CloseFails, W!Returns, E!Returns
  <1> QED
    BY <1>2, <1>4, <1>5, <1>6, <1>7, <1>8 DEF W!WriterNext, E!WriterNext

(* What writer32 does to its own invariant.                                *)
LEMMA WriterStep ==
    ASSUME E!IInv, W!WriterNext PROVE E!IInv'
  BY SameStep, CutsAssumption, BaseAssumption, E!InvStep DEF E!InvStep

(* And what a step does that leaves it and the sizes alone.                *)
LEMMA WriterKept ==
    ASSUME E!IInv, UNCHANGED <<size, writer>> PROVE E!IInv'
  <1>1. UNCHANGED E!wvars
    BY DEF E!wvars, writer
  <1>2. /\ E!Plan' = E!Plan
        /\ \A c, k : E!Before(c, k) = E!Before(c, k)
        /\ E!Size(E!Plan)' = E!Size(E!Plan)
    BY <1>1 DEF E!Plan, E!Segment, E!wvars
  <1> QED
    BY <1>1, <1>2 DEF E!IInv, E!TypeOK, E!Progress, E!Calls, E!Whole, E!wvars

(* The invariant holds when main is called.                                *)
LEMMA MainStart ==
    ASSUME MainInit PROVE MainInv
  <1>1. ImageInv
    BY ImageInit DEF MainInit
  <1>2. argv \in Seq(Keys)
    BY CommandLinesAssumption DEF MainInit
  <1>3. phase = "scan" /\ size.text = 0
    BY DEF MainInit, Init
  <1> QED
    BY <1>1, <1>2, <1>3 DEF MainInit, MainInv, Stages, Ahead, Settled, Left

(* A step of main that leaves the passes alone leaves their invariant.     *)
LEMMA PassesKept ==
    ASSUME ImageInv, UNCHANGED vars PROVE ImageInv'
  BY ImageStep

(* The answer of argparse.                                                 *)
LEMMA ArgparseStep ==
    ASSUME MainInv, NoArguments \/ Allocated \/ ParseOption \/ ArgpExits \/ Parsed
    PROVE  MainInv'
  <1> USE DEF MainInv, Stages
  <1>1. UNCHANGED <<vars, writer>>
    BY DEF NoArguments, Allocated, ParseOption, ArgpExits, Parsed
  <1>2. ImageInv' /\ UNCHANGED <<phase, size>>
    BY <1>1, PassesKept DEF vars
  <1>3. W!WriterInit /\ phase = "scan" /\ size.text = 0
    BY DEF NoArguments, Allocated, ParseOption, ArgpExits, Parsed, Ahead
  <1>4. W!WriterInit'
    BY <1>1, <1>3 DEF W!WriterInit, writer
  <1>5. E!IInv' /\ disk' = "old" /\ ret' = "none" /\ call' = "fopen"
    <2>1. E!IInv
      <3>1. E!Init
        BY <1>3, SameInit
      <3> QED
        BY <3>1, BaseAssumption, CutsAssumption, E!InvInit DEF E!InvInit
    <2> QED
      BY <1>1, <1>2, <1>4, <2>1, WriterKept DEF W!WriterInit
  <1>6. argv' \in Seq(Keys)
    BY DEF NoArguments, Allocated, ParseOption, ArgpExits, Parsed
  <1>7. CASE NoArguments
    BY <1>2, <1>3, <1>4, <1>5, <1>6, <1>7 DEF NoArguments, Exit, Ahead, Settled, Left
  <1>8. CASE Allocated
    BY <1>2, <1>3, <1>4, <1>6, <1>8 DEF Allocated, Ahead, Settled, Left
  <1>9. CASE ParseOption
    BY <1>2, <1>3, <1>4, <1>6, <1>9 DEF ParseOption, Ahead, Settled, Left
  <1>10. CASE ArgpExits
    BY <1>2, <1>3, <1>4, <1>5, <1>6, <1>10 DEF ArgpExits, Exit, Ahead, Settled, Left
  <1>11. CASE Parsed
    BY <1>2, <1>3, <1>4, <1>5, <1>6, <1>11 DEF Parsed, Ahead, Settled, Left
  <1> QED
    BY <1>7, <1>8, <1>9, <1>10, <1>11

(* The verdict of the passes.                                              *)
LEMMA PassesStep ==
    ASSUME MainInv, Pass \/ PassFailed \/ Passed
    PROVE  MainInv'
  <1> USE DEF MainInv, Stages
  <1>1. stage = "passes" /\ W!WriterInit /\ argv = <<>> /\ arguments.infile
    BY DEF Pass, PassFailed, Passed, Ahead
  <1>2. UNCHANGED <<writer, arguments, argv>>
    BY DEF Pass, PassFailed, Passed
  <1>3. W!WriterInit'
    BY <1>1, <1>2 DEF W!WriterInit, writer
  <1>4. CASE Pass
    <2>1. ImageInv'
      BY <1>4, ImageStep DEF Pass, Next
    <2> QED
      BY <1>1, <1>2, <1>3, <1>4, <2>1 DEF Pass, Ahead, Settled, Left
  <1>5. CASE PassFailed \/ Passed
    <2>1. ImageInv' /\ UNCHANGED <<phase, size>>
      BY <1>5, PassesKept DEF PassFailed, Passed, vars
    <2>2. E!IInv' /\ disk' = "old" /\ ret' = "none" /\ call' = "fopen"
      <3>1. E!IInv
        <4>1. E!Init
          BY <1>1, SameInit
        <4> QED
          BY <4>1, BaseAssumption, CutsAssumption, E!InvInit DEF E!InvInit
      <3> QED
        BY <1>2, <1>3, <2>1, <3>1, WriterKept DEF W!WriterInit
    <2> QED
      BY <1>1, <1>2, <1>3, <1>5, <2>1, <2>2
         DEF PassFailed, Passed, Exit, Ahead, Settled, Left
  <1> QED
    BY <1>4, <1>5

(* The file and the exit status.                                           *)
LEMMA OutputStep ==
    ASSUME MainInv, NoOutput \/ Output \/ Written \/ Exited \/ UNCHANGED mainvars
    PROVE  MainInv'
  <1> USE DEF MainInv, Stages
  <1>1. UNCHANGED vars /\ ImageInv' /\ UNCHANGED <<phase, size, argv, arguments>>
    BY PassesKept DEF NoOutput, Output, Written, Exited, mainvars, vars
  <1>2. size.text \in Nat
    BY SizesType
  <1>3. CASE NoOutput
    <2>1. E!IInv' /\ call = "fopen"
      BY <1>1, <1>3, WriterKept DEF NoOutput, Settled
    <2>2. disk = "old" /\ ret = "none"
      BY <1>3, <2>1 DEF NoOutput, Settled, E!IInv, E!Progress
    <2> QED
      BY <1>1, <1>3, <2>1, <2>2 DEF NoOutput, Exit, writer, Ahead, Settled, Left
  <1>4. CASE Output
    <2>1. E!IInv'
      BY <1>4, WriterStep DEF Output, Settled
    <2> QED
      BY <1>1, <1>4, <2>1 DEF Output, Ahead, Settled, Left
  <1>5. CASE Written
    <2>1. E!IInv' /\ size.text > 0 /\ UNCHANGED writer
      BY <1>1, <1>2, <1>5, WriterKept DEF Written, Settled
    <2> QED
      BY <1>1, <1>5, <2>1 DEF Written, Exit, writer, Ahead, Settled, Left
  <1>6. CASE Exited \/ UNCHANGED mainvars
    <2>1. UNCHANGED <<stage, exit_code, call, put, disk, flushed, ret, fault, writer>>
      BY <1>6 DEF Exited, mainvars, writer
    <2>2. E!IInv => E!IInv'
      BY <1>1, <2>1, WriterKept
    <2>3. W!WriterInit => W!WriterInit'
      BY <2>1 DEF W!WriterInit
    <2> QED
      BY <1>1, <2>1, <2>2, <2>3 DEF Ahead, Settled, Left
  <1> QED
    BY <1>3, <1>4, <1>5, <1>6

(* The invariant of the program holds from the first call to the exit.     *)
THEOREM MainInvariance == MainSpec => []MainInv
  <1>1. MainInit => MainInv
    BY MainStart
  <1>2. MainInv /\ [Main \/ Exited]_mainvars => MainInv'
    BY ArgparseStep, PassesStep, OutputStep DEF Main
  <1> QED
    BY <1>1, <1>2, PTL DEF MainSpec

-----------------------------------------------------------------------------
(* What a run of the program leaves                                        *)

(* An error in the source leaves the output file alone, whatever stdio     *)
(* does; success means both passes and writer32 accepted.                  *)
THEOREM OutputIsSafe == MainSpec => []ErrorLeavesOutput
  <1>1. ASSUME MainInv PROVE ErrorLeavesOutput
    <2>1. size.text \in Nat
      BY <1>1, SizesType DEF MainInv
    <2>2. ASSUME disk = "new"
          PROVE  arguments.infile /\ phase = "done" /\ size.text > 0
      <3>1. CASE stage \in {"calloc", "argparse", "passes"}
        BY <1>1, <2>2, <3>1 DEF MainInv, Ahead, W!WriterInit
      <3>2. CASE stage = "output"
        BY <1>1, <2>1, <2>2, <3>2 DEF MainInv, Settled, E!IInv, E!Progress
      <3>3. CASE stage = "exited"
        BY <1>1, <2>2, <3>3 DEF MainInv, Left
      <3> QED
        BY <1>1, <3>1, <3>2, <3>3 DEF MainInv, Stages
    <2>3. ASSUME stage = "exited", exit_code = "SUCCESS", argv = <<>>
          PROVE  /\ arguments.infile => phase = "done"
                 /\ ret # "ELF_ERROR"
                 /\ disk = "new" <=> size.text > 0
      <3>1. CASE size.text > 0
        BY <1>1, <2>3, <3>1 DEF MainInv, Left, E!IInv, E!TypeOK, E!Progress, E!Whole
      <3>2. CASE size.text = 0
        BY <1>1, <2>1, <2>3, <3>2 DEF MainInv, Left
      <3> QED
        BY <2>1, <3>1, <3>2
    <2> QED
      BY <2>2, <2>3 DEF ErrorLeavesOutput
  <1>2. MainInv => ErrorLeavesOutput
    BY <1>1
  <1> QED
    BY <1>2, MainInvariance, PTL

(* Where the bytes of the segments are in memory, and what is behind them. *)
LEMMA InMemory ==
    ASSUME ImageInv
    PROVE  /\ \A o \in 0..(size.text - 1) : Loaded(base_vaddr + (84 + o)) = <<"text", o>>
           /\ \A x \in 0..(size.data - 1) :
                  Loaded(base_vaddr + (84 + size.text + x)) = <<"data", x>>
           /\ Loaded(base_vaddr + (84 + size.text + size.data)) = W!Nothing
           /\ \A a \in Int, o \in Int : Loaded(a) = <<"text", o>> => a = base_vaddr + 84 + o
           /\ W!Size(W!Plan) = 312 + size.text + size.data
  <1>1. size.text \in Nat /\ size.data \in Nat
    BY SizesType
  <1>2. \A a : Loaded(a) = E!Memory(E!Plan, E!Program, a)
    BY SamePlan, SameMemory DEF Loaded
  <1>3. /\ \A o \in 0..(size.text - 1) :
               E!Memory(E!Plan, E!Program, base_vaddr + (84 + o)) = <<"text", o>>
        /\ \A x \in 0..(size.data - 1) :
               E!Memory(E!Plan, E!Program, base_vaddr + (84 + size.text + x)) = <<"data", x>>
        /\ E!Memory(E!Plan, E!Program, base_vaddr + (84 + size.text + size.data)) = E!Nothing
    BY <1>1, BaseAssumption, CutsAssumption, E!MemoryOfPlan DEF E!MemoryOfPlan
  <1>4. W!Nothing = E!Nothing
    BY DEF W!Nothing, E!Nothing
  <1>5. \A a \in Int, o \in Int :
            E!Memory(E!Plan, E!Program, a) = <<"text", o>> => a = base_vaddr + 84 + o
    BY <1>1, BaseAssumption, CutsAssumption, E!FoundOnce DEF E!FoundOnce
  <1>6. W!Size(W!Plan) = 312 + size.text + size.data
    <2>1. E!LaidOut
      BY <1>1, BaseAssumption, CutsAssumption, E!PlanLaidOut DEF E!PlanLaidOut
    <2> QED
      BY <2>1, SamePlan DEF E!LaidOut
  <1> QED
    BY <1>2, <1>3, <1>4, <1>5, <1>6

(* A la in memory adds up to the address of its data.                      *)
LEMMA LoadsData ==
    ASSUME ImageInv, phase = "done",
           NEW o \in 0..(size.text - 1), NEW j \in 1..Len(file),
           text[o].half = 1,
           file[text[o].line].stmt.op = "la",
           file[j].kind = "content",
           file[j].label = file[text[o].line].stmt.sym
    PROVE  LET pc == CHOOSE a \in base_vaddr..(base_vaddr + W!Size(W!Plan)) :
                         Loaded(a) = <<"text", o>>
               at == Loaded(pc + text[o].rel)
           IN  IF \E x \in 0..(size.data - 1) : data[x] >= j
               THEN /\ at[1] = "data"
                    /\ data[at[2]] >= j
                    /\ at[2] > 0 => data[at[2] - 1] < j
               ELSE at = W!Nothing
  <1> DEFINE pc == CHOOSE a \in base_vaddr..(base_vaddr + W!Size(W!Plan)) :
                       Loaded(a) = <<"text", o>>
             at == Loaded(pc + text[o].rel)
             b == TextAddress(o) + text[o].rel - DataAddress(0)
  <1>1. /\ base_vaddr \in Nat /\ DATA_SIZE \in Nat /\ Len(file) \in Nat
        /\ size.text \in Nat /\ size.text <= DATA_SIZE
        /\ size.data \in Nat /\ size.data <= DATA_SIZE
        /\ text \in [Bytes -> Word] /\ data \in [Bytes -> Nat]
    BY SizesType, BaseAssumption, DataSizeAssumption
       DEF ImageInv, IInv, TypeOK, Placed, CapacityRespected
  <1>2. o \in Bytes /\ o < size.text /\ text[o].rel \in Int
    <2>1. o \in Bytes /\ o < size.text
      BY <1>1 DEF Bytes
    <2>2. text[o] \in Word
      BY <1>1, <2>1
    <2> QED
      BY <2>1, <2>2 DEF Word
  <1>3. b \in 0..size.data /\ \A x \in 0..(size.data - 1) : data[x] >= j <=> x >= b
    BY <1>2, LaReachesIs DEF LaReachesData
  <1>4. pc = base_vaddr + 84 + o
    <2>1. \E a \in base_vaddr..(base_vaddr + W!Size(W!Plan)) : Loaded(a) = <<"text", o>>
      <3>1. base_vaddr + (84 + o) \in base_vaddr..(base_vaddr + W!Size(W!Plan))
        BY SMTT(30), <1>1, InMemory
      <3> QED
        BY <3>1, InMemory
    <2>2. pc \in base_vaddr..(base_vaddr + W!Size(W!Plan)) /\ Loaded(pc) = <<"text", o>>
      BY <2>1
    <2>3. pc \in Int
      BY <1>1, <2>2, InMemory
    <2> HIDE DEF pc
    <2> QED
      BY <2>2, <2>3, InMemory
  <1>5. at = Loaded(base_vaddr + (84 + size.text + b))
    <2> HIDE DEF pc
    <2>1. PICK r \in Int : r = text[o].rel
      BY <1>2
    <2>2. PICK t \in Nat : t = size.text
      BY <1>1
    <2>3. b = (base_vaddr + 84 + o + r) - (base_vaddr + 84 + t + 0)
      BY SMTT(30), <1>1, <2>1, <2>2 DEF TextAddress, DataAddress, HEADERS_LEN
    <2>4. b \in Int
      BY <1>1, <1>3
    <2> HIDE DEF b
    <2>5. pc + r = base_vaddr + (84 + t + b)
      BY <1>1, <1>4, <2>3, <2>4
    <2> QED
      BY <2>1, <2>2, <2>5
  <1> HIDE DEF pc, at, b
  <1>6. CASE \E x \in 0..(size.data - 1) : data[x] >= j
    <2>1. b \in 0..(size.data - 1)
      BY <1>1, <1>3, <1>6
    <2>2. at = <<"data", b>>
      BY <1>5, <2>1, InMemory
    <2>3. data[b] >= j
      BY <1>1, <1>3, <2>1
    <2>4. ASSUME b > 0 PROVE data[b - 1] < j
      <3>1. b - 1 \in 0..(size.data - 1) /\ ~(b - 1 >= b) /\ b - 1 \in Bytes
        BY <1>1, <2>1, <2>4 DEF Bytes
      <3>2. ~(data[b - 1] >= j)
        BY <1>3, <3>1
      <3>3. data[b - 1] \in Nat
        BY <1>1, <3>1
      <3> QED
        BY <1>1, <3>2, <3>3
    <2> QED
      BY <1>6, <2>2, <2>3, <2>4 DEF at, pc
  <1>7. CASE ~\E x \in 0..(size.data - 1) : data[x] >= j
    <2>1. b = size.data
      <3>1. b \notin 0..(size.data - 1)
        BY <1>1, <1>3, <1>7
      <3> QED
        BY <1>1, <1>3, <3>1
    <2> QED
      BY <1>5, <1>7, <2>1, InMemory DEF at, pc
  <1> QED
    BY <1>6, <1>7 DEF at, pc

(* A run that succeeds on a program with instructions has written all of   *)
(* it, and loaded from there every la finds the data of its symbol.        *)
THEOREM SuccessIsLoaded == MainSpec => []SuccessLoads
  <1>1. ASSUME MainInv, stage = "exited", exit_code = "SUCCESS", size.text > 0, fault = {}
        PROVE  W!Whole /\ phase = "done" /\ ImageInv
    <2>1. E!IInv /\ phase = "done" /\ call = "returned" /\ ret = "OK"
      BY <1>1 DEF MainInv, Left
    <2>2. E!Whole
      BY <1>1, <2>1 DEF E!IInv, E!Progress
    <2> QED
      BY <1>1, <2>1, <2>2, SamePlan DEF MainInv, E!Whole, W!Whole
  <1>2. ASSUME MainInv PROVE SuccessLoads
    BY <1>1, <1>2, LoadsData DEF SuccessLoads
  <1>3. MainInv => SuccessLoads
    BY <1>2
  <1> QED
    BY <1>3, MainInvariance, PTL

-----------------------------------------------------------------------------
(* The end of the program                                                  *)

(* How many calls writer32 can still make, of at most eight.               *)
WriterSteps ==
    CASE call = "fopen"              -> 9
      [] call = "fwrite"             -> 8 - put
      [] call \in {"abort", "fclose"} -> 1
      [] OTHER                       -> 0

(* How many times main can still go on to another part.                    *)
StageSteps ==
    CASE stage = "calloc"   -> 4
      [] stage = "argparse" -> 3
      [] stage = "passes"   -> 2
      [] stage = "output"   -> 1
      [] OTHER              -> 0

StepsLeft == Len(argv) + PassSteps + WriterSteps + StageSteps

(* The file has at most six chunks.                                        *)
LEMMA SixChunks ==
    ASSUME ImageInv PROVE Len(E!Plan) \in 0..6
  <1>1. size.text \in Nat /\ size.data \in Nat
    BY SizesType
  <1>2. Len(W!Plan) \in 0..6
    BY <1>1 DEF W!Plan, W!Segment
  <1> QED
    BY <1>2, SamePlan

(* Each call of writer32 is one less to make.                              *)
LEMMA WriterAdvances ==
    ASSUME MainInv, Output
    PROVE  WriterSteps' < WriterSteps
  <1>1. E!IInv /\ W!WriterNext /\ ImageInv
    BY DEF MainInv, Settled, Output
  <1>2. put \in Nat /\ (call = "fwrite" => put <= 5)
    <2>1. put \in 0..Len(E!Plan)
      BY <1>1, Zenon DEF E!IInv, E!TypeOK
    <2>2. call = "fwrite" => put < Len(E!Plan)
      BY <1>1, Zenon DEF E!IInv, E!Progress
    <2> DEFINE n == Len(E!Plan)
    <2>3. n \in 0..6
      BY <1>1, SixChunks
    <2> HIDE DEF n
    <2>4. put \in 0..n /\ (call = "fwrite" => put < n)
      BY <2>1, <2>2 DEF n
    <2> QED
      BY <2>3, <2>4
  <1>3. CASE W!Open \/ W!OpenFails
    <2>1. call = "fopen" /\ put' = put
      BY <1>3 DEF W!Open, W!OpenFails
    <2>2. call' \in {"fwrite", "returned"}
      BY <1>3 DEF W!Open, W!OpenFails, W!Returns
    <2> QED
      BY <1>2, <2>1, <2>2 DEF WriterSteps
  <1>4. CASE W!Write
    <2>1. call = "fwrite" /\ put' = put + 1 /\ call' \in {"fclose", "fwrite"}
      BY <1>4 DEF W!Write
    <2> QED
      BY <1>2, <2>1 DEF WriterSteps
  <1>5. CASE W!WriteFails
    <2>1. call = "fwrite" /\ call' = "abort"
      BY <1>5 DEF W!WriteFails
    <2> QED
      BY <1>2, <2>1 DEF WriterSteps
  <1>6. CASE W!Abort \/ W!Close \/ W!CloseFails
    <2>1. call \in {"abort", "fclose"} /\ call' = "returned"
      BY <1>6 DEF W!Abort, W!Close, W!CloseFails, W!Returns
    <2> QED
      BY <2>1 DEF WriterSteps
  <1> QED
    BY <1>1, <1>3, <1>4, <1>5, <1>6 DEF W!WriterNext

(* All of them are numbers, with these bounds.                             *)
StepsType ==
    /\ Len(argv) \in Nat
    /\ Len(file) \in Nat
    /\ PassSteps \in 0..(2 * Len(file) + 3)
    /\ WriterSteps \in 0..9
    /\ StageSteps \in 0..4

(* So they are in every state of the program.                              *)
LEMMA StepsAreNumbers == MainInv => StepsType
  <1> SUFFICES ASSUME MainInv PROVE StepsType
    OBVIOUS
  <1>1. Len(argv) \in Nat
    BY DEF MainInv
  <1>2. ImageInv /\ IInv
    BY DEF MainInv, ImageInv
  <1>3. Len(file) \in Nat /\ PassSteps \in 0..(2 * Len(file) + 3)
    <2>1. Len(file) \in Nat /\ ln \in 1..(Len(file) + 1)
      BY <1>2 DEF IInv, TypeOK, Bounds
    <2> QED
      BY <2>1 DEF PassSteps
  <1>4. WriterSteps \in 0..9
    <2>1. call = "fwrite" => put \in 0..6
      <3>1. call = "fwrite" => E!IInv
        BY DEF MainInv, Stages, Ahead, Settled, Left, W!WriterInit
      <3>2. Len(E!Plan) \in 0..6
        BY <1>2, SixChunks
      <3> DEFINE n == Len(E!Plan)
      <3>3. E!IInv => put \in 0..n
        BY Zenon DEF E!IInv, E!TypeOK
      <3>4. n \in 0..6
        BY <3>2
      <3> HIDE DEF n
      <3> QED
        BY <3>1, <3>3, <3>4
    <2> QED
      BY <2>1 DEF WriterSteps
  <1>5. StageSteps \in 0..4
    BY DEF StageSteps
  <1> QED
    BY <1>1, <1>3, <1>4, <1>5 DEF StepsType

(* Each step of the program is one less to take.                           *)
LEMMA ProgramAdvancesStep ==
    ASSUME MainInv, StepsType, StepsType', Main
    PROVE  StepsLeft' < StepsLeft
  <1>1. CASE NoArguments \/ Allocated \/ ArgpExits \/ Parsed \/ PassFailed \/ Passed
             \/ NoOutput \/ Written
    <2>1. UNCHANGED <<vars, writer, argv>>
      BY <1>1 DEF NoArguments, Allocated, ArgpExits, Parsed, PassFailed, Passed,
                  NoOutput, Written
    <2>2. Len(argv') = Len(argv) /\ PassSteps' = PassSteps /\ WriterSteps' = WriterSteps
      BY <2>1 DEF vars, writer, PassSteps, WriterSteps
    <2>3. StageSteps' < StageSteps
      BY <1>1 DEF NoArguments, Allocated, ArgpExits, Parsed, PassFailed, Passed,
                  NoOutput, Written, Exit, StageSteps
    <2> QED
      BY <2>2, <2>3, SMTT(30) DEF StepsLeft, StepsType
  <1>2. CASE ParseOption
    <2>1. UNCHANGED <<vars, writer, stage>>
      BY <1>2 DEF ParseOption
    <2>2. PassSteps' = PassSteps /\ WriterSteps' = WriterSteps /\ StageSteps' = StageSteps
      BY <2>1 DEF vars, writer, PassSteps, WriterSteps, StageSteps
    <2>3. Len(argv') < Len(argv)
      BY <1>2 DEF ParseOption, MainInv
    <2> QED
      BY <2>2, <2>3, SMTT(30) DEF StepsLeft, StepsType
  <1>3. CASE Pass
    <2>1. Len(argv') = Len(argv) /\ WriterSteps' = WriterSteps /\ StageSteps' = StageSteps
      BY <1>3 DEF Pass, writer, WriterSteps, StageSteps
    <2>2. PassSteps' < PassSteps
      BY <1>3, PassAdvances DEF Pass, MainInv, ImageInv
    <2> QED
      BY <2>1, <2>2, SMTT(30) DEF StepsLeft, StepsType
  <1>4. CASE Output
    <2>1. Len(argv') = Len(argv) /\ PassSteps' = PassSteps /\ StageSteps' = StageSteps
      BY <1>4 DEF Output, vars, PassSteps, StageSteps
    <2>2. WriterSteps' < WriterSteps
      BY <1>4, WriterAdvances
    <2> QED
      BY <2>1, <2>2, SMTT(30) DEF StepsLeft, StepsType
  <1> QED
    BY <1>1, <1>2, <1>3, <1>4 DEF Main

(* The program exits within as many steps as it has options and, twice,    *)
(* lines, and sixteen: each step of it is one less to take.  That a step   *)
(* is taken until there is none is the other half of Exits.                *)
THEOREM ProgramAdvances ==
    MainSpec => /\ [](StepsLeft \in Nat /\ StepsLeft <= Len(argv) + 2 * Len(file) + 16)
                /\ [][StepsLeft' < StepsLeft]_mainvars
  <1>1. StepsType => StepsLeft \in Nat /\ StepsLeft <= Len(argv) + 2 * Len(file) + 16
    BY DEF StepsType, StepsLeft
  <1>2. MainInv /\ StepsType /\ StepsType' /\ [Main \/ Exited]_mainvars
          => [StepsLeft' < StepsLeft]_mainvars
    BY ProgramAdvancesStep DEF Exited
  <1> QED
    BY <1>1, <1>2, MainInvariance, StepsAreNumbers, PTL DEF MainSpec

-----------------------------------------------------------------------------
(* The base                                                                *)

AsksForPk(options) == \E k \in DOMAIN options : options[k] = "p"

(* As long as there are options left, the base is the one they ask for,    *)
(* and otherwise the one the options seen so far have asked for.           *)
BaseInv ==
    /\ argv \in Seq(Keys)
    /\ DOMAIN arguments = {"infile", "outfile", "base_vaddr"}
    /\ stage \in {"calloc", "argparse"} =>
           base_vaddr = IF AsksForPk(argv) THEN PK_VADDR ELSE arguments.base_vaddr
    /\ OneBase

(* An option that is taken off the command line is "p" or leaves the       *)
(* question to those behind it.                                            *)
LEMMA TailAsks ==
    ASSUME NEW options \in Seq(Keys), options # <<>>
    PROVE  AsksForPk(options) <=> Head(options) = "p" \/ AsksForPk(Tail(options))
  <1>1. /\ Len(options) \in Nat /\ Len(options) >= 1
        /\ DOMAIN options = 1..Len(options)
        /\ DOMAIN Tail(options) = 1..(Len(options) - 1)
        /\ Head(options) = options[1]
        /\ \A k \in 1..(Len(options) - 1) : Tail(options)[k] = options[k + 1]
    OBVIOUS
  <1>2. ASSUME NEW k \in DOMAIN options, options[k] = "p"
        PROVE  Head(options) = "p" \/ AsksForPk(Tail(options))
    <2>1. CASE k = 1
      BY <1>1, <1>2, <2>1
    <2>2. CASE k # 1
      <3>1. k - 1 \in 1..(Len(options) - 1) /\ (k - 1) + 1 = k
        BY <1>1, <2>2
      <3>2. Tail(options)[k - 1] = "p"
        BY <1>1, <1>2, <3>1
      <3> QED
        BY <1>1, <3>1, <3>2 DEF AsksForPk
    <2> QED
      BY <2>1, <2>2
  <1>3. ASSUME Head(options) = "p" PROVE AsksForPk(options)
    <2>1. 1 \in DOMAIN options
      BY <1>1
    <2> QED
      BY <1>1, <1>3, <2>1 DEF AsksForPk
  <1>4. ASSUME NEW k \in DOMAIN Tail(options), Tail(options)[k] = "p" PROVE AsksForPk(options)
    <2>1. k + 1 \in DOMAIN options /\ options[k + 1] = "p"
      BY <1>1, <1>4
    <2> QED
      BY <2>1 DEF AsksForPk
  <1> QED
    BY <1>2, <1>3, <1>4 DEF AsksForPk

(* The step of argp that changes the arguments.                            *)
LEMMA OptionKeepsBase ==
    ASSUME BaseInv, ParseOption PROVE BaseInv'
  <1>1. /\ stage = "argparse" /\ stage' = stage /\ argv # <<>>
        /\ Head(argv) \in {"c", "o", "p"}
        /\ arguments' = parse_opt(arguments, Head(argv)) /\ argv' = Tail(argv)
    BY DEF ParseOption
  <1>2. argv \in Seq(Keys) /\ argv' \in Seq(Keys)
    BY <1>1 DEF BaseInv
  <1>3. AsksForPk(argv) <=> Head(argv) = "p" \/ AsksForPk(argv')
    BY <1>1, <1>2, TailAsks
  <1>4. /\ DOMAIN arguments' = {"infile", "outfile", "base_vaddr"}
        /\ arguments'.base_vaddr = IF Head(argv) = "p" THEN PK_VADDR ELSE arguments.base_vaddr
    BY <1>1 DEF BaseInv, parse_opt
  <1>5. base_vaddr = IF AsksForPk(argv) THEN PK_VADDR ELSE arguments.base_vaddr
    BY <1>1 DEF BaseInv
  <1>6. base_vaddr = IF AsksForPk(argv') THEN PK_VADDR ELSE arguments'.base_vaddr
    BY <1>3, <1>4, <1>5
  <1> QED
    BY <1>1, <1>2, <1>4, <1>6 DEF BaseInv, OneBase

(* The base the passes and the writer go by is the one asked for, however  *)
(* the options are ordered and however often they are repeated.            *)
THEOREM BaseIsOne == MainSpec => []OneBase
  <1>1. ASSUME MainInit PROVE BaseInv
    <2>1. /\ argv \in Seq(Keys) /\ LeadsToBase(argv)
          /\ arguments = Defaults /\ stage = "calloc"
      BY <1>1, CommandLinesAssumption DEF MainInit
    <2> QED
      BY <2>1 DEF BaseInv, LeadsToBase, AsksForPk, Defaults, OneBase
  <1>2. ASSUME BaseInv, [Main \/ Exited]_mainvars PROVE BaseInv'
    <2>1. CASE ParseOption
      BY <1>2, <2>1, OptionKeepsBase
    <2>2. CASE UNCHANGED <<argv, arguments, stage>>
      BY <1>2, <2>2 DEF BaseInv, OneBase, AsksForPk
    <2>3. CASE NoArguments \/ ArgpExits \/ PassFailed \/ NoOutput \/ Written
      BY <1>2, <2>3 DEF NoArguments, ArgpExits, PassFailed, NoOutput, Written, Exit,
                        BaseInv, OneBase
    <2>4. CASE Allocated
      BY <1>2, <2>4 DEF Allocated, BaseInv, OneBase
    <2>5. CASE Parsed
      <3>1. /\ stage = "argparse" /\ argv = <<>> /\ UNCHANGED <<argv, arguments>>
            /\ stage' \in {"passes", "output"}
        BY <2>5 DEF Parsed
      <3>2. ~AsksForPk(argv)
        BY <3>1 DEF AsksForPk
      <3> QED
        BY <1>2, <3>1, <3>2 DEF BaseInv, OneBase
    <2>6. CASE Passed
      BY <1>2, <2>6 DEF Passed, BaseInv, OneBase
    <2> QED
      BY <1>2, <2>1, <2>2, <2>3, <2>4, <2>5, <2>6
         DEF Main, Exited, mainvars, Pass, Output
  <1>3. BaseInv => OneBase
    BY DEF BaseInv
  <1> QED
    BY <1>1, <1>2, <1>3, PTL DEF MainSpec

=============================================================================
