----------------------------- MODULE CsfProofs -----------------------------
(***************************************************************************)
(* Proofs about Csf: for any templates.                                    *)
(***************************************************************************)
EXTENDS Csf, FlattenProofs

LEMMA JoinType ==
  ASSUME NEW a \in Line, NEW b \in Line
  PROVE  Join(a, b) \in Line
<1>1. a.value \o b.value \in Seq(Value)
  BY DEF Line
<1>2. (IF a.section # None THEN a.section ELSE b.section) \in Name \cup {None}
  BY DEF Line
<1>3. Join(a, b).key \in Name \cup {None}
  BY NamesAssumption DEF Line, Join
<1> QED
  BY <1>1, <1>2, <1>3 DEF Line, Join

LEMMA CurrentType ==
  ASSUME TypeOK, Continues \/ Reads
  PROVE  Current \in Line
<1>1. template[pos] \in Line
  BY TemplateAssumption DEF TypeOK, Continues, Reads
<1>2. CASE prev = <<>>
  BY <1>1, <1>2 DEF Current
<1>3. CASE prev # <<>>
  BY <1>1, <1>3, JoinType DEF Current, TypeOK
<1> QED
  BY <1>2, <1>3

LEMMA PrefixIs ==
  ASSUME NEW v \in Seq(Value)
  PROVE  /\ Prefix(v) \in Seq(Value)
         /\ \A j \in DOMAIN Prefix(v) : Prefix(v)[j].prefixed
<1>1. \A u \in Value : /\ [u EXCEPT !.prefixed = TRUE] \in Value
                      /\ [u EXCEPT !.prefixed = TRUE].prefixed = TRUE
  BY DEF Value
<1>2. \A i \in 1 .. Len(v) : v[i] \in Value
  OBVIOUS
<1>3. Prefix(v) = [i \in 1 .. Len(v) |-> [v[i] EXCEPT !.prefixed = TRUE]]
  BY DEF Prefix
<1>4. Len(v) \in Nat
  OBVIOUS
<1>5. Prefix(v) \in [1 .. Len(v) -> Value]
  BY <1>1, <1>2, <1>3
<1>6. DOMAIN Prefix(v) = 1 .. Len(v)
  BY <1>3
<1>7. \A j \in 1 .. Len(v) : Prefix(v)[j] = [v[j] EXCEPT !.prefixed = TRUE]
  BY <1>3
<1> HIDE DEF Prefix
<1>8. Prefix(v) \in Seq(Value)
  BY <1>4, <1>5
<1>9. \A j \in 1 .. Len(v) : Prefix(v)[j].prefixed = TRUE
  BY <1>1, <1>2, <1>7
<1> QED
  BY <1>6, <1>8, <1>9

\* What a line is answered with has the values that its section and key call for.
LEMMA WrittenIs ==
  ASSUME NEW s \in Name \cup {None}, NEW k \in Name \cup {None},
         NEW v \in Seq(Value), NEW line \in Line
  PROVE  LET w == Written(s, k, v, line) IN
         /\ w = line \/ (k \in Known /\ w.section = None /\ w.key = k)
         /\ s = "install_srk" /\ k = "file" => w.value = Says("table")
         /\ s = "install_srk" /\ k = "source_index" => w.value = Says("index")
         /\ s = "install_csfk" /\ k = "file" => w.value = Says("csf_uri")
         /\ s = "install_key" /\ k = "file" => w.value = Says("img_uri")
         /\ s = "authenticate_data" /\ k = "blocks" /\ v # <<>> =>
              \A j \in DOMAIN w.value : w.value[j].prefixed
         /\ s = "authenticate_data" /\ k = "blocks" /\ v = <<>> => w = line
<1> DEFINE w == Written(s, k, v, line)
<1>1. w = line \/ (k \in Known /\ w.section = None /\ w.key = k)
  BY DEF Written, Statement, Known
<1>2. /\ s = "install_srk" /\ k = "file" => w.value = Says("table")
      /\ s = "install_srk" /\ k = "source_index" => w.value = Says("index")
      /\ s = "install_csfk" /\ k = "file" => w.value = Says("csf_uri")
      /\ s = "install_key" /\ k = "file" => w.value = Says("img_uri")
  BY DEF Written, Statement
<1>3. ASSUME s = "authenticate_data", k = "blocks", v # <<>>
      PROVE  \A j \in DOMAIN w.value : w.value[j].prefixed
  <2>1. w = Statement(k, Prefix(v))
    BY <1>3 DEF Written
  <2>2. w.value = Prefix(v)
    BY <2>1 DEF Statement
  <2> HIDE DEF w
  <2> QED
    BY <2>2, PrefixIs
<1>4. s = "authenticate_data" /\ k = "blocks" /\ v = <<>> => w = line
  BY DEF Written
<1> QED
  BY <1>1, <1>2, <1>3, <1>4

LEMMA WrittenType ==
  ASSUME NEW s \in Name \cup {None}, NEW k \in Name \cup {None},
         NEW v \in Seq(Value), NEW line \in Line
  PROVE  Written(s, k, v, line) \in Line
<1>1. \A t \in Configured : Says(t) \in Seq(Value)
  BY DEF Says, Value
<1>2. Prefix(v) \in Seq(Value)
  BY PrefixIs
<1>3. \A u \in Seq(Value) : Statement(k, u) \in Line
  BY DEF Statement, Line
<1> QED
  BY <1>1, <1>2, <1>3 DEF Written, Configured

\* A line that is appended: earlier ones stay in their sections, and it is in
\* its own, or in that of the line before.
LEMMA AppendSection ==
  ASSUME NEW lines \in Seq(Line), NEW w \in Line
  PROVE  LET more == Append(lines, w)
             n == Len(lines) IN
         /\ Len(more) = n + 1 /\ more[n + 1] = w
         /\ \A i \in 1 .. n : more[i] = lines[i]
         /\ \A i \in 1 .. n : \A s : InSection(more, i, s) <=> InSection(lines, i, s)
         /\ \A s : InSection(more, n + 1, s) =>
              \/ IsHeader(w) /\ w.section = s
              \/ ~IsHeader(w) /\ InSection(lines, n, s)
<1> DEFINE more == Append(lines, w)
           n == Len(lines)
<1>1. n \in Nat /\ Len(more) = n + 1 /\ more[n + 1] = w
      /\ \A i \in 1 .. n : more[i] = lines[i]
  OBVIOUS
<1> HIDE DEF more, n
<1>2. ASSUME NEW i \in 1 .. n, NEW s
      PROVE  InSection(more, i, s) <=> InSection(lines, i, s)
  <2>1. \A h \in 1 .. i : more[h] = lines[h]
    BY <1>1
  <2>2. \A h \in 1 .. i : \A j \in h + 1 .. i : j \in 1 .. i
    BY <1>1
  <2> QED
    BY <2>1, <2>2 DEF InSection
<1>3. ASSUME NEW s, InSection(more, n + 1, s), ~(IsHeader(w) /\ w.section = s)
      PROVE  ~IsHeader(w) /\ InSection(lines, n, s)
  <2>1. PICK h \in 1 .. n + 1 : /\ IsHeader(more[h]) /\ more[h].section = s
                                /\ \A j \in h + 1 .. n + 1 : ~IsHeader(more[j])
    BY <1>3 DEF InSection
  <2>2. h \in 1 .. n
    BY <1>1, <1>3, <2>1
  <2>3. n + 1 \in h + 1 .. n + 1 /\ \A j \in h + 1 .. n : j \in h + 1 .. n + 1 /\ j \in 1 .. n
    BY <1>1, <2>2
  <2> QED
    BY <1>1, <2>1, <2>2, <2>3 DEF InSection
<1> QED
  BY <1>1, <1>2, <1>3 DEF more, n

-----------------------------------------------------------------------------
(* The invariant.                                                          *)

\* Where brackets are those of headers, what the loop takes for a header is one.
LEMMA CurrentHeader ==
  ASSUME TypeOK, SectionInv, HeadersOnly(template), Reads, Current.section # None
  PROVE  IsHeader(Current)
<1>0. pos \in DOMAIN template /\ pos \in Nat \ {0}
  BY TemplateAssumption DEF TypeOK, Reads
<1>1. CASE prev = <<>>
  BY <1>0, <1>1 DEF HeadersOnly, Current
<1>2. CASE prev # <<>>
  <2>1. prev[1].section = None /\ pos > 1 /\ template[pos - 1].continued
    BY <1>2 DEF SectionInv
  <2>2. template[pos].section = None
    BY <1>0, <2>1 DEF HeadersOnly
  <2>3. Current.section = None
    BY <1>2, <2>1, <2>2 DEF Current, Join
  <2> QED
    BY <2>3
<1> QED
  BY <1>1, <1>2

LEMMA InitCsf == Init => CsfInv
<1> SUFFICES ASSUME Init PROVE CsfInv
  OBVIOUS
<1>1. TypeOK
  BY TemplateAssumption DEF Init, TypeOK
<1>2. SectionInv /\ OutputConfigured
  BY DEF Init, SectionInv, OutputConfigured, InSection
<1> QED
  BY <1>1, <1>2 DEF CsfInv

\* A line is written in the section it is read in, with its key or the one it
\* goes on with.
LEMMA EmitStep ==
  ASSUME CsfInv, Emit, Reads,
         section' \in Name \cup {None}, key' \in Name \cup {None},
         value' \in Seq(Value),
         \/ Current.section # None /\ section' = Current.section /\ key' = None
         \/ /\ Current.section = None /\ section' = section
            /\ \/ Current.key # None /\ key' = Current.key /\ value' = Current.value
               \/ Current.key = None
  PROVE  CsfInv'
<1> DEFINE w == Written(section', key', value', Current)
           n == Len(out)
<1>0. TypeOK /\ SectionInv /\ OutputConfigured /\ Current \in Line
  BY CurrentType DEF CsfInv
<1>1. w \in Line /\ out \in Seq(Line) /\ n \in Nat
  <2>1. w \in Line
    BY <1>0, WrittenType
  <2> QED
    BY <1>0, <2>1 DEF TypeOK
<1>2. out' = out \/ out' = Append(out, w)
  BY DEF Emit
<1>head. HeadersOnly(template) /\ Current.section # None => IsHeader(Current)
                                                  /\ section' = Current.section
  BY <1>0, CurrentHeader
<1>3. TypeOK'
  <2>1. /\ template' = template /\ template \in Template
        /\ pos' = pos + 1 /\ pos \in Nat \ {0} /\ prev' = <<>>
    BY <1>0 DEF Emit, TypeOK
  <2> HIDE DEF w
  <2>2. out' \in Seq(Line)
    BY <1>1, <1>2
  <2>3. template' \in Template /\ pos' \in Nat \ {0}
    BY <2>1
  <2>4. where' \in {"reading", "done", "failed"}
    BY <1>0 DEF TypeOK, Emit
  <2> QED
    BY <2>1, <2>2, <2>3, <2>4 DEF TypeOK
<1>4. w = Current \/ (Current.section = None /\ w.section = None /\ w.key = key')
  <2>1. w = Current \/ (key' \in Known /\ w.section = None /\ w.key = key')
    BY DEF Written, Statement, Known
  <2>2. key' \in Known => Current.section = None
    BY NamesAssumption
  <2> QED
    BY ONLY <2>1, <2>2
<1>same. template' = template /\ prev' = <<>>
  BY DEF Emit
<1>5. CASE Raises(section', key', value')
  <2>1. out' = out /\ section' = section
    BY <1>5, NamesAssumption DEF Emit, Raises, Known
  <2>2. SectionInv'
    BY <1>0, <1>same, <2>1 DEF SectionInv
  <2>3. OutputConfigured'
    BY <1>0, <1>same, <2>1 DEF OutputConfigured
  <2> QED
    BY <1>3, <2>2, <2>3 DEF CsfInv
<1>6. CASE out' = Append(out, w)
  <2> HIDE DEF w, n
  <2> DEFINE more == Append(out, w)
  <2>1. /\ Len(more) = n + 1 /\ more[n + 1] = w
        /\ \A i \in 1 .. n : more[i] = out[i]
        /\ \A i \in 1 .. n : \A s : InSection(more, i, s) <=> InSection(out, i, s)
        /\ \A s : InSection(more, n + 1, s) =>
             \/ IsHeader(w) /\ w.section = s
             \/ ~IsHeader(w) /\ InSection(out, n, s)
    BY <1>1, AppendSection DEF n
  <2>2. ASSUME HeadersOnly(template), NEW s \in Known, InSection(more, n + 1, s)
        PROVE  section' = s
    <3>1. CASE Current.section # None
      BY <1>4, <1>head, <2>1, <2>2, <3>1
    <3>2. CASE Current.section = None
      <4>1. ~IsHeader(w)
        BY <1>4, <3>2 DEF IsHeader
      <4>2. InSection(out, Len(out), s)
        BY <2>1, <2>2, <4>1 DEF n
      <4> QED
        BY <1>0, <2>2, <3>2, <4>2 DEF SectionInv
    <3> QED
      BY <3>1, <3>2
  <2>3. SectionInv'
    BY <1>6, <1>same, <2>1, <2>2 DEF SectionInv
  <2>4. ASSUME HeadersOnly(template), NEW i \in 1 .. n PROVE Fits(more, i)
    <3>0. DOMAIN out = 1 .. n
      BY <1>1 DEF n
    <3>1. Fits(out, i)
      BY <1>0, <2>4, <3>0 DEF OutputConfigured
    <3> QED
      BY <2>1, <3>1 DEF Fits, Answered
  <2>5. ASSUME HeadersOnly(template), NEW k \in Known, Assigns(w, k)
        PROVE  key' = k /\ Current.section = None
    <3>1. CASE Current.section # None
      <4>1. w = Current /\ Current.key = None
        BY <1>4, <1>head, <2>5, <3>1 DEF IsHeader
      <4> QED
        BY <2>5, <4>1, NamesAssumption DEF Assigns
    <3>2. CASE Current.section = None
      BY <1>4, <2>5, <3>2, NamesAssumption DEF Assigns
    <3> QED
      BY <3>1, <3>2
  <2>6. ASSUME HeadersOnly(template) PROVE Fits(more, n + 1)
    <3>1. ASSUME InSection(more, n + 1, "authenticate_data"), Assigns(w, "blocks")
          PROVE  \A j \in DOMAIN w.value : w.value[j].prefixed
      <4>1. section' = "authenticate_data" /\ key' = "blocks"
        BY <2>2, <2>5, <2>6, <3>1 DEF Known
      <4>2. CASE value' # <<>>
        BY <1>0, <4>1, <4>2, WrittenIs DEF w
      <4>3. CASE value' = <<>>
        <5>1. w = Current
          BY <4>1, <4>3 DEF w, Written
        <5>2. Current.key = "blocks" /\ Current.section = None
          BY <2>5, <2>6, <3>1, <5>1 DEF Assigns, Known
        <5>3. w.value = <<>>
          BY <4>3, <5>1, <5>2, NamesAssumption DEF Known
        <5> QED
          BY <5>3
      <4> QED
        BY <4>2, <4>3
    <3>2. ASSUME NEW a \in Answers, InSection(more, n + 1, a[1]), Assigns(w, a[2])
          PROVE  w.value = Says(a[3])
      <4>1. a[1] \in Known /\ a[2] \in Known
        BY DEF Answers, Known
      <4>2. section' = a[1] /\ key' = a[2]
        BY <2>2, <2>5, <2>6, <3>2, <4>1
      <4> QED
        BY <1>0, <4>2, WrittenIs DEF Answers, w
    <3>3. more[n + 1] = w
      BY <2>1
    <3> QED
      BY ONLY <3>1, <3>2, <3>3 DEF Fits, Answered
  <2>7. DOMAIN more = 1 .. n + 1
    BY <1>1, <2>1
  <2>8. HeadersOnly(template) => \A i \in 1 .. n + 1 : Fits(more, i)
    BY <1>1, <2>4, <2>6 DEF n
  <2>9. OutputConfigured'
    BY <1>6, <1>same, <2>7, <2>8 DEF OutputConfigured, Fits, Answered
  <2> QED
    BY <1>3, <2>3, <2>9 DEF CsfInv
<1> QED
  BY <1>5, <1>6 DEF Emit

LEMMA CsfStep == CsfInv /\ [Next]_vars => CsfInv'
<1> SUFFICES ASSUME CsfInv, [Next]_vars PROVE CsfInv'
  OBVIOUS
<1>0. TypeOK
  BY DEF CsfInv
<1>1. CASE Continue
  <2>1. Current \in Line
    BY <1>0, <1>1, CurrentType DEF Continue
  <2>2. TypeOK'
    BY <1>0, <1>1, <2>1 DEF TypeOK, Continue
  <2>3. /\ template' = template /\ section' = section /\ out' = out
        /\ prev' = <<Current>> /\ pos' = pos + 1
        /\ pos \in DOMAIN template /\ pos \in Nat \ {0} /\ template[pos].continued
    BY <1>0, <1>1, TemplateAssumption DEF Continue, Continues, TypeOK
  <2>4. OutputConfigured'
    BY <2>3 DEF CsfInv, OutputConfigured
  <2>5. ASSUME HeadersOnly(template) PROVE Current.section = None
    <3>1. template[pos].section = None
      BY <2>3, <2>5 DEF HeadersOnly
    <3>2. prev # <<>> => prev[1].section = None
      BY <2>5 DEF CsfInv, SectionInv
    <3> QED
      BY <3>1, <3>2 DEF Current, Join
  <2>6. prev'[1] = Current /\ pos' - 1 = pos /\ pos' > 1
    BY <2>3
  <2>7. SectionInv'
    BY <2>3, <2>5, <2>6 DEF CsfInv, SectionInv
  <2> QED
    BY <2>2, <2>4, <2>7 DEF CsfInv
<1>2. CASE ReadHeader \/ ReadStatement \/ ReadBare \/ ReadOther
  <2>1. Current \in Line /\ Reads /\ Emit
    BY <1>0, <1>2, CurrentType DEF ReadHeader, ReadStatement, ReadBare, ReadOther
  <2>2. CASE ReadHeader
    <3>1. /\ Current.section # None /\ section' = Current.section /\ key' = None
          /\ value' = value
      BY <2>2 DEF ReadHeader
    <3>2. section' \in Name \cup {None} /\ value' \in Seq(Value)
      BY <1>0, <2>1, <3>1 DEF TypeOK, Line
    <3> QED
      BY <2>1, <3>1, <3>2, EmitStep
  <2>3. CASE ReadStatement
    <3>1. /\ Current.section = None /\ section' = section /\ Current.key # None
          /\ key' = Current.key /\ value' = Current.value
      BY <2>3 DEF ReadStatement
    <3>2. /\ section' \in Name \cup {None} /\ value' \in Seq(Value)
          /\ key' \in Name \cup {None}
      BY <1>0, <2>1, <3>1 DEF TypeOK, Line
    <3> QED
      BY <2>1, <3>1, <3>2, EmitStep
  <2>4. CASE ReadBare \/ ReadOther
    <3>1. /\ Current.section = None /\ section' = section /\ Current.key = None
          /\ key' \in {key, None} /\ value' = value
      BY <2>4 DEF ReadBare, ReadOther
    <3>2. /\ section' \in Name \cup {None} /\ value' \in Seq(Value)
          /\ key' \in Name \cup {None}
      BY <1>0, <3>1 DEF TypeOK
    <3> QED
      BY <2>1, <3>1, <3>2, EmitStep
  <2> QED
    BY <1>2, <2>2, <2>3, <2>4
<1>3. CASE EndOfFile \/ UNCHANGED vars
  BY <1>3 DEF EndOfFile, vars, CsfInv, TypeOK, SectionInv, OutputConfigured
<1> QED
  BY <1>1, <1>2, <1>3 DEF Next

\* For any template with brackets in headers only, however its other lines are
\* broken and whatever follows what: in what csf_substitute has written so far, as
\* cst reads it, File in Install SRK, Install CSFK and Install Key and Source Index
\* are the configured ones, and every block of Authenticate Data is prefixed.
THEOREM OutputIsConfigured == Spec => []OutputConfigured
<1>1. CsfInv => OutputConfigured
  BY DEF CsfInv
<1> QED
  BY InitCsf, CsfStep, <1>1, PTL DEF Spec

-----------------------------------------------------------------------------
(* The lines of a statement.                                               *)

LEMMA PartOne ==
  ASSUME NEW t \in Seq(Line), NEW i \in DOMAIN t
  PROVE  Part(t, i, i) = t[i]
<1>1. t[i] \in Line /\ i \in Nat
  OBVIOUS
<1> DEFINE ss == [n \in 1 .. i - i + 1 |-> t[i + n - 1].value]
<1>2. ss = [n \in 1 .. 1 |-> t[i + n - 1].value] /\ i + 1 - 1 = i
  BY <1>1
<1>3. Len(ss) = 1 /\ ss[1] = t[i].value
  <2> HIDE DEF ss
  <2> QED
    BY <1>2
<1> HIDE DEF ss
<1>4. FlattenSeq(ss) = t[i].value
  BY <1>3, FlattenOne
<1>5. Part(t, i, i) = [t[i] EXCEPT !.continued = t[i].continued, !.value = t[i].value]
  BY <1>4 DEF Part, ss
<1> QED
  BY <1>1, <1>5 DEF Line

LEMMA PartMore ==
  ASSUME NEW t \in Seq(Line), WellFormed(t), NEW i \in Nat \ {0}, NEW j \in Nat, i <= j,
         \A m \in i .. j : t[m].continued, j + 1 \in DOMAIN t
  PROVE  Join(Part(t, i, j), t[j + 1]) = Part(t, i, j + 1)
<1> DEFINE k == j + 1
           n == k - i
           l == n + 1
           ss == [m \in 1 .. n |-> t[i + m - 1].value]
           tt == [m \in 1 .. l |-> t[i + m - 1].value]
<1>1. /\ n \in Nat \ {0} /\ l \in Nat /\ l = n + 1
      /\ j - i + 1 = n /\ k - i + 1 = l /\ i + l - 1 = k
      /\ k - 1 = j /\ k > 1 /\ i \in i .. j /\ j \in i .. j
      /\ i \in DOMAIN t /\ j \in DOMAIN t /\ k \in DOMAIN t
  OBVIOUS
<1>2. t[i] \in Line /\ t[k] \in Line /\ t[i].continued /\ t[j].continued
  BY <1>1
<1>3. /\ Len(ss) = n /\ Len(tt) = l
      /\ \A m \in 1 .. n : ss[m] = tt[m]
      /\ tt[l] = t[k].value
  BY <1>1
<1> HIDE DEF k, n, l, ss, tt
<1>4. t[i].section = None /\ t[k].section = None /\ t[k].key = None
  BY ONLY <1>1, <1>2, WellFormed(t) DEF WellFormed, HeadersOnly
<1>5. FlattenSeq(tt) = FlattenSeq(ss) \o tt[l]
  BY ONLY <1>1, <1>3, FlattenMore
<1>6. /\ Part(t, i, j).section = None /\ Part(t, i, j).key = t[i].key
      /\ Part(t, i, j).value = FlattenSeq(ss) /\ Part(t, i, j).bare = t[i].bare
  <2>1. Part(t, i, j) = [t[i] EXCEPT !.continued = t[j].continued, !.value = FlattenSeq(ss)]
    BY <1>1 DEF Part, ss
  <2> QED
    BY <1>2, <1>4, <2>1 DEF Line
<1>7. Part(t, i, k) = [section |-> None, key |-> t[i].key, value |-> FlattenSeq(tt),
                       bare |-> t[i].bare, continued |-> t[k].continued]
  <2>1. Part(t, i, k) = [t[i] EXCEPT !.continued = t[k].continued, !.value = FlattenSeq(tt)]
    BY <1>1 DEF Part, tt
  <2> QED
    BY <1>2, <1>4, <2>1 DEF Line
<1>8. Join(Part(t, i, j), t[k]) =
        [section |-> None, key |-> t[i].key, value |-> FlattenSeq(tt),
         bare |-> t[i].bare, continued |-> t[k].continued]
  <2>1. (CASE t[i].key # None -> t[i].key
           [] t[i].key = None /\ t[k].key # None -> Other
           [] OTHER -> None) = t[i].key
    BY <1>4
  <2>2. FlattenSeq(ss) \o t[k].value = FlattenSeq(tt)
    BY <1>3, <1>5
  <2> QED
    BY ONLY <1>4, <1>6, <2>1, <2>2 DEF Join
<1> QED
  BY <1>7, <1>8 DEF k

LEMMA LastIs ==
  ASSUME NEW t \in Seq(Line), NEW i \in Nat, NEW j \in DOMAIN t, i <= j,
         ~t[j].continued, \A m \in i .. j - 1 : t[m].continued
  PROVE  LastOf(t, i) = j
<1> DEFINE P(l) == ~t[l].continued /\ \A m \in i .. l - 1 : t[m].continued
<1>1. j \in i .. Len(t) /\ P(j)
  OBVIOUS
<1>2. ASSUME NEW l \in i .. Len(t), P(l) PROVE l = j
  <2>1. ~(l < j)
    BY <1>2
  <2>2. ~(j < l)
    BY <1>2
  <2> QED
    BY <2>1, <2>2
<1> HIDE DEF P
<1>3. (CHOOSE l \in i .. Len(t) : P(l)) = j
  BY <1>1, <1>2
<1> QED
  BY <1>3 DEF LastOf, P

LEMMA SectionMore ==
  ASSUME NEW t \in Seq(Line), NEW n \in DOMAIN t, NEW s, s # None
  PROVE  InSection(t, n, s) <=>
           \/ IsHeader(t[n]) /\ t[n].section = s
           \/ ~IsHeader(t[n]) /\ InSection(t, n - 1, s)
BY DEF InSection

LEMMA SectionSame ==
  ASSUME NEW t \in Seq(Line), NEW i \in Nat \ {0}, NEW j \in DOMAIN t, i <= j,
         \A m \in i + 1 .. j : ~IsHeader(t[m]), NEW s, s # None
  PROVE  InSection(t, i, s) <=> InSection(t, j, s)
<1>1. ASSUME InSection(t, i, s) PROVE InSection(t, j, s)
  <2>1. PICK h \in 1 .. i : /\ IsHeader(t[h]) /\ t[h].section = s
                            /\ \A m \in h + 1 .. i : ~IsHeader(t[m])
    BY <1>1 DEF InSection
  <2>2. h \in 1 .. j /\ \A m \in h + 1 .. j : m \in h + 1 .. i \/ m \in i + 1 .. j
    OBVIOUS
  <2> QED
    BY <2>1, <2>2 DEF InSection
<1>2. ASSUME InSection(t, j, s) PROVE InSection(t, i, s)
  <2>1. PICK h \in 1 .. j : /\ IsHeader(t[h]) /\ t[h].section = s
                            /\ \A m \in h + 1 .. j : ~IsHeader(t[m])
    BY <1>2 DEF InSection
  <2>2. h \notin i + 1 .. j
    BY <2>1
  <2>3. h \in 1 .. i /\ \A m \in h + 1 .. i : m \in h + 1 .. j
    BY <2>2
  <2> QED
    BY <2>1, <2>3 DEF InSection
<1> QED
  BY <1>1, <1>2

\* What Written answers a line with is what the reference asks for.
LEMMA FilledIs ==
  ASSUME NEW t, NEW i, NEW line \in Line, line = Whole(t, i), ~line.continued,
         line.bare => line.key \notin Known,
         line.section # None => line.key = None,
         NEW sec, \A s \in Name \cup Known : sec = s <=> InSection(t, i, s), NEW v
  PROVE  /\ line.section # None \/ line.key = None =>
              Filled(t, i) = line /\ Written(sec, None, v, line) = line
         /\ line.section = None =>
              Filled(t, i) = Written(sec, line.key, line.value, line)
<1> DEFINE k == line.key
           Calls(a) == InSection(t, i, a[1]) /\ Assigns(line, a[2])
<1>1. \A s \in Known : InSection(t, i, s) <=> sec = s
  OBVIOUS
<1>2. Filled(t, i) =
        IF \E a \in Answers : Calls(a)
        THEN [line EXCEPT !.value = Says((CHOOSE a \in Answers : Calls(a))[3])]
        ELSE IF InSection(t, i, "authenticate_data") /\ Assigns(line, "blocks")
        THEN [line EXCEPT !.value = Prefix(line.value)]
        ELSE line
  BY DEF Filled
<1>keys. \A n \in Known : Assigns(line, n) <=> line.section = None /\ k = n
  BY NamesAssumption DEF Assigns, Line
<1>3. \A a \in Answers : Calls(a) <=> sec = a[1] /\ line.section = None /\ k = a[2]
  <2>1. \A a \in Answers : a[1] \in Known /\ a[2] \in Known
    BY DEF Answers, Known
  <2> QED
    BY <1>1, <1>keys, <2>1
<1>4. InSection(t, i, "authenticate_data") /\ Assigns(line, "blocks")
        <=> sec = "authenticate_data" /\ line.section = None /\ k = "blocks"
  BY <1>1, <1>keys DEF Known
<1> HIDE DEF Calls
<1>5. ASSUME line.section # None \/ line.key = None
      PROVE  Filled(t, i) = line /\ Written(sec, None, v, line) = line
  <2>1. \A a \in Answers : ~Calls(a)
    BY <1>3, <1>5, NamesAssumption DEF Answers, Known
  <2>2. ~(InSection(t, i, "authenticate_data") /\ Assigns(line, "blocks"))
    BY <1>4, <1>5, NamesAssumption DEF Known
  <2>3. Written(sec, None, v, line) = line
    BY NamesAssumption DEF Written, Known
  <2> QED
    BY <1>2, <2>1, <2>2, <2>3
<1>6. ASSUME line.section = None
      PROVE  Filled(t, i) = Written(sec, line.key, line.value, line)
  <2>1. ASSUME k \in Known, NEW u \in Seq(Value)
        PROVE  [line EXCEPT !.value = u] = Statement(k, u)
    <3>1. line.bare = FALSE /\ line.continued = FALSE
      BY <2>1 DEF Line
    <3>2. [line EXCEPT !.value = u] = [section |-> line.section, key |-> line.key,
             value |-> u, bare |-> line.bare, continued |-> line.continued]
      BY DEF Line
    <3> QED
      BY <1>6, <3>1, <3>2 DEF Statement
  <2>2. ASSUME NEW a \in Answers, sec = a[1], k = a[2]
        PROVE  /\ Filled(t, i) = [line EXCEPT !.value = Says(a[3])]
               /\ Written(sec, k, line.value, line) = Statement(k, Says(a[3]))
    <3>1. Calls(a) /\ \A b \in Answers : Calls(b) => b = a
      BY <1>3, <1>6, <2>2 DEF Answers
    <3>2. (CHOOSE b \in Answers : Calls(b)) = a
      BY <3>1
    <3>3. Written(sec, k, line.value, line) = Statement(k, Says(a[3]))
      BY <2>2 DEF Answers, Written
    <3> QED
      BY <1>2, <3>1, <3>2, <3>3
  <2>3. CASE \E a \in Answers : sec = a[1] /\ k = a[2]
    <3>1. PICK a \in Answers : sec = a[1] /\ k = a[2]
      BY <2>3
    <3>2. k \in Known /\ Says(a[3]) \in Seq(Value)
      <4>1. k \in Known /\ a[3] \in Configured
        BY <3>1 DEF Answers, Known, Configured
      <4>2. [text |-> a[3], prefixed |-> FALSE] \in Value
        BY <4>1 DEF Value
      <4> QED
        BY <4>1, <4>2 DEF Says
    <3>3. [line EXCEPT !.value = Says(a[3])] = Statement(k, Says(a[3]))
      BY <2>1, <3>2, Zenon
    <3> QED
      BY <2>2, <3>1, <3>3
  <2>4. CASE sec = "authenticate_data" /\ k = "blocks"
    <3>1. \A a \in Answers : ~Calls(a)
      BY <1>3, <2>4 DEF Answers
    <3>2. Filled(t, i) = Statement(k, Prefix(line.value))
      <4>1. k \in Known /\ Prefix(line.value) \in Seq(Value)
        BY <2>4, PrefixIs DEF Known, Line
      <4>2. [line EXCEPT !.value = Prefix(line.value)] = Statement(k, Prefix(line.value))
        BY <2>1, <4>1, Zenon
      <4> QED
        BY <1>2, <1>4, <1>6, <2>4, <3>1, <4>2
    <3>3. CASE line.value # <<>>
      BY <2>4, <3>2, <3>3 DEF Written
    <3>4. CASE line.value = <<>>
      <4>1. Prefix(line.value) = <<>>
        BY <3>4 DEF Prefix
      <4>2. line = Statement(k, line.value)
        BY <2>1, <2>4 DEF Line, Known
      <4> QED
        BY <2>4, <3>2, <3>4, <4>1, <4>2 DEF Written
    <3> QED
      BY <3>3, <3>4
  <2>5. CASE /\ ~ \E a \in Answers : sec = a[1] /\ k = a[2]
             /\ ~(sec = "authenticate_data" /\ k = "blocks")
    <3>1. Filled(t, i) = line
      BY <1>2, <1>3, <1>4, <2>5
    <3>2. Written(sec, k, line.value, line) = line
      BY <2>5 DEF Answers, Written
    <3> QED
      BY <3>1, <3>2
  <2> QED
    BY <2>3, <2>4, <2>5
<1> QED
  BY <1>5, <1>6

-----------------------------------------------------------------------------
(* How many statements begin before a line.                                *)

LEMMA BeforeIs ==
  ASSUME NEW t \in Seq(Line), NEW i \in Nat
  PROVE  /\ IsFiniteSet({j \in Starts(t) : j < i})
         /\ Cardinality({j \in Starts(t) : j < i}) \in Nat
<1>1. {j \in Starts(t) : j < i} \in SUBSET (1 .. Len(t))
  BY DEF Starts
<1>2. IsFiniteSet(1 .. Len(t))
  BY FS_Interval
<1>3. IsFiniteSet({j \in Starts(t) : j < i})
  BY <1>1, <1>2, FS_Subset
<1> QED
  BY <1>3, FS_CardinalityType

\* A statement of the lines i to j is the next one, and nothing is after it yet.
LEMMA PlaceIs ==
  ASSUME NEW t \in Seq(Line), NEW i \in Starts(t), NEW j \in DOMAIN t, i <= j,
         \A m \in i .. j - 1 : t[m].continued
  PROVE  LET before == Cardinality({l \in Starts(t) : l < i}) IN
         /\ Place(t, i) = before + 1
         /\ Cardinality({l \in Starts(t) : l < j + 1}) = before + 1
         /\ \A l \in Starts(t) : l < i => Place(t, l) \in 1 .. before
         /\ \A l \in Starts(t) : l < j + 1 => l < i \/ l = i
<1> DEFINE B == {l \in Starts(t) : l < i}
<1>1. IsFiniteSet(B) /\ Cardinality(B) \in Nat /\ i \in Nat /\ j \in Nat /\ i \notin B
  BY BeforeIs DEF Starts
<1>2. \A l \in Starts(t) : l < j + 1 => l < i \/ l = i
  <2>1. ASSUME NEW l \in Starts(t), l < j + 1, i < l PROVE FALSE
    <3>1. l \in Nat /\ l # 1 /\ ~t[l - 1].continued /\ l - 1 \in i .. j - 1
      BY <1>1, <2>1 DEF Starts
    <3> QED
      BY <3>1
  <2>2. \A l \in Starts(t) : l \in Nat
    BY DEF Starts
  <2> QED
    BY <1>1, <2>1, <2>2
<1>3. {l \in Starts(t) : l < j + 1} = B \cup {i}
  BY <1>1, <1>2 DEF Starts
<1>4. {l \in Starts(t) : l <= i} = B \cup {i}
  BY <1>1 DEF Starts
<1>5. Cardinality(B \cup {i}) = Cardinality(B) + 1
  BY <1>1, FS_AddElement
<1>6. ASSUME NEW l \in Starts(t), l < i PROVE Place(t, l) \in 1 .. Cardinality(B)
  <2> DEFINE A == {m \in Starts(t) : m <= l}
  <2>1. A \in SUBSET B /\ l \in A
    BY <1>1, <1>6 DEF Starts
  <2> HIDE DEF A, B
  <2>2. IsFiniteSet(A) /\ Cardinality(A) <= Cardinality(B) /\ Cardinality(A) \in Nat
    BY <1>1, <2>1, FS_Subset, FS_CardinalityType
  <2>3. Cardinality(A) # 0
    BY <2>1, <2>2, FS_EmptySet
  <2>4. Place(t, l) = Cardinality(A)
    BY DEF Place, A
  <2> QED
    BY <1>1, <2>2, <2>3, <2>4
<1> QED
  BY <1>2, <1>3, <1>4, <1>5, <1>6 DEF Place

-----------------------------------------------------------------------------
(* The loop on a well-formed template.                                     *)

LEMMA TemplateIs ==
  ASSUME TypeOK
  PROVE  /\ template \in Seq(Line)
         /\ \A i \in DOMAIN template : template[i].bare => template[i].key \notin Known
BY TemplateAssumption DEF TypeOK

\* The line that the loop is at is the last so far of a statement's.
LEMMA CurrentIs ==
  ASSUME TypeOK, ReadInv, WellFormed(template), where = "reading", pos <= Len(template)
  PROVE  \E i \in Starts(template) :
           /\ i <= pos /\ \A m \in i .. pos - 1 : template[m].continued
           /\ Current = Part(template, i, pos)
           /\ Settled(i)
<1>0. template \in Seq(Line) /\ pos \in DOMAIN template /\ pos \in Nat \ {0}
  BY TemplateIs DEF TypeOK
<1>1. CASE prev = <<>> /\ Settled(pos) /\ (pos > 1 => ~template[pos - 1].continued)
  <2>1. pos \in Starts(template)
    BY <1>0, <1>1 DEF Starts
  <2>2. Current = Part(template, pos, pos)
    BY <1>0, <1>1, PartOne DEF Current
  <2> QED
    BY <1>0, <1>1, <2>1, <2>2
<1>2. CASE \E i \in Starts(template) : Pending(i) /\ Settled(i)
  <2>1. PICK i \in Starts(template) : Pending(i) /\ Settled(i)
    BY <1>2
  <2>2. i \in Nat \ {0} /\ i <= pos - 1 /\ pos - 1 \in Nat /\ (pos - 1) + 1 = pos
    BY <1>0, <2>1 DEF Pending, Starts
  <2>3. \A m \in i .. pos - 1 : template[m].continued
    BY <2>1 DEF Pending
  <2>4. Join(Part(template, i, pos - 1), template[pos]) = Part(template, i, pos)
    BY ONLY <1>0, <2>2, <2>3, WellFormed(template), PartMore
  <2>5. Current = Join(Part(template, i, pos - 1), template[pos])
    BY <2>1 DEF Pending, Current
  <2> QED
    BY <2>1, <2>2, <2>3, <2>4, <2>5
<1> QED
  BY <1>1, <1>2 DEF ReadInv

LEMMA StatementIs ==
  ASSUME TypeOK, ReadInv, WellFormed(template), Reads
  PROVE  \E i \in Starts(template) :
           /\ i <= pos /\ \A m \in i .. pos - 1 : template[m].continued
           /\ \A m \in i + 1 .. pos : template[m].section = None
           /\ Current = Whole(template, i) /\ Settled(i)
           /\ ~Current.continued /\ Current.section = template[pos].section
           /\ Current.section = template[i].section /\ Current.key = template[i].key
           /\ Current.bare = template[i].bare
           /\ Current.section # None => Current.key = None
<1>0. template \in Seq(Line) /\ pos \in DOMAIN template /\ ~template[pos].continued
  BY TemplateIs DEF TypeOK, Reads
<1>1. PICK i \in Starts(template) :
           /\ i <= pos /\ \A m \in i .. pos - 1 : template[m].continued
           /\ Current = Part(template, i, pos)
           /\ Settled(i)
  BY CurrentIs DEF Reads
<1>2. i \in DOMAIN template /\ i \in Nat \ {0} /\ template[i] \in Line
  BY <1>0 DEF Starts
<1>3. \A m \in i + 1 .. pos : template[m].section = None
  <2>1. ASSUME NEW m \in i + 1 .. pos PROVE template[m].section = None
    <3>1. m - 1 \in i .. pos - 1 /\ m \in DOMAIN template /\ m > 1
      BY <1>0, <1>2
    <3> QED
      BY <1>1, <3>1 DEF WellFormed
  <2> QED
    BY <2>1
<1>4. Current = Whole(template, i)
  BY <1>0, <1>1, <1>2, LastIs DEF Whole
<1>5. /\ Current.continued = template[pos].continued
      /\ Current.section = template[i].section /\ Current.key = template[i].key
      /\ Current.bare = template[i].bare
  BY <1>1, <1>2 DEF Part, Line
<1>6. template[i].section = template[pos].section
  <2>1. CASE i = pos
    BY <2>1
  <2>2. CASE i < pos
    <3>1. template[i].continued /\ pos \in i + 1 .. pos
      BY <1>0, <1>1, <1>2, <2>2
    <3> QED
      BY <1>2, <1>3, <3>1 DEF WellFormed, HeadersOnly
  <2> QED
    BY <1>0, <1>1, <1>2, <2>1, <2>2
<1>7. Current.section # None => Current.key = None
  BY <1>2, <1>5 DEF WellFormed, HeadersOnly, IsHeader
<1> QED
  BY <1>0, <1>1, <1>3, <1>4, <1>5, <1>6, <1>7

LEMMA InitRead == Init => ReadInv
<1> SUFFICES ASSUME Init, WellFormed(template)
             PROVE  /\ pos <= Len(template) + 1
                    /\ \A s \in Name \cup Known :
                         section = s <=> InSection(template, pos - 1, s)
                    /\ prev = <<>> /\ Settled(pos) /\ ~(pos > 1)
                    /\ where = "reading"
  BY DEF Init, ReadInv
<1>1. template \in Seq(Line)
  BY TemplateAssumption DEF Init
<1>2. \A s \in Name \cup Known : section = s <=> InSection(template, pos - 1, s)
  BY NamesAssumption DEF Init, InSection
<1>3. {j \in Starts(template) : j < 1} = {}
  BY <1>1 DEF Starts
<1>4. Settled(pos)
  BY <1>1, <1>3, FS_EmptySet DEF Init, Settled, Starts
<1> QED
  BY <1>1, <1>2, <1>4 DEF Init

LEMMA ContinueRead ==
  ASSUME TypeOK, ReadInv, WellFormed(template), Continue
  PROVE  ReadInv'
<1>0. /\ template \in Seq(Line) /\ pos \in DOMAIN template /\ pos \in Nat \ {0}
      /\ template[pos].continued /\ template[pos].section = None
      /\ where = "reading" /\ template' = template /\ pos' = pos + 1
      /\ prev' = <<Current>> /\ section' = section /\ out' = out /\ where' = where
  BY TemplateIs DEF TypeOK, Continue, Continues, WellFormed, HeadersOnly
<1>1. PICK i \in Starts(template) :
           /\ i <= pos /\ \A m \in i .. pos - 1 : template[m].continued
           /\ Current = Part(template, i, pos)
           /\ Settled(i)
  BY <1>0, CurrentIs
<1>2. i \in Nat \ {0} /\ i < pos' /\ pos' - 1 = pos /\ pos' <= Len(template) + 1
  BY <1>0, <1>1 DEF Starts
<1>3. \A m \in i .. pos : template[m].continued
  BY <1>0, <1>1, <1>2
<1>4. Pending(i)' /\ Settled(i)'
  BY <1>0, <1>1, <1>2, <1>3 DEF Pending, Settled
<1>5. \A s \in Name \cup Known : section = s <=> InSection(template, pos, s)
  <2>1. \A s \in Name \cup Known : s # None
    BY NamesAssumption
  <2>2. \A s \in Name \cup Known : section = s <=> InSection(template, pos - 1, s)
    BY <1>0 DEF ReadInv
  <2>3. ~IsHeader(template[pos])
    BY <1>0 DEF IsHeader
  <2> QED
    BY <1>0, <2>1, <2>2, <2>3, SectionMore
<1> QED
  BY <1>0, <1>2, <1>4, <1>5 DEF ReadInv

LEMMA EmitRead ==
  ASSUME TypeOK, ReadInv, WellFormed(template), Reads, Emit,
         \/ Current.section # None /\ section' = Current.section /\ key' = None
         \/ /\ Current.section = None /\ section' = section
            /\ \/ Current.key # None /\ key' = Current.key /\ value' = Current.value
               \/ Current.key = None /\ key' = None
  PROVE  ReadInv'
<1> DEFINE w == Written(section', key', value', Current)
<1>0. /\ template \in Seq(Line) /\ pos \in DOMAIN template /\ pos \in Nat \ {0}
      /\ ~template[pos].continued /\ Current \in Line /\ out \in Seq(Line)
      /\ where = "reading" /\ template' = template /\ pos' = pos + 1 /\ prev' = <<>>
  BY TemplateIs, CurrentType DEF TypeOK, Reads, Emit
<1>1. PICK i \in Starts(template) :
           /\ i <= pos /\ \A m \in i .. pos - 1 : template[m].continued
           /\ \A m \in i + 1 .. pos : template[m].section = None
           /\ Current = Whole(template, i) /\ Settled(i)
           /\ ~Current.continued /\ Current.section = template[pos].section
           /\ Current.section = template[i].section /\ Current.key = template[i].key
           /\ Current.bare = template[i].bare
           /\ Current.section # None => Current.key = None
  BY StatementIs
<1>2. i \in DOMAIN template /\ i \in Nat \ {0} /\ pos' - 1 = pos
      /\ pos' <= Len(template) + 1
  BY <1>0 DEF Starts
<1>3. \A s \in Name \cup Known : s # None
  BY NamesAssumption
<1>4. \A s \in Name \cup Known : section' = s <=> InSection(template, pos, s)
  <2>1. \A s \in Name \cup Known : section = s <=> InSection(template, pos - 1, s)
    BY <1>0 DEF ReadInv
  <2>2. section' = IF template[pos].section # None THEN template[pos].section
                                                   ELSE section
    BY <1>1
  <2>3. IsHeader(template[pos]) <=> template[pos].section # None
    BY <1>0 DEF WellFormed, HeadersOnly, IsHeader
  <2> QED
    BY <1>0, <1>3, <2>1, <2>2, <2>3, SectionMore
<1>5. \A s \in Name \cup Known : section' = s <=> InSection(template, i, s)
  <2>1. \A m \in i + 1 .. pos : ~IsHeader(template[m])
    BY <1>1 DEF IsHeader
  <2> QED
    BY <1>0, <1>1, <1>2, <1>3, <1>4, <2>1, SectionSame
<1>6. w = Filled(template, i)
  <2>1. Current.bare => Current.key \notin Known
    BY <1>1, <1>2, TemplateIs
  <2>2. /\ Current.section # None \/ Current.key = None =>
             Filled(template, i) = Current
             /\ Written(section', None, value', Current) = Current
        /\ Current.section = None =>
             Filled(template, i) = Written(section', Current.key, Current.value, Current)
    <3>1. /\ Current \in Line /\ Current = Whole(template, i) /\ ~Current.continued
          /\ Current.section # None => Current.key = None
      BY <1>0, <1>1
    <3> QED
      BY ONLY <1>5, <2>1, <3>1, FilledIs
  <2> QED
    BY <2>2
<1>7. Raises(section', key', value') <=> Unprefixable(template, i)
  <2>1. InSection(template, i, "authenticate_data") <=> section' = "authenticate_data"
    BY <1>5 DEF Known
  <2>2. "blocks" # None
    BY <1>3 DEF Known
  <2>3. Assigns(template[i], "blocks") <=>
          key' = "blocks" /\ Current.section = None /\ value' = Current.value
    <3>1. Current.key = "blocks" => Current.section = None /\ ~template[i].bare
      BY <1>1, <1>2, <2>2, TemplateIs DEF Known
    <3> QED
      BY <1>1, <2>2, <3>1 DEF Assigns
  <2>4. key' = "blocks" => Current.section = None /\ value' = Current.value
    BY <2>2
  <2> QED
    BY <1>1, <2>1, <2>3, <2>4 DEF Raises, Unprefixable
<1> HIDE DEF w
<1>8. CASE Raises(section', key', value')
  <2>1. where' = "failed"
    BY <1>8 DEF Emit
  <2> QED
    BY <1>0, <1>1, <1>7, <1>8, <2>1 DEF ReadInv
<1>9. CASE ~Raises(section', key', value')
  <2>1. out' = Append(out, w) /\ where' = "reading"
    BY <1>0, <1>9 DEF Emit, w
  <2> DEFINE before == Cardinality({l \in Starts(template) : l < i})
  <2>2. /\ Place(template, i) = before + 1
        /\ Cardinality({l \in Starts(template) : l < pos + 1}) = before + 1
        /\ \A l \in Starts(template) : l < i => Place(template, l) \in 1 .. before
        /\ \A l \in Starts(template) : l < pos + 1 => l < i \/ l = i
    BY <1>0, <1>1, PlaceIs
  <2>3. /\ Len(out) = before
        /\ \A l \in Starts(template) : l < i =>
             /\ out[Place(template, l)] = Filled(template, l)
             /\ ~Unprefixable(template, l)
    BY <1>1 DEF Settled
  <2>4. w \in Line
    <3>1. \A s \in Name \cup {None} : \A k \in Name \cup {None} : \A v \in Seq(Value) :
            Written(s, k, v, Current) \in Line
      BY <1>0, WrittenType
    <3>2. section' \in Name \cup {None} /\ key' \in Name \cup {None}
      BY <1>0 DEF TypeOK, Line
    <3>3. value' \in Seq(Value) \/ key' = None
      BY <1>0 DEF Line
    <3>4. Written(section', None, value', Current) = Current
      BY NamesAssumption DEF Written, Known
    <3> QED
      BY <1>0, <3>1, <3>2, <3>3, <3>4 DEF w
  <2> HIDE DEF before
  <2>5. /\ Len(out') = before + 1 /\ out'[before + 1] = w
        /\ \A n \in 1 .. before : out'[n] = out[n]
    BY <1>0, <2>1, <2>3, <2>4
  <2>6. Settled(pos)'
    <3>1. \A l \in Starts(template) : l < pos + 1 =>
             /\ out'[Place(template, l)] = Filled(template, l)
             /\ ~Unprefixable(template, l)
      BY <1>6, <1>7, <1>9, <2>2, <2>3, <2>5
    <3> QED
      BY <1>0, <2>2, <2>5, <3>1 DEF Settled
  <2> QED
    BY <1>0, <1>2, <1>4, <2>1, <2>6 DEF ReadInv, Pending
<1> QED
  BY <1>8, <1>9

LEMMA ReadStep == TypeOK /\ ReadInv /\ [Next]_vars => ReadInv'
<1> SUFFICES ASSUME TypeOK, ReadInv, [Next]_vars PROVE ReadInv'
  OBVIOUS
<1>1. template' = template
  BY DEF Next, Continue, ReadHeader, ReadStatement, ReadBare, ReadOther, EndOfFile,
         Emit, vars
<1>2. CASE ~WellFormed(template)
  BY <1>1, <1>2 DEF ReadInv
<1>3. CASE WellFormed(template)
  <2>1. CASE Continue
    BY <1>3, <2>1, ContinueRead
  <2>2. CASE ReadHeader
    BY <1>3, <2>2, EmitRead DEF ReadHeader
  <2>3. CASE ReadStatement
    BY <1>3, <2>3, EmitRead DEF ReadStatement
  <2>4. CASE ReadBare
    BY <1>3, <2>4, EmitRead DEF ReadBare
  <2>5. ASSUME ReadOther PROVE FALSE
    <3>1. PICK i \in Starts(template) :
             /\ Current.section = template[i].section /\ Current.key = template[i].key
             /\ Current.bare = template[i].bare
      BY <1>3, <2>5, StatementIs DEF ReadOther
    <3> QED
      BY <1>3, <2>5, <3>1 DEF ReadOther, WellFormed, Starts
  <2>6. CASE EndOfFile
    <3>1. /\ where = "reading" /\ where' = "done" /\ pos > Len(template)
          /\ UNCHANGED <<template, pos, prev, section, out>>
      BY <2>6 DEF EndOfFile
    <3> QED
      BY <3>1 DEF ReadInv, Settled, Pending
  <2>7. CASE UNCHANGED vars
    BY <2>7 DEF vars, ReadInv, Settled, Pending
  <2> QED
    BY <2>1, <2>2, <2>3, <2>4, <2>5, <2>6, <2>7 DEF Next
<1> QED
  BY <1>2, <1>3

\* For a template of any length whose continued lines are statements: what
\* csf_substitute leaves at its end has the template's statements, as many and
\* in their order, each joined from its lines and with the value that its
\* section and key call for; and the job fails just where a block has no file
\* below the prefix.
THEOREM SubstitutesAll == Spec => []Substituted
<1>1. ASSUME TypeOK, ReadInv, WellFormed(template) PROVE Substituted
  <2>0. /\ template \in Seq(Line) /\ pos \in Nat
        /\ where \in {"reading", "done", "failed"}
    BY <1>1, TemplateIs DEF TypeOK
  <2>1. ASSUME where = "done"
        PROVE  /\ Len(out) = Cardinality(Starts(template))
               /\ \A i \in Starts(template) : /\ out[Place(template, i)] = Filled(template, i)
                                              /\ ~Unprefixable(template, i)
    <3>1. pos > Len(template) /\ \A i \in Starts(template) : i < pos /\ i \in DOMAIN template
      BY <1>1, <2>0, <2>1 DEF ReadInv, Starts
    <3>2. ~ \E i \in Starts(template) : Pending(i)
      <4>1. ASSUME NEW i \in Starts(template), Pending(i) PROVE FALSE
        <5>1. pos - 1 \in i .. pos - 1 /\ pos - 1 \in DOMAIN template
              /\ pos \notin DOMAIN template
          BY <1>1, <2>0, <2>1, <3>1, <4>1 DEF Pending, ReadInv
        <5> QED
          BY <1>1, <2>0, <4>1, <5>1 DEF Pending, WellFormed
      <4> QED
        BY <4>1
    <3>3. Settled(pos)
      BY <1>1, <2>1, <3>2 DEF ReadInv
    <3>4. {j \in Starts(template) : j < pos} = Starts(template)
      BY <3>1
    <3> QED
      BY <3>1, <3>3, <3>4 DEF Settled
  <2> QED
    BY <1>1, <2>0, <2>1 DEF Substituted, ReadInv
<1>2. TypeOK /\ ReadInv => Substituted
  BY <1>1 DEF Substituted
<1>3. CsfInv => TypeOK
  BY DEF CsfInv
<1> QED
  BY InitCsf, CsfStep, InitRead, ReadStep, <1>2, <1>3, PTL DEF Spec
=============================================================================
