-------------------------------- MODULE Csf --------------------------------
(***************************************************************************)
(* Hab4Sign.csf_substitute: a template of the command sequence file that   *)
(* NXP's cst signs is copied line by line, and what the template leaves    *)
(* open is filled in: the SRK table and index, the URIs of the CSF and the *)
(* image key, and the directory of the files to authenticate.              *)
(*                                                                         *)
(* A line is what the two patterns of the code find in it: the section     *)
(* between brackets, wherever they are in the line, the key before an      *)
(* equals sign, and the values after it, blocks being separated by commas. *)
(* A backslash at its end continues it.  Names are compared without case,  *)
(* and written here with underscores for their blanks.  What cst reads in  *)
(* a line is another matter (IsHeader, Assigns): brackets in a comment or  *)
(* in a value make no header.                                              *)
(***************************************************************************)
EXTENDS Naturals, Sequences, FiniteSets, SequencesExt

CONSTANTS
  Template,    \* the templates: sequences of lines
  Name,        \* the names of sections and keys
  None,        \* no such name
  Other,       \* a name that is none of those the code looks for
  Text,        \* what a template's values say: words and blocks
  Absolute     \* the blocks of four words, the last an absolute path

Configured == {"table", "index", "csf_uri", "img_uri"}

Value == [text : Text \cup Configured, prefixed : BOOLEAN]

\* bare: it is blank or starts as a comment.  A blank line is not continued.
Line == [section : Name \cup {None}, key : Name \cup {None}, value : Seq(Value),
         bare : BOOLEAN, continued : BOOLEAN]

\* The sections and keys that the code looks for.
Known == {"install_srk", "install_csfk", "install_key", "authenticate_data",
          "file", "source_index", "blocks"}

ASSUME NamesAssumption == None \notin Name \cup Known /\ Other \in Name \ Known
\* The key of a comment, if it has one, begins with the comment's sign.
ASSUME TemplateAssumption ==
  \A t \in Template :
    /\ t \in Seq(Line)
    /\ \A i \in DOMAIN t : t[i].bare => t[i].key \notin Known
    /\ \A i \in DOMAIN t : \A j \in DOMAIN t[i].value : ~t[i].value[j].prefixed

VARIABLES
  template, pos,         \* the input, and the line that is read next
  prev,                  \* what continued lines have brought: at most one line
  section, key, value,   \* of the statement the loop is at
  out,                   \* the lines written
  where                  \* "reading", "done" or "failed"

vars == <<template, pos, prev, section, key, value, out, where>>

Init ==
  /\ template \in Template /\ pos = 1
  /\ prev = <<>> /\ out = <<>>
  /\ section = None /\ key = None /\ value = <<>>
  /\ where = "reading"

\* One line of two: what is found first counts, and a key that only the second
\* has gets the whole of the first into its name.
Join(a, b) ==
  [section |-> IF a.section # None THEN a.section ELSE b.section,
   key |-> CASE a.key # None -> a.key
             [] a.key = None /\ b.key # None -> Other
             [] OTHER -> None,
   value |-> a.value \o b.value, bare |-> a.bare, continued |-> b.continued]

Continues == where = "reading" /\ pos <= Len(template) /\ template[pos].continued
Reads == where = "reading" /\ pos <= Len(template) /\ ~template[pos].continued

\* The line that is read, with those it continues.
Current == IF prev = <<>> THEN template[pos] ELSE Join(prev[1], template[pos])

-----------------------------------------------------------------------------
(* What is written for a line, given the section and key it belongs to.    *)

Says(text) == <<[text |-> text, prefixed |-> FALSE]>>

Statement(k, v) ==
  [section |-> None, key |-> k, value |-> v, bare |-> FALSE, continued |-> FALSE]

PrefixFirst(blocks) ==       \* fault: the other blocks stay as they are
  [blocks EXCEPT ![1].prefixed = TRUE]

\* Each block's file is looked for below auth_data_prefix.
Prefix(blocks) == [i \in DOMAIN blocks |-> [blocks[i] EXCEPT !.prefixed = TRUE]]

Written(s, k, v, line) ==
  CASE s = "install_srk" /\ k = "file" -> Statement(k, Says("table"))
    [] s = "install_srk" /\ k = "source_index" -> Statement(k, Says("index"))
    [] s = "install_csfk" /\ k = "file" -> Statement(k, Says("csf_uri"))
    [] s = "install_key" /\ k = "file" -> Statement(k, Says("img_uri"))
    [] s = "authenticate_data" /\ k = "blocks" /\ v # <<>> -> Statement(k, Prefix(v))
    [] OTHER -> line

\* A block of less than four words has no file; relative_to("/") raises an error.
Raises(s, k, v) ==
  /\ s = "authenticate_data" /\ k = "blocks"
  /\ \E i \in DOMAIN v : v[i].text \notin Absolute

\* The rest of the loop, once it knows where it is.
Emit ==
  /\ pos' = pos + 1 /\ prev' = <<>>
  /\ IF Raises(section', key', value')
     THEN where' = "failed" /\ UNCHANGED out
     ELSE /\ out' = Append(out, Written(section', key', value', Current))
          /\ UNCHANGED where
  /\ UNCHANGED template

-----------------------------------------------------------------------------
(* The loop.                                                               *)

Continue ==
  /\ Continues
  /\ prev' = <<Current>> /\ pos' = pos + 1
  /\ UNCHANGED <<template, section, key, value, out, where>>

ReadHeader ==
  /\ Reads /\ Current.section # None
  /\ section' = Current.section /\ key' = None /\ UNCHANGED value
  /\ Emit

ReadStatement ==
  /\ Reads /\ Current.section = None /\ Current.key # None
  /\ key' = Current.key /\ value' = Current.value /\ UNCHANGED section
  /\ Emit

KeepKey ==                   \* fault: a comment does not end a statement
  /\ Reads /\ Current.section = None /\ Current.key = None /\ Current.bare
  /\ UNCHANGED <<section, key, value>>
  /\ Emit

ReadBare ==
  /\ Reads /\ Current.section = None /\ Current.key = None /\ Current.bare
  /\ key' = None /\ UNCHANGED <<section, value>>
  /\ Emit

\* Anything else is taken for more of the statement before, which is written again.
ReadOther ==
  /\ Reads /\ Current.section = None /\ Current.key = None /\ ~Current.bare
  /\ UNCHANGED <<section, key, value>>
  /\ Emit

\* What a backslash at the end of the file continues is dropped.
EndOfFile ==
  /\ where = "reading" /\ pos > Len(template)
  /\ where' = "done"
  /\ UNCHANGED <<template, pos, prev, section, key, value, out>>

Next == \/ Continue \/ ReadHeader \/ ReadStatement \/ ReadBare \/ ReadOther
        \/ EndOfFile

Spec == Init /\ [][Next]_vars

-----------------------------------------------------------------------------
(* What the substitution must guarantee.                                   *)

\* What cst takes for a header and for a statement: it skips comments, and the
\* brackets in a statement are its value's.
IsHeader(line) == ~line.bare /\ line.section # None /\ line.key = None
Assigns(line, k) == ~line.bare /\ line.key = k

\* For cst line i is in section s: the last header up to it is s's.
InSection(lines, i, s) ==
  \E h \in 1 .. i : /\ IsHeader(lines[h]) /\ lines[h].section = s
                    /\ \A j \in h + 1 .. i : ~IsHeader(lines[j])

\* What is configured: by section and key, the value.
Answers == {<<"install_srk", "file", "table">>, <<"install_srk", "source_index", "index">>,
            <<"install_csfk", "file", "csf_uri">>, <<"install_key", "file", "img_uri">>}

\* Line i has the value that its section and key call for.
Answered(lines, i, a) ==
  InSection(lines, i, a[1]) /\ Assigns(lines[i], a[2]) => lines[i].value = Says(a[3])
Fits(lines, i) ==
  /\ \A a \in Answers : Answered(lines, i, a)
  /\ InSection(lines, i, "authenticate_data") /\ Assigns(lines[i], "blocks") =>
       \A j \in DOMAIN lines[i].value : lines[i].value[j].prefixed

\* The brackets of a template are those of its headers, each a line of its own.
HeadersOnly(t) ==
  \A i \in DOMAIN t : t[i].section # None =>
    /\ IsHeader(t[i]) /\ ~t[i].continued
    /\ i > 1 => ~t[i - 1].continued

\* What csf_substitute hands to cst, as cst reads it, has no certificate of the
\* template in Install SRK, Install CSFK and Install Key, no SRK index of it, and
\* in Authenticate Data no block of a file that is not below the prefix.  It holds
\* of templates with brackets in headers only, whatever else is in them; the File
\* of any other section is copied as it is.
OutputConfigured == HeadersOnly(template) => \A i \in DOMAIN out : Fits(out, i)

\* What the docstring of sign() says of every template: File is set in the sections
\* Install SRK, Install CSFK and Install Key.
FileSet == \A i \in DOMAIN out :
             \A a \in Answers : a[2] = "file" => Answered(out, i, a)

\* A template with brackets in headers only, whose continued lines are statements
\* and go on with values only.
WellFormed(t) ==
  /\ HeadersOnly(t)
  /\ \A i \in DOMAIN t :
       /\ t[i].continued => i + 1 \in DOMAIN t
       /\ (t[i].section = None /\ t[i].key = None /\ ~t[i].bare)
            <=> (i > 1 /\ t[i - 1].continued)

\* The reference: the statements of a template, each on a line of its own, ...
Starts(t) == {i \in DOMAIN t : i = 1 \/ ~t[i - 1].continued}
LastOf(t, i) == CHOOSE j \in i .. Len(t) :
                  ~t[j].continued /\ \A m \in i .. j - 1 : t[m].continued
Part(t, i, j) == [t[i] EXCEPT
  !.continued = t[j].continued,
  !.value = FlattenSeq([n \in 1 .. j - i + 1 |-> t[i + n - 1].value])]
Whole(t, i) == Part(t, i, LastOf(t, i))

\* ... and what should be written in the place of each.
Filled(t, i) ==
  LET line == Whole(t, i) IN
  IF \E a \in Answers : InSection(t, i, a[1]) /\ Assigns(line, a[2])
  THEN [line EXCEPT !.value = Says((CHOOSE a \in Answers :
          InSection(t, i, a[1]) /\ Assigns(line, a[2]))[3])]
  ELSE IF InSection(t, i, "authenticate_data") /\ Assigns(line, "blocks")
  THEN [line EXCEPT !.value = Prefix(line.value)]
  ELSE line

Unprefixable(t, i) ==
  /\ InSection(t, i, "authenticate_data") /\ Assigns(t[i], "blocks")
  /\ \E n \in DOMAIN Whole(t, i).value : Whole(t, i).value[n].text \notin Absolute

\* The statement that begins on line i is the how manieth?
Place(t, i) == Cardinality({j \in Starts(t) : j <= i})

\* A well-formed template comes out with the same statements in the same order,
\* each with what its section and key call for, whether it was continued or not,
\* or the job fails because a block has no file below the prefix.
Substituted ==
  WellFormed(template) =>
    /\ where = "done" =>
         /\ Len(out) = Cardinality(Starts(template))
         /\ \A i \in Starts(template) : out[Place(template, i)] = Filled(template, i)
    /\ where = "failed" <=>
         where # "reading" /\ \E i \in Starts(template) : Unprefixable(template, i)

-----------------------------------------------------------------------------
(* Why the first holds: the inductive invariant.                           *)

TypeOK ==
  /\ template \in Template /\ pos \in Nat \ {0}
  /\ prev = <<>> \/ (Len(prev) = 1 /\ prev[1] \in Line /\ prev \in Seq(Line))
  /\ out \in Seq(Line)
  /\ section \in Name \cup {None} /\ key \in Name \cup {None}
  /\ value \in Seq(Value) /\ where \in {"reading", "done", "failed"}

\* The loop is in the section that cst finds the lines written in, and no header
\* is joined to another line.
SectionInv ==
  HeadersOnly(template) =>
    /\ \A s \in Known : InSection(out, Len(out), s) => section = s
    /\ prev # <<>> => prev[1].section = None /\ pos > 1 /\ template[pos - 1].continued

CsfInv == TypeOK /\ SectionInv /\ OutputConfigured

\* The statements that begin before line i are written, and none stopped the job.
Settled(i) ==
  /\ Len(out) = Cardinality({j \in Starts(template) : j < i})
  /\ \A j \in Starts(template) : j < i =>
       /\ out[Place(template, j)] = Filled(template, j)
       /\ ~Unprefixable(template, j)

\* prev has the lines of the statement that the loop is in, from its first.
Pending(i) ==
  /\ i < pos /\ \A m \in i .. pos - 1 : template[m].continued
  /\ prev = <<Part(template, i, pos - 1)>>

ReadInv ==
  WellFormed(template) =>
    /\ where # "failed" =>
         /\ pos <= Len(template) + 1
         /\ \A s \in Name \cup Known : section = s <=> InSection(template, pos - 1, s)
         /\ \/ /\ prev = <<>> /\ Settled(pos)
               /\ pos > 1 => ~template[pos - 1].continued
            \/ \E i \in Starts(template) : Pending(i) /\ Settled(i)
    /\ where = "done" => pos > Len(template)
    /\ where = "failed" => \E i \in Starts(template) : Unprefixable(template, i)
=============================================================================
