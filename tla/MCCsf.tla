------------------------------- MODULE MCCsf -------------------------------
(***************************************************************************)
(* Instances of Csf for TLC.                                               *)
(***************************************************************************)
EXTENDS Csf

MCName == {"install_srk", "install_csfk", "install_key", "authenticate_data",
           "unlock", "file", "source_index", "blocks", "engine"}
MCOther == "engine"
MCText == {"word", "a", "b", "relative"}
MCAbsolute == {"a", "b"}

Header(s) == [section |-> s, key |-> None, value |-> <<>>, bare |-> FALSE,
              continued |-> FALSE]
InBrackets(line, s) == [line EXCEPT !.section = s]
Remark == [section |-> None, key |-> None, value |-> <<>>, bare |-> TRUE,
           continued |-> FALSE]
Of(texts) == [i \in DOMAIN texts |-> [text |-> texts[i], prefixed |-> FALSE]]
More(texts) == Statement(None, Of(texts))
On(line) == [line EXCEPT !.continued = TRUE]
Own(k) == Statement(k, Says("word"))

Lines ==
  {Header(s) : s \in {"install_srk", "install_csfk", "install_key",
                      "authenticate_data", "unlock"}}
  \cup {Own("file"), Own("source_index"), Own("engine"), Remark}
  \cup {Statement("blocks", Of(<<"a">>)), On(Statement("blocks", Of(<<"a">>))),
        On(Statement("file", <<>>)), On(Remark)}
  \cup {More(<<"b">>), On(More(<<"b">>)), More(<<"relative">>)}
  \* `# see [Install Key]', and a file with brackets in its name.
  \cup {InBrackets(Remark, "install_key"), InBrackets(Own("file"), "unlock")}

\* src/test/signables/hab4/minimal_hab4_csf.txt, with its Blocks continued.
Sample ==
  << Header("unlock"), Own("engine"), Remark, Header("install_srk"), Own("file"),
     Own("source_index"), Remark, Header("install_csfk"), Own("file"), Remark,
     Header("unlock"), Own("engine"), Remark, Header("install_key"), Own("engine"),
     Own("file"), Remark, Header("authenticate_data"), Remark, Remark,
     Own("engine"), On(Statement("blocks", Of(<<"a">>))), On(More(<<"b">>)),
     More(<<"a">>) >>

\* All templates of up to four lines: a header, and a statement on three lines.
MCTemplate == {Sample} \cup UNION {[1 .. n -> Lines] : n \in 0 .. 4}
=============================================================================
