-------------------------- MODULE MCSequentialParts --------------------------
(***************************************************************************)
(* The inputs of the sequential parts: documents of up to two items or     *)
(* sections, whose words have the lengths 1, 2 and 4 at a limit of 3;      *)
(* rankings of four chunks; an index of three chunks and two terms; three *)
(* calls of tools of every kind.                                           *)
(***************************************************************************)
EXTENDS SequentialParts

CONSTANTS c1, c2, c3, c4, ta, tb, i1, i2, i3

\* The texts, as the lengths of their words: none; words that fit together or
\* not; a word longer than the limit alone, first, between others and last.
MCLengths ==
  { <<>>, <<1>>, <<1, 1>>, <<2, 1>>, <<1, 1, 1>>, <<2, 2>>, <<4>>, <<4, 1>>,
    <<1, 4, 1>>, <<1, 1, 4>>, <<2, 1, 2, 1>> }

Words(source, lengths) ==
  [w \in DOMAIN lengths |-> [source |-> source, at |-> w, length |-> lengths[w]]]

\* Item i of a document is on page i + 1.
MCItems(i) ==
  {[label |-> label, words |-> Words(i, lengths), page |-> i + 1, image |-> FALSE] :
     label \in {"text", "table"}, lengths \in MCLengths}
  \cup
  {[label |-> "picture", words |-> <<>>, page |-> i + 1, image |-> image] : image \in BOOLEAN}

MCSections == {<<Words(1, a), Words(2, b)>> : a, b \in MCLengths}

TextDocument(sections) ==
  [type |-> "text/markdown", readable |-> TRUE, items |-> <<>>, sections |-> sections]

Pdf(items, sections) ==
  [type |-> "application/pdf", readable |-> TRUE, items |-> items, sections |-> sections]

\* The Markdown a PDF exports when its items hold nothing of use.
Export == <<Words(1, <<2, 1>>), Words(2, <<>>), Words(3, <<1, 1>>)>>

MCDocuments ==
  {TextDocument(s) : s \in MCSections}
  \cup {Pdf(<<a, b>>, Export) : a \in MCItems(1), b \in MCItems(2)}
  \cup {Pdf(<<>>, Export),
        [Pdf(<<>>, Export) EXCEPT !.readable = FALSE],
        [TextDocument(<<>>) EXCEPT !.readable = FALSE],
        [TextDocument(<<>>) EXCEPT !.type = "image/png"]}

\* The words of length 1 and of length 4 hash to one id. Nothing is claimed of
\* the sparse vector of a text that has both.
MCBucket == (1 :> 7) @@ (2 :> 3) @@ (4 :> 7)

MCTenantOf == (c1 :> ta) @@ (c2 :> ta) @@ (c3 :> tb)
==============================================================================
