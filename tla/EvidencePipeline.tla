-------------------------- MODULE EvidencePipeline --------------------------
(***************************************************************************)
(* From the bytes of a document to the points of the vector index, as one  *)
(* undisturbed pass of the ingestion tasks computes it: parse into blocks, *)
(* cut into chunks, read these back, embed them in batches, count tokens,  *)
(* build points. Ingestion has the effects and the interleavings of these  *)
(* steps; this module has what they compute, and the answers the table and *)
(* the embedding API may give.                                             *)
(*                                                                         *)
(* A word is its length and the place it comes from; a text is the         *)
(* sequence of its words. The vector of a text is the text. Words of one   *)
(* length stand for one token, and Bucket is the hash that gives its id.   *)
(***************************************************************************)
EXTENDS Lists, SequencesExt

CONSTANTS
  Documents,       \* the documents that may be parsed
  MaxCharacters,   \* ChunkingService._max_characters
  BatchSize,       \* OpenAICompatibleEmbeddingProvider.batch_size
  Bucket,          \* SparseVectorizer._token_id, of a word's length
  Indices,         \* the labels an item of the embedding API's answer may have
  MaxListed        \* bound: the chunks of a document that is read back

VARIABLES
  stage,      \* what the pass does next, or how it ended
  document,   \* the document in work
  chunks,     \* its chunks, as they were cut
  listed,     \* its chunks, as they were read back from their table
  dense,      \* the dense vectors received so far
  points,     \* the points given to upsert
  conforming  \* auxiliary: no accepted answer of the embedding API was odd

pipelineVars == <<stage, document, chunks, listed, dense, points, conforming>>

(***************************************************************************)
(* A document: its type; whether its bytes can be decoded or converted;    *)
(* the items Docling finds in it, a picture without text but perhaps with  *)
(* an image; the sections between its blank lines (of the text, or of the  *)
(* Markdown Docling exports).                                              *)
(***************************************************************************)
Labels == {"text", "table", "picture"}

NoDocument == [type |-> "none", readable |-> FALSE, items |-> <<>>, sections |-> <<>>]

PlainTextTypes == {"text/plain", "text/markdown"}
DoclingTypes == {"application/pdf"}

\* A word knows its item or section, its place there and its length.
Word == [source : Nat, at : Nat, length : Nat]
Item == [label : Labels, words : Seq(Word), page : Nat, image : BOOLEAN]
Document == [type : STRING, readable : BOOLEAN, items : Seq(Item), sections : Seq(Seq(Word))]

\* Every word of these texts names the text it is in.
NameTheirSource(texts) == \A i \in DOMAIN texts : \A w \in DOMAIN texts[i] : texts[i][w].source = i

ASSUME PipelineAssumption ==
  /\ MaxCharacters \in Nat \ {0}
  /\ BatchSize \in Nat \ {0}
  /\ Indices \subseteq Nat
  /\ MaxListed \in Nat
  /\ Documents \subseteq Document
  /\ \A d \in Documents :
       /\ \A i \in DOMAIN d.items :
            /\ d.items[i].label = "picture" => d.items[i].words = <<>>
            /\ d.items[i].image => d.items[i].label = "picture"
       /\ NameTheirSource([i \in DOMAIN d.items |-> d.items[i].words])
       /\ NameTheirSource(d.sections)
  /\ \A d \in Documents :
       \A text \in ToSet(d.sections) \cup {d.items[i].words : i \in DOMAIN d.items} :
         \A w \in DOMAIN text : Bucket[text[w].length] \in Nat /\ text[w].length \in DOMAIN Bucket

(***************************************************************************)
(* Parsers                                                                 *)
(***************************************************************************)
Block(words, modality, page) == [words |-> words, modality |-> modality, page |-> page]

\* PlainTextParser.parse and _markdown_to_blocks: one block for each section
\* that is not blank, all on page 1.
SectionBlocks(sections) ==
  Kept([i \in DOMAIN sections |-> Block(sections[i], "text", 1)],
       {i \in DOMAIN sections : sections[i] # <<>>})

\* _items_to_document: tables and texts that are not blank, in order, each on
\* its own page. Pictures and charts never become blocks.
ItemBlocks(items) ==
  Kept([i \in DOMAIN items |-> Block(items[i].words, items[i].label, items[i].page)],
       {i \in DOMAIN items : items[i].label # "picture" /\ items[i].words # <<>>})

HasAsset(items) == \E i \in DOMAIN items : items[i].label = "picture" /\ items[i].image

\* DoclingParser.parse: without any item of use, the exported Markdown.
DoclingBlocks(d) ==
  IF ItemBlocks(d.items) # <<>> \/ HasAsset(d.items)
  THEN ItemBlocks(d.items) ELSE SectionBlocks(d.sections)

\* ParserRegistry.get and the parser it selects, when they do not raise.
Parsable(d) == d.readable /\ d.type \in PlainTextTypes \cup DoclingTypes

BlocksOf(d) ==
  IF d.type \in PlainTextTypes THEN SectionBlocks(d.sections) ELSE DoclingBlocks(d)

(***************************************************************************)
(* ChunkingService                                                         *)
(***************************************************************************)
\* Mutant of Pack: the space between two words is not counted.
PackWithoutSpace(packed, word) ==
  IF packed.current # <<>> /\ packed.length + word.length > MaxCharacters
  THEN [pieces |-> Append(packed.pieces, packed.current),
        current |-> <<word>>, length |-> word.length]
  ELSE [packed EXCEPT !.current = Append(@, word), !.length = @ + word.length]

\* _chunk_block: a word joins the current piece if it fits, or if it is the
\* first of it.
Pack(packed, word) ==
  LET separator == IF packed.current = <<>> THEN 0 ELSE 1 IN
  IF packed.current # <<>> /\ packed.length + separator + word.length > MaxCharacters
  THEN [pieces |-> Append(packed.pieces, packed.current),
        current |-> <<word>>, length |-> word.length]
  ELSE [packed EXCEPT !.current = Append(@, word),
                      !.length = @ + separator + word.length]

PackedTo(words) ==
  LET packed[i \in 0..Len(words)] ==
        IF i = 0 THEN [pieces |-> <<>>, current |-> <<>>, length |-> 0]
        ELSE Pack(packed[i - 1], words[i])
  IN packed

ChunkBlock(b) ==
  LET packed == PackedTo(b.words)[Len(b.words)]
      pieces == IF packed.current = <<>> THEN packed.pieces
                ELSE Append(packed.pieces, packed.current)
  IN [i \in DOMAIN pieces |-> [b EXCEPT !.words = pieces[i]]]

ChunkBlocks(blocks) == Joined([i \in DOMAIN blocks |-> ChunkBlock(blocks[i])])

(***************************************************************************)
(* The embedding API. It answers with a list of items: as many as there    *)
(* are texts, or another number (here one less); each with a vector of one *)
(* of the texts, of the right dimension or not; and with any label or      *)
(* none. The call may also fail altogether.                                *)
(***************************************************************************)
NoIndex == -1

AnswerItem(texts) ==
  [index : Indices \cup {NoIndex}, vector : ToSet(texts), valid : BOOLEAN]

Answers(texts) == UNION {[1..n -> AnswerItem(texts)] : n \in {Len(texts) - 1, Len(texts)}}

\* What the API promises: one item for each text, labelled with the place of
\* its text and in any order; or without labels, in the order of the texts.
Labelled(answer, texts) ==
  /\ IsInjective([i \in DOMAIN answer |-> answer[i].index])
  /\ \A i \in DOMAIN answer :
       /\ answer[i].index \in 0..(Len(texts) - 1)
       /\ answer[i].vector = texts[answer[i].index + 1]

Unlabelled(answer, texts) ==
  \A i \in DOMAIN answer : answer[i].index = NoIndex /\ answer[i].vector = texts[i]

Conforms(answer, texts) ==
  Len(answer) = Len(texts) /\ (Labelled(answer, texts) \/ Unlabelled(answer, texts))

\* _parse_response looks at the count and at each vector, never at whether the
\* labels are those of the texts: an answer with a label twice is accepted.
Acceptable(answer, count) ==
  /\ Len(answer) = count
  /\ \A i \in DOMAIN answer : answer[i].valid

\* Mutant of ParseResponse: the vectors in the order of the answer.
ParseResponseUnordered(answer) == [i \in DOMAIN answer |-> answer[i].vector]

ParseResponse(answer) ==
  LET key == [i \in DOMAIN answer |->
                IF answer[i].index = NoIndex THEN 0 ELSE answer[i].index]
      ordered == SortedBy(answer, key)
  IN [i \in DOMAIN ordered |-> ordered[i].vector]

(***************************************************************************)
(* SparseVectorizer._transform_one: how often each token occurs, in order  *)
(* of the tokens' ids. Tokens with one id keep an entry each.              *)
(***************************************************************************)
Occurrences(words, length) == Cardinality({i \in DOMAIN words : words[i].length = length})

FirstOfToken(words) ==
  {i \in DOMAIN words : \A j \in 1..(i - 1) : words[j].length # words[i].length}

SparseVector(words) ==
  LET first == Kept([i \in DOMAIN words |-> i], FirstOfToken(words))
      counts == [i \in DOMAIN first |->
                   [id |-> Bucket[words[first[i]].length],
                    count |-> Occurrences(words, words[first[i]].length)]]
  IN SortedBy(counts, [i \in DOMAIN counts |-> counts[i].id])

(***************************************************************************)
(* The pass                                                                *)
(***************************************************************************)
PipelineInit ==
  /\ stage = "idle"
  /\ document = NoDocument
  /\ chunks = <<>>
  /\ listed = <<>>
  /\ dense = <<>>
  /\ points = <<>>
  /\ conforming = TRUE

\* _parse_and_persist_document, up to the chunks it persists.
ParseAndChunk(d) ==
  /\ stage = "idle"
  /\ document' = d
  /\ IF Parsable(d)
     THEN stage' = "list" /\ chunks' = ChunkBlocks(BlocksOf(d))
     ELSE stage' = "failed" /\ UNCHANGED chunks
  /\ UNCHANGED <<listed, dense, points, conforming>>

\* list_for_document: ordered by created_at and then by the random chunk_id.
\* Chunks made within one tick of the clock change places in any way, and all
\* of them may be.
ListChunks ==
  /\ stage = "list"
  /\ Len(chunks) <= MaxListed
  /\ \E place \in Bijection(DOMAIN chunks, DOMAIN chunks) :
       listed' = [i \in DOMAIN chunks |-> chunks[place[i]]]
  /\ stage' = "embed"
  /\ UNCHANGED <<document, chunks, dense, points, conforming>>

Texts == [i \in DOMAIN listed |-> listed[i].words]

Batch == SubSeq(Texts, Len(dense) + 1, Min({Len(dense) + BatchSize, Len(listed)}))

\* OpenAICompatibleEmbeddingProvider.embed: one request of its loop.
EmbedBatch ==
  /\ stage = "embed"
  /\ Len(dense) < Len(listed)
  /\ \E answer \in Answers(Batch) :
       IF Acceptable(answer, Len(Batch))
       THEN /\ dense' = dense \o ParseResponse(answer)
            /\ conforming' = (conforming /\ Conforms(answer, Batch))
            /\ UNCHANGED stage
       ELSE stage' = "failed" /\ dense' = <<>> /\ UNCHANGED conforming
  /\ UNCHANGED <<document, chunks, listed, points>>

EmbedFails ==
  /\ stage = "embed"
  /\ Len(dense) < Len(listed)
  /\ stage' = "failed"
  /\ dense' = <<>>
  /\ UNCHANGED <<document, chunks, listed, points, conforming>>

\* _embed_and_index after the last batch, and upsert_chunks.
BuildPoints ==
  /\ stage = "embed"
  /\ Len(dense) = Len(listed)
  /\ points' = [i \in DOMAIN listed |->
                  [chunk |-> listed[i], dense |-> dense[i],
                   sparse |-> SparseVector(listed[i].words)]]
  /\ stage' = "indexed"
  /\ UNCHANGED <<document, chunks, listed, dense, conforming>>

PipelineNext ==
  \/ \E d \in Documents : ParseAndChunk(d)
  \/ ListChunks
  \/ EmbedBatch
  \/ EmbedFails
  \/ BuildPoints

(***************************************************************************)
(* Properties                                                              *)
(***************************************************************************)
\* The texts a search should find, in reading order and with the page each of
\* them is on: the definition the parsers are compared with.
Readable(d) ==
  IF d.type \in DoclingTypes
     /\ \E i \in DOMAIN d.items : d.items[i].words # <<>> \/ d.items[i].image
  THEN d.items ELSE [i \in DOMAIN d.sections |-> [words |-> d.sections[i], page |-> 1]]

TextLength(words) == Total([w \in DOMAIN words |-> words[w].length]) + Len(words) - 1

CoversInOrder ==
  LET source == Readable(document) IN
  /\ Joined([c \in DOMAIN chunks |-> chunks[c].words]) =
       Joined([i \in DOMAIN source |-> source[i].words])
  /\ \A c \in DOMAIN chunks :
       \E i \in DOMAIN source :
         /\ source[i].page = chunks[c].page
         /\ ToSet(chunks[c].words) \subseteq ToSet(source[i].words)

FitsAndIsFilled ==
  /\ \A c \in DOMAIN chunks :
       TextLength(chunks[c].words) <= MaxCharacters \/ Len(chunks[c].words) = 1
  /\ \A c \in 1..(Len(chunks) - 1) :
       \/ chunks[c].words[1].source # chunks[c + 1].words[1].source
       \/ TextLength(Append(chunks[c].words, chunks[c + 1].words[1])) > MaxCharacters

\* The chunks of a document hold all of its words, in order, each with the page
\* it is on; they are within the limit but for a word that is longer by itself,
\* and none could have taken one more word of its block (parser.py,
\* docling_parser.py, chunking.py).
ChunksCoverDocument ==
  stage \in {"list", "embed", "indexed"} => CoversInOrder /\ FitsAndIsFilled

\* The tokens of a text have an id each.
HasNoCollision(words) ==
  \A v, w \in DOMAIN words :
    Bucket[words[v].length] = Bucket[words[w].length] => words[v].length = words[w].length

\* How many words of a text hash to each of its ids.
Weights(words) ==
  {[id |-> id, count |-> Cardinality({w \in DOMAIN words : Bucket[words[w].length] = id})] :
     id \in {Bucket[words[w].length] : w \in DOMAIN words}}

Weighs(sparse, words) ==
  /\ ToSet(sparse) = Weights(words)
  /\ \A i, j \in DOMAIN sparse : i < j => sparse[i].id < sparse[j].id

\* In whatever order the table lists the chunks and however their texts fall
\* into batches, every chunk has one point; it has the dense vector of its own
\* text, if the API has kept its promise; and if no two tokens of the text
\* collide, its sparse vector weighs each id once, in order, with the tokens the
\* text has of it (chunk_repository.py list_for_document, embedding.py,
\* sparse_vector.py, qdrant_index.py upsert_chunks). Neither condition is
\* checked by the code: see the README for what happens without them.
PointsCarryTheirText ==
  stage = "indexed" =>
    /\ Len(points) = Len(chunks)
    /\ {points[i].chunk : i \in DOMAIN points} = ToSet(chunks)
    /\ \A i \in DOMAIN points :
         LET words == points[i].chunk.words IN
         /\ conforming => points[i].dense = words
         /\ HasNoCollision(words) => Weighs(points[i].sparse, words)
==============================================================================
