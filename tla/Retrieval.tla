----------------------------- MODULE Retrieval -----------------------------
(***************************************************************************)
(* The search for memory notes: by words, by vectors, and the fusion of    *)
(* both rankings that a run is given.  Pure operators on a table of notes. *)
(*                                                                         *)
(* Abstracted: of the words and the vectors, how well a note matches them. *)
(* A note has an id, a session, whether it is confirmed, and two grades:   *)
(* `words` (0: no match) and `near` (0: no vector, below: a vector that    *)
(* points away from the query, above: a similar one); greater is better,   *)
(* and grades of different notes differ, as bm25 ranks and distances do.   *)
(* Embeddings are normalised (embedding.ts:36), so that the distance of    *)
(* the index and the cosine of the comparison order notes alike.  Left     *)
(* out: layers, which filter like the session, and embeddings written      *)
(* while the index could not be created, which it does not hold.           *)
(***************************************************************************)
EXTENDS Integers, Sequences, SequencesExt, FiniteSetsExt

NoteRow(id, session, confirmed, words, near) ==
  [id |-> id, session |-> session, confirmed |-> confirmed, words |-> words, near |-> near]

(* WHERE m.session_id = ... AND m.confirmed_at IS NOT NULL. *)
Visible(table, session) == {n \in table : n.session = session /\ n.confirmed}

Best(limit, s) == SubSeq(s, 1, IF limit < Len(s) THEN limit ELSE Len(s))

ByWords(S) == SetToSortSeq(S, LAMBDA a, b : a.words > b.words)

Nearest(S) == SetToSortSeq(S, LAMBDA a, b : a.near > b.near)

SearchLexical(table, session, limit) ==
  Best(limit, ByWords({n \in Visible(table, session) : n.words > 0}))

(* Without sqlite-vec: every embedding of the session is compared, and only a similar
   one counts. *)
SearchVector(table, session, limit) ==
  Best(limit, Nearest({n \in Visible(table, session) : n.near > 0}))

(* With it: the nearest vectors, similar or not; `k` is the limit, and counts the
   neighbours before the join looks at whose they are. *)
SearchSqliteVec(table, session, limit) ==
  LET neighbours == ToSet(Best(limit, Nearest({n \in table : n.near # 0})))
  IN Best(limit, Nearest(Visible(neighbours, session)))

-----------------------------------------------------------------------------
(* Reciprocal rank fusion. *)

K == 60

Misparsed(rank, limit) == 1 + K * rank

(* 1 / (K + rank), in integers. *)
Share(rank, limit) == FoldSet(LAMBDA r, p : r * p, 1, (K + 1)..(K + limit)) \div (K + rank)

Rank(n, s) == CHOOSE i \in DOMAIN s : s[i] = n

ShareIn(n, s, limit) == IF n \in ToSet(s) THEN Share(Rank(n, s), limit) ELSE 0

(* scoresById: a note that both found has the sum. *)
Score(n, lexical, vector, limit) == ShareIn(n, lexical, limit) + ShareIn(n, vector, limit)

(* 1 / (1 + distance) or the cosine: positive for every note that a search returned. *)
VectorScore(n) == n.near + K

(* Ties go to the better vector, then to the order of insertion, words first. *)
ReciprocalRankFuse(lexical, vector, limit) ==
  LET score(n) == Score(n, lexical, vector, limit)
      vectorScore(n) == IF n \in ToSet(vector) THEN VectorScore(n) ELSE 0
      place(n) == IF n \in ToSet(lexical) THEN Rank(n, lexical)
                  ELSE Len(lexical) + Rank(n, vector)
      before(a, b) ==
        \/ score(a) > score(b)
        \/ score(a) = score(b) /\ vectorScore(a) > vectorScore(b)
        \/ score(a) = score(b) /\ vectorScore(a) = vectorScore(b) /\ place(a) < place(b)
  IN Best(limit, SetToSortSeq(ToSet(lexical) \cup ToSet(vector), before))

(* searchMemory: without an embedding of the query, the words alone. *)
RetrieveMemory(table, session, limit, index, embedded) ==
  LET lexical == SearchLexical(table, session, limit)
      vector == IF index THEN SearchSqliteVec(table, session, limit)
                ELSE SearchVector(table, session, limit)
  IN IF embedded THEN ReciprocalRankFuse(lexical, vector, limit) ELSE lexical

-----------------------------------------------------------------------------
(* The inputs: three notes, each visible to the session, another session's or not
   confirmed, every pair of rankings, and limits up to the number of notes. *)
Rankings(grades) ==
  {g \in [1..3 -> grades] : \A i, j \in 1..3 : i # j /\ g[i] = g[j] => g[i] = 0}

Tables ==
  {{NoteRow(i, whose[i][1], whose[i][2], words[i], near[i]) : i \in 1..3} :
     whose \in [1..3 -> {<<"own", TRUE>>, <<"own", FALSE>>, <<"other", TRUE>>}],
     words \in Rankings(0..3), near \in Rankings(-2..3)}

Limits == 1..3

(* Retrieval never prefers a note to one that both searches place at least as early,
   whether by the order or by the limit, and returns no note twice. *)
FusionKeepsOrder ==
  \A table \in Tables, limit \in Limits, index \in BOOLEAN :
    LET found == RetrieveMemory(table, "own", limit, index, TRUE)
        lexical == SearchLexical(table, "own", limit)
        vector == IF index THEN SearchSqliteVec(table, "own", limit)
                  ELSE SearchVector(table, "own", limit)
        place(n, s) == IF n \in ToSet(s) THEN Rank(n, s) ELSE limit + 1
    IN /\ IsInjective(found) /\ Len(found) <= limit
       /\ \A a, b \in ToSet(lexical) \cup ToSet(vector) :
            /\ place(a, lexical) <= place(b, lexical) /\ place(a, vector) <= place(b, vector)
            /\ a # b
            => place(a, found) <= place(b, found)

(* Of the similar notes, the index finds a beginning of what the comparison of every
   vector finds.  When no other session and no unconfirmed note has a vector it finds all
   of them, and dissimilar ones only after them. *)
IndexAgrees ==
  \A table \in Tables, limit \in Limits :
    LET indexed == SearchSqliteVec(table, "own", limit)
        compared == SearchVector(table, "own", limit)
        similar == SelectSeq(indexed, LAMBDA n : n.near > 0)
    IN /\ IsPrefix(similar, compared)
       /\ {n \in table : n.near # 0} \subseteq Visible(table, "own")
          => similar = compared /\ IsPrefix(compared, indexed)
=============================================================================
