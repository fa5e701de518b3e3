------------------------ MODULE TagAppendBenchProofs ------------------------
(***************************************************************************)
(* macsec_tag_append releases every frame whole and with its own tag, for  *)
(* every depth of the capture FIFO, payloads of any length it holds, any   *)
(* number of frames, tags at any time and a sink that may be busy in any   *)
(* cycle.                                                                  *)
(***************************************************************************)
EXTENDS TagAppendBench, SequenceTheorems, TLAPS

(***************************************************************************)
(* The words of a frame                                                    *)
(***************************************************************************)
(* The i-th of n payload beats of frame k, the last of l bytes. *)
BeatAt(k, n, l, i) ==
    [frame |-> k, pos |-> i, keep |-> IF i = n THEN l ELSE 8, last |-> i = n]

(* The first words of a frame are its payload's beats ... *)
LEMMA PayloadWords ==
    ASSUME NEW k \in Nat \ {0}, NEW n \in Nat \ {0}, NEW l \in 1..8, NEW m \in Metas,
           NEW i \in 1..n
    PROVE  LET w == FrameWords(k, n, l, m)[i]
           IN  w = PayloadWord(BeatAt(k, n, l, i), m) /\ w \in Words /\ w # NoWord /\ ~w.last
<1> DEFINE b == BeatAt(k, n, l, i)
           w == FrameWords(k, n, l, m)[i]
           a == IF i = n THEN 8 - l ELSE 0
           c == IF i = n THEN l ELSE 8
           t == IF i = n THEN m ELSE NoMeta
<1>1. w = [frame |-> k, pos |-> i, keep |-> c, from |-> 0, auth |-> a, meta |-> t, last |-> FALSE]
  <2>1. i \in 1..(n + 3) /\ i <= n  OBVIOUS
  <2>2. QED  BY <2>1 DEF FrameWords
<1>2. PayloadWord(b, m) = [NoWord EXCEPT !.frame = k, !.pos = i, !.keep = c, !.auth = a, !.meta = t]
  <2>1. b.frame = k /\ b.pos = i /\ b.keep = c /\ b.last = (i = n)  BY DEF BeatAt
  <2>2. PayloadWord(b, m) = [NoWord EXCEPT !.frame = b.frame, !.pos = b.pos, !.keep = b.keep,
                                           !.auth = IF b.last THEN 8 - b.keep ELSE 0,
                                           !.meta = IF b.last THEN m ELSE NoMeta]
    BY Zenon DEF PayloadWord, KEEP_WIDTH
  <2>3. (IF b.last THEN 8 - b.keep ELSE 0) = a /\ (IF b.last THEN m ELSE NoMeta) = t
    BY <2>1
  <2> HIDE DEF b, c, a, t
  <2>4. QED  BY <2>1, <2>2, <2>3, Zenon
<1>3. c \in 0..8 /\ a \in 0..8 /\ t \in Metas  BY DEF NoMeta, Metas
<1>4. k \in Nat /\ i \in Nat /\ k # 0  OBVIOUS
<1> HIDE DEF b, w, a, c, t
<1>5. w = PayloadWord(b, m)  BY <1>1, <1>2 DEF NoWord
<1>6. w \in Words  BY <1>1, <1>3, <1>4 DEF Words
<1>7. w.frame # NoWord.frame  BY <1>1, <1>4 DEF NoWord
<1>8. ~w.last  BY <1>1
<1>9. QED  BY <1>5, <1>6, <1>7, <1>8 DEF b, w

(* ... and the other three the trailer, from where the last beat ended.    *)
LEMMA TrailerWords ==
    ASSUME NEW k \in Nat \ {0}, NEW n \in Nat \ {0}, NEW l \in 1..8, NEW m \in Metas,
           NEW j \in 0..2
    PROVE  LET w    == FrameWords(k, n, l, m)[n + 1 + j]
               from == (8 - l) + 8 * j
           IN  /\ w = AuthWord(from, m) /\ w \in Words /\ w # NoWord /\ from \in 0..23
               /\ w.last = (j = 2) /\ (24 - from <= 8 <=> j = 2)
<1> DEFINE i == n + 1 + j
           from == (8 - l) + 8 * j
           w == FrameWords(k, n, l, m)[i]
           a == IF i = n + 3 THEN l ELSE 8
           e == i = n + 3
           d == 24 - from <= 8
<1>1. i \in 1..(n + 3) /\ ~(i <= n) /\ (8 - l) + 8 * (i - (n + 1)) = from
  OBVIOUS
<1>2. w = [frame |-> 0, pos |-> 0, keep |-> 0, from |-> from, auth |-> a, meta |-> m, last |-> e]
  <2>1. w = [frame |-> 0, pos |-> 0, keep |-> 0, from |-> (8 - l) + 8 * (i - (n + 1)),
             auth |-> a, meta |-> m, last |-> e]
    BY <1>1, Zenon DEF FrameWords
  <2>2. QED  BY <1>1, <2>1, Zenon
<1>3. AuthWord(from, m) = [NoWord EXCEPT !.from = from, !.auth = IF 24 - from < 8 THEN 24 - from ELSE 8,
                                         !.meta = m, !.last = d]
  BY Zenon DEF AuthWord, KEEP_WIDTH, AUTH_BYTES
<1>4. /\ from \in 0..23 /\ (24 - from <= 8 <=> j = 2) /\ a \in 1..8
      /\ (IF 24 - from < 8 THEN 24 - from ELSE 8) = a
  <2>1. CASE j = 0  BY <2>1
  <2>2. CASE j = 1  BY <2>2
  <2>3. CASE j = 2  BY <2>3
  <2>4. QED  BY <2>1, <2>2, <2>3
<1>5. d = e /\ e = (j = 2)
  <2>1. e <=> j = 2  OBVIOUS
  <2>2. d <=> j = 2  BY <1>4
  <2>3. QED  BY <2>1, <2>2
<1>6. AuthWord(from, m) = [NoWord EXCEPT !.from = from, !.auth = a, !.meta = m, !.last = e]
  BY <1>3, <1>4, <1>5, Zenon
<1>7. e \in BOOLEAN  OBVIOUS
<1> HIDE DEF i, from, w, a, e, d
<1>8. w = AuthWord(from, m)  BY <1>2, <1>6 DEF NoWord
<1>9. w \in Words  BY <1>2, <1>4, <1>7 DEF Words
<1>10. w.auth # NoWord.auth  BY <1>2, <1>4 DEF NoWord
<1>11. w.last = (j = 2)
  <2>1. w.last = e  BY <1>2
  <2>2. QED  BY <1>5, <2>1, Zenon
<1>12. QED  BY <1>4, <1>8, <1>9, <1>10, <1>11 DEF i, from, w

LEMMA WordTypes ==
    ASSUME NEW k \in Nat \ {0}, NEW n \in Nat \ {0}, NEW l \in 1..8, NEW m \in Metas
    PROVE  /\ FrameWords(k, n, l, m) \in Seq(Words)
           /\ Len(FrameWords(k, n, l, m)) = n + 3
<1> DEFINE s == FrameWords(k, n, l, m)
<1>1. ASSUME NEW i \in 1..(n + 3) PROVE s[i] \in Words
  <2>1. CASE i <= n
    <3>1. i \in 1..n  BY <2>1
    <3>2. QED  BY <3>1, PayloadWords
  <2>2. CASE i > n
    <3>1. PICK j \in 0..2 : i = n + 1 + j
      <4>1. i - (n + 1) \in 0..2  BY <2>2
      <4>2. QED  BY <4>1
    <3>2. QED  BY <3>1, TrailerWords
  <2>3. QED  BY <2>1, <2>2
<1>2. DOMAIN s = 1..(n + 3)  BY DEF FrameWords
<1>3. s = [i \in 1..(n + 3) |-> s[i]]  BY <1>2 DEF FrameWords
<1> HIDE DEF s
<1>4. n + 3 \in Nat  OBVIOUS
<1>5. s \in [1..(n + 3) -> Words]  BY <1>1, <1>3
<1>6. s \in Seq(Words) /\ Len(s) = n + 3
  <2>1. s \in Seq(Words)  BY <1>4, <1>5, SeqDef
  <2>2. Len(s) \in Nat /\ DOMAIN s = 1..Len(s)  BY <2>1, LenProperties
  <2>3. QED  BY <1>2, <1>4, <2>1, <2>2
<1>7. QED  BY <1>6 DEF s

LEMMA Longer ==
    ASSUME NEW S, NEW s \in Seq(S), NEW r \in Nat, r < Len(s)
    PROVE  /\ Append(SubSeq(s, 1, r), s[r + 1]) = SubSeq(s, 1, r + 1)
           /\ SubSeq(s, 1, r) \in Seq(S) /\ Len(SubSeq(s, 1, r)) = r
<1>1. Len(s) \in Nat /\ \A i \in 1..Len(s) : s[i] \in S  BY LenProperties, ElementOfSeq
<1>2. r + 1 \in 1..Len(s) /\ 1 \in 1..Len(s)  BY <1>1
<1>3. SubSeq(s, 1, r) \in Seq(S) /\ Len(SubSeq(s, 1, r)) = r
  <2>1. \A i \in 1..r : s[i] \in S  BY <1>1
  <2>2. QED  BY <2>1, SubSeqProperties
<1>4. SubSeq(s, 1, r + 1) = SubSeq(s, 1, r) \o <<s[r + 1]>>
  <2>1. r + 1 \in 1..Len(s) /\ (r + 1) - 1 = r  BY <1>2
  <2>2. SubSeq(s, 1, r + 1) = SubSeq(s, 1, (r + 1) - 1) \o <<s[r + 1]>>
    BY <1>2, SubSeqRecursiveSecond
  <2>3. QED  BY <2>1, <2>2
<1>5. s[r + 1] \in S  BY <1>1, <1>2
<1>6. Append(SubSeq(s, 1, r), s[r + 1]) = SubSeq(s, 1, r) \o <<s[r + 1]>>
  BY <1>3, <1>5, AppendIsConcat
<1>7. QED  BY <1>3, <1>4, <1>6

(***************************************************************************)
(* The frame in hand                                                       *)
(***************************************************************************)
LEMMA FrameInHand ==
    ASSUME TypeOK, InHand, state_reg # "ST_CAPTURE"
    PROVE  /\ this_frame \in Nat \ {0} /\ payload \in Nat \ {0} /\ last_keep \in 1..8
           /\ TagOf(this_frame) \in Metas /\ Len(captured) = this_frame /\ words_taken \in Nat
           /\ Whole(this_frame) \in Seq(Words) /\ Len(Whole(this_frame)) = payload + 3
<1>1. /\ Len(captured) = this_frame /\ captured \in Seq([beats : Nat \ {0}, keep : 1..8])
      /\ released \in Seq(Seq(Words)) /\ releasing \in Seq(Words)
  BY DEF TypeOK, InHand
<1>2. Len(released) \in Nat /\ words_taken \in Nat  BY <1>1, LenProperties DEF words_taken
<1>3. this_frame \in Nat \ {0}  BY <1>2 DEF this_frame
<1>4. this_frame \in 1..Len(captured)  BY <1>1, <1>3
<1>5. captured[this_frame] \in [beats : Nat \ {0}, keep : 1..8]  BY <1>1, <1>4, ElementOfSeq
<1>6. payload \in Nat \ {0} /\ last_keep \in 1..8  BY <1>5 DEF payload, last_keep
<1>7. TagOf(this_frame) \in Metas  BY <1>3 DEF TagOf, Metas
<1>8. Whole(this_frame) = FrameWords(this_frame, payload, last_keep, TagOf(this_frame))
  BY DEF Whole, payload, last_keep
<1> DEFINE k == this_frame
           n == payload
           l == last_keep
           m == TagOf(this_frame)
<1> HIDE DEF k, n, l, m
<1>9. FrameWords(k, n, l, m) \in Seq(Words) /\ Len(FrameWords(k, n, l, m)) = n + 3
  <2>1. k \in Nat \ {0} /\ n \in Nat \ {0} /\ l \in 1..8 /\ m \in Metas
    BY <1>3, <1>6, <1>7 DEF k, n, l, m
  <2>2. QED  BY <2>1, WordTypes
<1>10. QED  BY <1>1, <1>2, <1>3, <1>6, <1>7, <1>8, <1>9 DEF k, n, l, m

LEMMA WordsInHand ==
    ASSUME TypeOK, InHand, state_reg # "ST_CAPTURE"
    PROVE  /\ \A i \in 1..payload :
                LET w == Whole(this_frame)[i]
                IN  /\ w = PayloadWord(Beat(i), TagOf(this_frame)) /\ w \in Words /\ w # NoWord
                    /\ ~w.last
           /\ \A j \in 0..2 :
                LET w    == Whole(this_frame)[payload + 1 + j]
                    from == (8 - last_keep) + 8 * j
                IN  /\ w = AuthWord(from, TagOf(this_frame)) /\ w \in Words /\ w # NoWord
                    /\ from \in 0..23 /\ w.last = (j = 2) /\ (24 - from <= 8 <=> j = 2)
<1> DEFINE k == this_frame
           n == payload
           l == last_keep
           m == TagOf(this_frame)
           s == Whole(this_frame)
<1>1. k \in Nat \ {0} /\ n \in Nat \ {0} /\ l \in 1..8 /\ m \in Metas
  BY FrameInHand
<1>2. s = FrameWords(k, n, l, m)  BY DEF Whole, payload, last_keep
<1>3. \A i : Beat(i) = BeatAt(k, n, l, i)  BY DEF Beat, BeatAt
<1> HIDE DEF k, n, l, m, s
<1>4. ASSUME NEW i \in 1..n
      PROVE  s[i] = PayloadWord(Beat(i), m) /\ s[i] \in Words /\ s[i] # NoWord /\ ~s[i].last
  BY <1>1, <1>2, <1>3, PayloadWords
<1>5. ASSUME NEW j \in 0..2
      PROVE  /\ s[n + 1 + j] = AuthWord((8 - l) + 8 * j, m) /\ s[n + 1 + j] \in Words
             /\ s[n + 1 + j] # NoWord /\ (8 - l) + 8 * j \in 0..23 /\ s[n + 1 + j].last = (j = 2)
             /\ (24 - ((8 - l) + 8 * j) <= 8 <=> j = 2)
  <2>1. LET w    == FrameWords(k, n, l, m)[n + 1 + j]
            from == (8 - l) + 8 * j
        IN  /\ w = AuthWord(from, m) /\ w \in Words /\ w # NoWord /\ from \in 0..23
            /\ w.last = (j = 2) /\ (24 - from <= 8 <=> j = 2)
    BY <1>1, TrailerWords
  <2>2. QED  BY <1>2, <2>1, Zenon
<1>6. QED  BY <1>4, <1>5, Zenon DEF k, n, l, m, s

(* What of the frame has left is its beginning. *)
LEMMA Prefix ==
    ASSUME TypeOK, InHand, ReleasedWhole, state_reg # "ST_CAPTURE"
    PROVE  releasing = SubSeq(Whole(this_frame), 1, words_taken)
<1>1. CASE releasing = <<>>
  <2>1. words_taken = 0  BY <1>1, EmptySeq DEF words_taken
  <2>2. QED  BY <1>1, <2>1, SubSeqEmpty
<1>2. CASE releasing # <<>>
  BY <1>2 DEF ReleasedWhole, this_frame, words_taken
<1>3. QED  BY <1>1, <1>2

(* A word of the frame leaves. *)
LEMMA WordLeaves ==
    ASSUME TypeOK, InHand, ReleasedWhole, state_reg # "ST_CAPTURE",
           words_taken < payload + 3, m_axis = Whole(this_frame)[words_taken + 1],
           UNCHANGED <<captured, released>>, releasing' = Append(releasing, m_axis)
    PROVE  /\ ReleasedWhole' /\ releasing' \in Seq(Words) /\ words_taken' = words_taken + 1
           /\ releasing' = SubSeq(Whole(this_frame), 1, words_taken + 1)
<1> DEFINE s == Whole(this_frame)
           r == words_taken
<1>1. s \in Seq(Words) /\ Len(s) = payload + 3 /\ r \in Nat /\ Len(captured) = this_frame
  BY FrameInHand
<1>2. releasing = SubSeq(s, 1, r) /\ r < Len(s)  BY <1>1, Prefix
<1>3. releasing' = SubSeq(s, 1, r + 1)  BY <1>1, <1>2, Longer
<1>4. releasing \in Seq(Words) /\ m_axis \in Words  BY DEF TypeOK
<1>5. releasing' \in Seq(Words) /\ Len(releasing') = r + 1
  BY <1>4, AppendProperties DEF words_taken
<1>6. this_frame' = this_frame /\ \A k : Whole(k)' = Whole(k)  BY DEF this_frame, Whole
<1>7. ReleasedWhole'
  <2>1. \A k \in 1..Len(released) : k <= Len(captured) /\ released[k] = Whole(k)
    BY DEF ReleasedWhole
  <2>2. this_frame \in Nat /\ Len(released) + 1 = this_frame  BY FrameInHand DEF this_frame
  <2>3. releasing' = SubSeq(Whole(this_frame), 1, Len(releasing'))  BY <1>3, <1>5
  <2>4. this_frame <= Len(captured)  BY <1>1, <2>2
  <2> HIDE DEF s, r
  <2>5. QED  BY <1>6, <2>1, <2>2, <2>3, <2>4 DEF ReleasedWhole
<1>8. QED  BY <1>3, <1>5, <1>7 DEF words_taken

(* The frame's last word leaves. *)
LEMMA FrameLeaves ==
    ASSUME TypeOK, InHand, ReleasedWhole, state_reg # "ST_CAPTURE",
           words_taken = payload + 2, m_axis = Whole(this_frame)[words_taken + 1],
           UNCHANGED captured, releasing' = <<>>,
           released' = Append(released, Append(releasing, m_axis))
    PROVE  /\ ReleasedWhole' /\ released' \in Seq(Seq(Words))
           /\ Len(released') = Len(released) + 1 /\ Len(captured') = Len(released')
<1> DEFINE s == Whole(this_frame)
           r == words_taken
           n == Len(released)
<1>1. /\ s \in Seq(Words) /\ Len(s) = payload + 3 /\ r \in Nat /\ Len(captured) = this_frame
      /\ payload \in Nat
  BY FrameInHand
<1>2. releasing = SubSeq(s, 1, r) /\ r < Len(s) /\ r + 1 = Len(s)  BY <1>1, Prefix
<1>3. Append(releasing, m_axis) = s
  <2>1. Append(releasing, m_axis) = SubSeq(s, 1, Len(s))  BY <1>1, <1>2, Longer
  <2>2. SubSeq(s, 1, Len(s)) = s  BY <1>1, SubSeqFull
  <2>3. QED  BY <2>1, <2>2
<1>4. released \in Seq(Seq(Words)) /\ n \in Nat  BY LenProperties DEF TypeOK
<1>5. /\ released' \in Seq(Seq(Words)) /\ Len(released') = n + 1 /\ released'[n + 1] = s
      /\ \A k \in 1..n : released'[k] = released[k]
  <2>1. released' = Append(released, s)  BY <1>3
  <2> HIDE DEF s
  <2>2. QED  BY <1>1, <1>4, <2>1, AppendProperties
<1>6. this_frame = n + 1 /\ \A k : Whole(k)' = Whole(k)  BY DEF this_frame, Whole
<1>7. ASSUME NEW k \in 1..n + 1 PROVE k <= Len(captured) /\ released'[k] = Whole(k)
  <2>1. CASE k \in 1..n
    <3>1. k <= Len(captured) /\ released[k] = Whole(k)  BY <2>1 DEF ReleasedWhole
    <3>2. QED  BY <1>5, <2>1, <3>1
  <2>2. CASE k = n + 1  BY <1>1, <1>4, <1>5, <1>6, <2>2
  <2>3. QED  BY <1>4, <2>1, <2>2
<1>8. Len(released') \in Nat  BY <1>4, <1>5
<1>9. ReleasedWhole'
  <2> HIDE DEF s, r
  <2>1. \A k \in 1..Len(released') : k <= Len(captured') /\ released'[k] = Whole(k)'
    BY <1>5, <1>6, <1>7
  <2>2. releasing' = <<>>  OBVIOUS
  <2>3. QED  BY <2>1, <2>2 DEF ReleasedWhole
<1>10. QED  BY <1>1, <1>4, <1>5, <1>6, <1>9

(***************************************************************************)
(* The tag held beside the frame                                           *)
(***************************************************************************)
TagTaken(tag) == tag # NoMeta /\ s_tag_ready

held   == IF tag_pending_valid_reg THEN 1 ELSE 0
on_way == IF busy THEN 1 ELSE 0

LEMMA TagEdge ==
    ASSUME TypeOK, TagsHeld, NEW tag \in OfferedTags, PendingEdge(tag),
           tags' = IF TagTaken(tag) THEN tags + 1 ELSE tags
    PROVE  /\ tags' \in Nat /\ pending' \in Metas /\ tag_pending_valid_reg' \in BOOLEAN
           /\ tag_pending_valid_reg' => pending' = TagOf(tags')
           /\ tags' - held' =
                (tags - held) + (IF state_reg = "ST_WAITTAG" /\ tag_pending_valid_reg THEN 1 ELSE 0)
<1> DEFINE used == state_reg = "ST_WAITTAG" /\ tag_pending_valid_reg
<1>1. /\ tags \in Nat /\ pending \in Metas /\ tag_pending_valid_reg \in BOOLEAN
      /\ tag_pending_valid_reg => pending = TagOf(tags)
  BY DEF TypeOK, TagsHeld
<1>2. /\ pending' = IF TagTaken(tag) THEN tag ELSE pending
      /\ tag_pending_valid_reg' = (TagTaken(tag) \/ (tag_pending_valid_reg /\ ~used))
  BY DEF PendingEdge, TagTaken
<1>3. CASE TagTaken(tag)
  <2>1. tag = TagOf(tags + 1) /\ tag_pending_valid_reg = FALSE
    BY <1>1, <1>3 DEF OfferedTags, TagTaken, s_tag_ready
  <2>2. tags' = tags + 1 /\ pending' = tag /\ tag_pending_valid_reg' = TRUE  BY <1>2, <1>3
  <2>3. TagOf(tags + 1) \in Metas  BY <1>1 DEF TagOf, Metas
  <2>4. QED  BY <1>1, <2>1, <2>2, <2>3 DEF held
<1>4. CASE ~TagTaken(tag)
  <2>1. tags' = tags /\ pending' = pending  BY <1>2, <1>4
  <2>2. tag_pending_valid_reg' <=> tag_pending_valid_reg /\ ~used  BY <1>2, <1>4
  <2>3. tag_pending_valid_reg' \in BOOLEAN  BY <1>1, <1>2, <1>4
  <2>4. QED  BY <1>1, <2>1, <2>2, <2>3 DEF held
<1>5. QED  BY <1>3, <1>4

(* While a frame is captured, waits or is on its way out, the tag of the   *)
(* frame in hand stays.                                                    *)
LEMMA TagStays ==
    ASSUME TypeOK, TagsHeld, NEW tag \in OfferedTags, PendingEdge(tag),
           tags' = IF TagTaken(tag) THEN tags + 1 ELSE tags,
           UNCHANGED <<released, current>>, busy' <=> busy,
           ~(state_reg = "ST_WAITTAG" /\ tag_pending_valid_reg)
    PROVE  TagsHeld'
<1>1. tags \in Nat /\ Len(released) \in Nat  BY LenProperties DEF TypeOK
<1>2. tags' \in Nat /\ tags' - held' = tags - held  BY <1>1, TagEdge DEF held
<1>3. tag_pending_valid_reg' => pending' = TagOf(tags')  BY TagEdge
<1>4. tags = Len(released) + on_way + held  BY DEF TagsHeld, on_way, held
<1>5. on_way' = on_way /\ on_way \in Nat /\ held \in Nat /\ held' \in Nat  BY DEF on_way, held
<1>6. tags' = Len(released) + on_way + held'  BY <1>1, <1>2, <1>4, <1>5
<1>7. busy' => current' = TagOf(this_frame')  BY DEF TagsHeld, this_frame
<1>8. TagOf(this_frame)' = TagOf(this_frame') /\ TagOf(tags)' = TagOf(tags')  BY DEF TagOf
<1>9. tags' = Len(released') + (IF busy' THEN 1 ELSE 0) + (IF tag_pending_valid_reg' THEN 1 ELSE 0)
  BY <1>5, <1>6 DEF on_way, held
<1>10. tag_pending_valid_reg' => pending' = TagOf(tags)'  BY <1>3, <1>8
<1>11. busy' => current' = TagOf(this_frame)'  BY <1>7, <1>8
<1>12. QED  BY <1>9, <1>10, <1>11 DEF TagsHeld

(***************************************************************************)
(* One lemma for each state                                                *)
(***************************************************************************)
LEMMA InitInv == BenchInit => IInv
<1> SUFFICES ASSUME BenchInit PROVE IInv
  OBVIOUS
<1> USE DEF BenchInit, TagAppendInit
<1>1. NoMeta \in Metas /\ NoWord \in Words  BY DEF NoMeta, Metas, NoWord, Words
<1>2. Len(frame_fifo) = 0 /\ Len(captured) = 0 /\ Len(released) = 0 /\ 0 <= CAPTURE_DEPTH
  BY CaptureAssumption
<1>3. TypeOK
  <2>1. \A S : <<>> \in Seq(S)  BY EmptySeq
  <2>2. 0 \in 0..AUTH_BYTES /\ 0 \in 0..7 /\ Len(frame_fifo) <= CAPTURE_DEPTH  BY <1>2 DEF AUTH_BYTES
  <2>3. QED  BY <1>1, <2>1, <2>2 DEF TypeOK
<1>4. TagsHeld  BY <1>2 DEF TagsHeld, busy
<1>5. InHand  BY <1>2 DEF InHand, Capturing
<1>6. ReleasedWhole  BY <1>2 DEF ReleasedWhole
<1>7. QED  BY <1>3, <1>4, <1>5, <1>6 DEF IInv

(* What an edge does besides. *)
Beside(beat, tag, ready) ==
    /\ PendingEdge(tag)
    /\ tags' = IF TagTaken(tag) THEN tags + 1 ELSE tags
    /\ IF beat # NoBeat /\ s_payload_tready
       THEN /\ beats' = IF beat.last THEN 0 ELSE beat.pos
            /\ captured' = IF beat.last
                           THEN Append(captured, [beats |-> beat.pos, keep |-> beat.keep])
                           ELSE captured
       ELSE UNCHANGED <<beats, captured>>
    /\ IF out_hs(ready)
       THEN /\ releasing' = IF m_axis.last THEN <<>> ELSE Append(releasing, m_axis)
            /\ released' = IF m_axis.last THEN Append(released, Append(releasing, m_axis)) ELSE released
       ELSE UNCHANGED <<released, releasing>>

(* Nothing leaves: the frames released stay as they are. *)
LEMMA NothingLeaves ==
    ASSUME ReleasedWhole, UNCHANGED <<captured, released, releasing>>
    PROVE  ReleasedWhole'
  BY DEF ReleasedWhole, Whole

LEMMA SameFrame ==
    ASSUME UNCHANGED <<captured, released>>
    PROVE  /\ this_frame' = this_frame /\ payload' = payload /\ last_keep' = last_keep
           /\ Whole(this_frame)' = Whole(this_frame) /\ \A i : Beat(i)' = Beat(i)
  BY DEF this_frame, payload, last_keep, Whole, Beat

LEMMA OfferedBeat ==
    ASSUME TypeOK, NEW beat \in OfferedBeats, beat # NoBeat
    PROVE  /\ beat \in Beats /\ beat.frame = Len(captured) + 1 /\ beat.pos = beats + 1
           /\ beat.keep \in 1..8 /\ beat.last \in BOOLEAN
           /\ ~beat.last => beat.keep = 8
           /\ beat = [frame |-> Len(captured) + 1, pos |-> beats + 1, keep |-> beat.keep,
                      last |-> beat.last]
<1>1. beats \in Nat /\ Len(captured) \in Nat  BY LenProperties DEF TypeOK
<1>2. LAST_KEEPS \subseteq 1..8  BY BenchAssumption
<1> DEFINE n == Len(captured) + 1
           p == beats + 1
<1>3. n \in Nat /\ p \in Nat  BY <1>1
<1>4. \/ \E k \in LAST_KEEPS : beat = [frame |-> n, pos |-> p, keep |-> k, last |-> TRUE]
      \/ beat = [frame |-> n, pos |-> p, keep |-> 8, last |-> FALSE]
  BY DEF OfferedBeats
<1> HIDE DEF n, p
<1>5. CASE beat = [frame |-> n, pos |-> p, keep |-> 8, last |-> FALSE]
  BY <1>3, <1>5 DEF Beats, n, p
<1>6. ASSUME NEW k \in LAST_KEEPS, beat = [frame |-> n, pos |-> p, keep |-> k, last |-> TRUE]
      PROVE  /\ beat \in Beats /\ beat.frame = n /\ beat.pos = p /\ beat.last
             /\ beat.keep \in 1..8 /\ beat.last \in BOOLEAN
             /\ beat = [frame |-> n, pos |-> p, keep |-> beat.keep, last |-> beat.last]
  <2>1. k \in 1..8  BY <1>2
  <2>2. QED  BY <1>3, <1>6, <2>1 DEF Beats
<1>7. QED  BY <1>4, <1>5, <1>6 DEF n, p

LEMMA CaptureStep ==
    ASSUME IInv, NEW beat \in OfferedBeats, NEW tag \in OfferedTags, NEW ready \in BOOLEAN,
           Beside(beat, tag, ready), Capture(beat)
    PROVE  IInv'
<1>1. TypeOK /\ TagsHeld /\ InHand /\ ReleasedWhole  BY DEF IInv
<1>2. state_reg = "ST_CAPTURE" /\ Capturing  BY <1>1 DEF Capture, InHand
<1>3. UNCHANGED <<released, releasing>>  BY <1>2 DEF Beside, Capturing, out_hs
<1>4. UNCHANGED <<current, auth_index_reg, out_fifo_last_reg, out_auth_fill_reg>>
  BY DEF Capture
<1>5. tags' \in Nat /\ pending' \in Metas /\ tag_pending_valid_reg' \in BOOLEAN
  BY <1>1, TagEdge DEF Beside
<1>6. state_reg' \in {"ST_CAPTURE", "ST_WAITTAG"} /\ m_axis' = NoWord /\ m_axis' \in Words
  <2>1. NoWord \in Words  BY DEF NoMeta, Metas, NoWord, Words
  <2>2. QED  BY <1>2, <2>1 DEF Capture, Capturing
<1>7. TagsHeld'
  <2>1. ~busy /\ ~busy'  BY <1>2, <1>6 DEF busy
  <2>2. QED  BY <1>1, <1>2, <1>3, <1>4, <2>1, TagStays DEF Beside
<1>8. /\ frame_fifo \in Seq(Beats) /\ Len(frame_fifo) \in Nat /\ beats = Len(frame_fifo)
      /\ captured \in Seq([beats : Nat \ {0}, keep : 1..8]) /\ Len(captured) \in Nat
      /\ Len(captured) = Len(released) /\ releasing = <<>>
      /\ \A i \in 1..Len(frame_fifo) :
            frame_fifo[i] = [frame |-> this_frame, pos |-> i, keep |-> 8, last |-> FALSE]
  BY <1>1, <1>2, LenProperties DEF TypeOK, Capturing
<1>9. this_frame' = this_frame /\ this_frame = Len(captured) + 1  BY <1>3, <1>8 DEF this_frame
<1>10. CASE ~(beat # NoBeat /\ s_payload_tready)
  <2>1. UNCHANGED <<beats, captured, frame_fifo, state_reg>>  BY <1>10 DEF Beside, Capture
  <2>2. TypeOK'  BY <1>1, <1>3, <1>4, <1>5, <1>6, <2>1 DEF TypeOK
  <2>3. Capturing'  BY <1>3, <1>6, <1>8, <1>9, <2>1 DEF Capturing
  <2>4. InHand'  BY <1>2, <2>1, <2>3 DEF InHand
  <2>5. ReleasedWhole'  BY <1>1, <1>3, <2>1, NothingLeaves
  <2>6. QED  BY <1>7, <2>2, <2>4, <2>5 DEF IInv
<1>11. CASE beat # NoBeat /\ s_payload_tready
  <2> DEFINE n == Len(frame_fifo)
  <2>1. frame_fifo' = Append(frame_fifo, beat) /\ n < CAPTURE_DEPTH
    BY <1>11 DEF Capture, s_payload_tready
  <2>2. /\ beat.frame = this_frame /\ beat.pos = n + 1 /\ ~beat.last => beat.keep = 8
        /\ beat = [frame |-> this_frame, pos |-> n + 1, keep |-> beat.keep, last |-> beat.last]
    BY <1>1, <1>8, <1>9, <1>11, OfferedBeat
  <2>3. beat \in Beats /\ beat.keep \in 1..8 /\ beat.last \in BOOLEAN  BY <1>1, <1>11, OfferedBeat
  <2>4. /\ frame_fifo' \in Seq(Beats) /\ Len(frame_fifo') = n + 1 /\ frame_fifo'[n + 1] = beat
        /\ \A i \in 1..n : frame_fifo'[i] = frame_fifo[i]
    BY <1>8, <2>1, <2>3, AppendProperties
  <2>5. CAPTURE_DEPTH \in Nat /\ n + 1 <= CAPTURE_DEPTH  BY <1>8, <2>1, CaptureAssumption
  <2>6. ASSUME NEW i \in 1..n + 1
        PROVE  frame_fifo'[i] = IF i = n + 1 THEN beat
                                ELSE [frame |-> this_frame, pos |-> i, keep |-> 8, last |-> FALSE]
    <3>1. CASE i = n + 1  BY <2>4, <3>1
    <3>2. CASE i # n + 1
      <4>1. i \in 1..n  BY <1>8, <3>2
      <4>2. QED  BY <1>8, <2>4, <3>2, <4>1
    <3>3. QED  BY <3>1, <3>2
  <2>7. CASE ~beat.last
    <3>1. beats' = n + 1 /\ captured' = captured /\ state_reg' = "ST_CAPTURE"
      BY <1>2, <1>11, <2>2, <2>7 DEF Beside, Capture
    <3>2. beat = [frame |-> this_frame, pos |-> n + 1, keep |-> 8, last |-> FALSE]
      <4>1. beat.last = FALSE /\ beat.keep = 8  BY <2>2, <2>7, <2>3
      <4>2. QED  BY <2>2, <4>1
    <3>3. TypeOK'
      <4>1. beats' \in Nat  BY <1>8, <3>1
      <4>2. QED  BY <1>1, <1>3, <1>4, <1>5, <1>6, <2>4, <2>5, <3>1, <4>1 DEF TypeOK
    <3>4. Capturing'
      <4>1. \A i \in 1..n + 1 :
              frame_fifo'[i] = [frame |-> this_frame, pos |-> i, keep |-> 8, last |-> FALSE]
        BY <2>6, <3>2
      <4> HIDE DEF n
      <4>2. QED  BY <1>3, <1>6, <1>8, <1>9, <2>4, <3>1, <4>1 DEF Capturing
    <3>5. InHand'  BY <3>1, <3>4 DEF InHand
    <3>6. ReleasedWhole'  BY <1>1, <1>3, <3>1, NothingLeaves
    <3>7. QED  BY <1>7, <3>3, <3>5, <3>6 DEF IInv
  <2>8. CASE beat.last
    <3> DEFINE c == [beats |-> n + 1, keep |-> beat.keep]
    <3>1. beats' = 0 /\ captured' = Append(captured, c) /\ state_reg' = "ST_WAITTAG"
      BY <1>2, <1>11, <2>2, <2>8 DEF Beside, Capture
    <3>2. c \in [beats : Nat \ {0}, keep : 1..8] /\ beat.last = TRUE
      BY <1>8, <2>8, <2>3
    <3>3. /\ captured' \in Seq([beats : Nat \ {0}, keep : 1..8]) /\ Len(captured') = this_frame
          /\ captured'[this_frame] = c
          /\ \A k \in 1..Len(captured) : captured'[k] = captured[k]
      <4> HIDE DEF c
      <4>1. QED  BY <1>8, <1>9, <3>1, <3>2, AppendProperties
    <3>4. TypeOK'
      BY <1>1, <1>3, <1>4, <1>5, <1>6, <2>4, <2>5, <3>1, <3>3 DEF TypeOK
    <3>5. payload' = n + 1 /\ last_keep' = beat.keep
      BY <1>9, <3>3 DEF payload, last_keep
    <3>6. HoldsFrom(0)'
      <4>1. ASSUME NEW i \in 1..n + 1 PROVE frame_fifo'[i] = Beat(0 + i)'
        <5>1. Beat(0 + i)' = [frame |-> this_frame, pos |-> i, keep |-> IF i = n + 1 THEN beat.keep ELSE 8,
                              last |-> i = n + 1]
          <6>1. 0 + i = i  BY <1>8
          <6>2. QED  BY <1>9, <3>5, <6>1 DEF Beat
        <5>2. CASE i = n + 1  BY <2>2, <2>6, <3>2, <5>1, <5>2
        <5>3. CASE i # n + 1
          <6>1. (i = n + 1) = FALSE  BY <5>3
          <6>2. QED  BY <2>6, <5>1, <5>3, <6>1
        <5>4. QED  BY <5>2, <5>3
      <4> HIDE DEF n
      <4>2. Len(frame_fifo') = payload' - 0  BY <1>8, <2>4, <3>5 DEF n
      <4>3. QED  BY <2>4, <4>1, <4>2 DEF HoldsFrom
    <3>7. InHand'
      <4>1. Waiting'  BY <1>3, <1>6, <1>8, <3>6 DEF Waiting
      <4>2. QED  BY <1>9, <3>1, <3>3, <4>1 DEF InHand
    <3>8. ReleasedWhole'
      <4>1. releasing' = <<>>  BY <1>3, <1>8
      <4>2. ASSUME NEW k \in 1..Len(released)
            PROVE  k <= Len(captured') /\ released'[k] = Whole(k)'
        <5>1. k \in 1..Len(captured) /\ released[k] = Whole(k)  BY <1>1, <1>8 DEF ReleasedWhole
        <5>2. captured'[k] = captured[k]  BY <3>3, <5>1
        <5>3. Whole(k)' = Whole(k)  BY <5>2 DEF Whole
        <5>4. QED  BY <1>3, <1>8, <1>9, <3>3, <5>1, <5>3
      <4>3. \A k \in 1..Len(released)' : k <= Len(captured') /\ released'[k] = Whole(k)'
        BY <1>3, <4>2
      <4>4. QED  BY <4>1, <4>3 DEF ReleasedWhole
    <3>9. QED  BY <1>7, <3>4, <3>7, <3>8 DEF IInv
  <2>9. QED  BY <2>7, <2>8
<1>12. QED  BY <1>10, <1>11

LEMMA NoBeatTaken ==
    ASSUME NEW beat, NEW tag, NEW ready, Beside(beat, tag, ready), state_reg # "ST_CAPTURE"
    PROVE  UNCHANGED <<beats, captured>>
  BY DEF Beside, s_payload_tready

LEMMA WaitStep ==
    ASSUME IInv, NEW beat \in OfferedBeats, NEW tag \in OfferedTags, NEW ready \in BOOLEAN,
           Beside(beat, tag, ready), WaitTag
    PROVE  IInv'
<1>1. TypeOK /\ TagsHeld /\ InHand /\ ReleasedWhole  BY DEF IInv
<1>2. state_reg = "ST_WAITTAG" /\ Waiting /\ ~busy  BY <1>1 DEF WaitTag, InHand, busy
<1>3. UNCHANGED <<released, releasing, beats, captured>>
  BY <1>2, NoBeatTaken DEF Beside, Waiting, out_hs
<1>4. tags' \in Nat /\ pending' \in Metas /\ tag_pending_valid_reg' \in BOOLEAN
  BY <1>1, TagEdge DEF Beside
<1>5. /\ this_frame' = this_frame /\ payload' = payload /\ last_keep' = last_keep
      /\ \A i : Beat(i)' = Beat(i)
  BY <1>3, SameFrame
<1>6. frame_fifo' = frame_fifo  BY DEF WaitTag
<1>7. HoldsFrom(0)'  BY <1>2, <1>5, <1>6 DEF Waiting, HoldsFrom
<1>8. ReleasedWhole'  BY <1>1, <1>3, NothingLeaves
<1>9. CASE ~tag_pending_valid_reg
  <2>1. UNCHANGED <<current, auth_index_reg, out_fifo_last_reg, out_auth_fill_reg, m_axis, state_reg>>
    BY <1>9 DEF WaitTag
  <2>2. TypeOK'  BY <1>1, <1>3, <1>4, <1>6, <2>1 DEF TypeOK
  <2>3. TagsHeld'
    <3>1. ~busy'  BY <1>2, <2>1 DEF busy
    <3>2. QED  BY <1>1, <1>2, <1>3, <1>9, <2>1, <3>1, TagStays DEF Beside
  <2>4. InHand'
    <3>1. Waiting'  BY <1>2, <1>3, <1>7, <2>1 DEF Waiting
    <3>2. QED  BY <1>1, <1>2, <1>3, <1>5, <2>1, <3>1 DEF InHand
  <2>5. QED  BY <1>8, <2>2, <2>3, <2>4 DEF IInv
<1>10. CASE tag_pending_valid_reg
  <2>1. frame_fifo # <<>>
    <3>1. payload \in Nat \ {0} /\ Len(frame_fifo) = payload - 0
      BY <1>1, <1>2, FrameInHand DEF Waiting, HoldsFrom
    <3>2. Len(frame_fifo) # 0  BY <3>1
    <3>3. QED  BY <3>2, EmptySeq
  <2>2. /\ current' = pending /\ auth_index_reg' = 0 /\ out_fifo_last_reg' = FALSE
        /\ out_auth_fill_reg' = 0 /\ m_axis' = NoWord /\ state_reg' = "ST_OUTPUT_PAYLOAD"
    BY <1>10, <2>1 DEF WaitTag
  <2>3. TypeOK'
    <3>1. m_axis' \in Words /\ current' \in Metas  BY <1>1, <1>2, <2>2 DEF TypeOK, Waiting
    <3>2. auth_index_reg' \in 0..AUTH_BYTES /\ out_auth_fill_reg' \in 0..7
      BY <2>2 DEF AUTH_BYTES
    <3>3. QED  BY <1>1, <1>3, <1>4, <1>6, <2>2, <3>1, <3>2 DEF TypeOK
  <2>4. TagsHeld'
    <3>1. tags \in Nat /\ Len(released) \in Nat  BY <1>1, LenProperties DEF TypeOK
    <3>2. tags = this_frame /\ pending = TagOf(tags) /\ held = 1
      BY <1>1, <1>2, <1>10, <3>1 DEF TagsHeld, held, this_frame
    <3>3. tags' - held' = (tags - held) + 1  BY <1>1, <1>2, <1>10, TagEdge DEF Beside
    <3>4. tag_pending_valid_reg' => pending' = TagOf(tags')  BY <1>1, TagEdge DEF Beside
    <3>5. TagOf(this_frame)' = TagOf(this_frame') /\ TagOf(tags)' = TagOf(tags')  BY DEF TagOf
    <3>6. busy' /\ held' \in {0, 1}  BY <2>2 DEF busy, held
    <3>7. tags' = this_frame + held'
      <4>1. tags' - held' = tags  BY <3>1, <3>2, <3>3
      <4>2. held' \in Nat  BY DEF held
      <4>3. tags' = tags + held'  BY <1>4, <4>1, <4>2
      <4>4. QED  BY <3>2, <4>3
    <3>8. tags' = Len(released') + 1 + held'  BY <1>3, <3>7 DEF this_frame
    <3>9. current' = TagOf(this_frame)'  BY <1>5, <2>2, <3>2, <3>5
    <3>10. tag_pending_valid_reg' => pending' = TagOf(tags)'  BY <3>4, <3>5
    <3>11. tags' = Len(released') + (IF busy' THEN 1 ELSE 0) + (IF tag_pending_valid_reg' THEN 1 ELSE 0)
      BY <3>6, <3>8 DEF held
    <3>12. QED  BY <3>9, <3>10, <3>11 DEF TagsHeld
  <2>5. InHand'
    <3>1. Releasing'  BY <1>2, <1>3, <1>7, <2>2 DEF Waiting, Releasing
    <3>2. QED  BY <1>1, <1>2, <1>3, <1>5, <2>2, <3>1 DEF InHand
  <2>6. QED  BY <1>8, <2>3, <2>4, <2>5 DEF IInv
<1>11. QED  BY <1>9, <1>10

(* The next beat of the frame is loaded into the output register. *)
LEMMA Loads ==
    ASSUME TypeOK, InHand, TagsHeld, busy, NEW j \in Nat, j < payload, HoldsFrom(j),
           frame_fifo' = Tail(frame_fifo), m_axis' = PayloadWord(Head(frame_fifo), current),
           out_fifo_last_reg' = Head(frame_fifo).last,
           out_auth_fill_reg' = IF Head(frame_fifo).last THEN KEEP_WIDTH - Head(frame_fifo).keep ELSE 0
    PROVE  /\ m_axis' = Whole(this_frame)[j + 1] /\ m_axis' \in Words
           /\ frame_fifo' \in Seq(Beats) /\ Len(frame_fifo') <= CAPTURE_DEPTH
           /\ Len(frame_fifo') = payload - (j + 1)
           /\ \A i \in 1..Len(frame_fifo') : frame_fifo'[i] = Beat(j + 1 + i)
           /\ out_fifo_last_reg' = (j + 1 = payload)
           /\ out_fifo_last_reg' => out_auth_fill_reg' = 8 - last_keep
           /\ out_auth_fill_reg' \in 0..7
<1> DEFINE b == Head(frame_fifo)
<1>1. state_reg # "ST_CAPTURE"  BY DEF busy
<1>2. payload \in Nat \ {0} /\ last_keep \in 1..8  BY <1>1, FrameInHand
<1>3. /\ frame_fifo \in Seq(Beats) /\ Len(frame_fifo) <= CAPTURE_DEPTH /\ CAPTURE_DEPTH \in Nat
      /\ Len(frame_fifo) \in Nat
  BY CaptureAssumption, LenProperties DEF TypeOK
<1>4. Len(frame_fifo) = payload - j /\ \A i \in 1..Len(frame_fifo) : frame_fifo[i] = Beat(j + i)
  BY DEF HoldsFrom
<1>5. Len(frame_fifo) >= 1 /\ frame_fifo # <<>>
  <2>1. Len(frame_fifo) >= 1  BY <1>2, <1>4
  <2>2. QED  BY <2>1, EmptySeq
<1>6. /\ frame_fifo' \in Seq(Beats) /\ Len(frame_fifo') = Len(frame_fifo) - 1
      /\ \A i \in 1..Len(frame_fifo') : frame_fifo'[i] = frame_fifo[i + 1]
  BY <1>3, <1>5, HeadTailProperties
<1>7. b = Beat(j + 1)
  <2>1. b = frame_fifo[1]  BY <1>3, <1>5
  <2>2. QED  BY <1>3, <1>4, <1>5, <2>1
<1>8. b.last = (j + 1 = payload) /\ b.keep = IF j + 1 = payload THEN last_keep ELSE 8
  BY <1>7 DEF Beat
<1>9. m_axis' = Whole(this_frame)[j + 1] /\ m_axis' \in Words
  <2>1. j + 1 \in 1..payload  BY <1>2
  <2>2. current = TagOf(this_frame)  BY DEF TagsHeld
  <2>3. QED  BY <1>1, <1>7, <2>1, <2>2, WordsInHand
<1>10. out_auth_fill_reg' = IF j + 1 = payload THEN 8 - last_keep ELSE 0
  BY <1>8 DEF KEEP_WIDTH
<1>11. Len(frame_fifo') <= CAPTURE_DEPTH /\ Len(frame_fifo') = payload - (j + 1)
  BY <1>2, <1>3, <1>4, <1>6
<1>12. ASSUME NEW i \in 1..Len(frame_fifo') PROVE frame_fifo'[i] = Beat(j + 1 + i)
  <2>1. i + 1 \in 1..Len(frame_fifo) /\ j + (i + 1) = j + 1 + i  BY <1>3, <1>6
  <2>2. frame_fifo[i + 1] = Beat(j + (i + 1))  BY <1>4, <2>1
  <2>3. QED  BY <1>6, <2>1, <2>2
<1>13. out_auth_fill_reg' \in 0..7  BY <1>2, <1>10
<1>14. QED  BY <1>6, <1>8, <1>9, <1>10, <1>11, <1>12, <1>13

LEMMA PayloadStep ==
    ASSUME IInv, NEW beat \in OfferedBeats, NEW tag \in OfferedTags, NEW ready \in BOOLEAN,
           Beside(beat, tag, ready), OutputPayload(ready)
    PROVE  IInv'
<1>1. TypeOK /\ TagsHeld /\ InHand /\ ReleasedWhole  BY DEF IInv
<1>2. state_reg = "ST_OUTPUT_PAYLOAD" /\ Releasing /\ busy /\ state_reg # "ST_CAPTURE"
  BY <1>1 DEF OutputPayload, InHand, busy
<1>3. UNCHANGED <<beats, captured, current>>
  BY <1>2, NoBeatTaken DEF OutputPayload
<1>4. tags' \in Nat /\ pending' \in Metas /\ tag_pending_valid_reg' \in BOOLEAN
  BY <1>1, TagEdge DEF Beside
<1>5. /\ payload \in Nat \ {0} /\ last_keep \in 1..8 /\ words_taken \in Nat
      /\ Len(captured) = this_frame /\ beats = 0
  BY <1>1, <1>2, FrameInHand DEF InHand
<1>6. \A i \in 1..payload :
         Whole(this_frame)[i] \in Words /\ Whole(this_frame)[i] # NoWord /\ ~Whole(this_frame)[i].last
  BY <1>1, <1>2, WordsInHand
<1>7. ASSUME m_axis # NoWord
      PROVE  /\ words_taken < payload /\ m_axis = Whole(this_frame)[words_taken + 1]
             /\ HoldsFrom(words_taken + 1) /\ ~m_axis.last
             /\ out_fifo_last_reg <=> words_taken + 1 = payload
             /\ out_fifo_last_reg => out_auth_fill_reg = 8 - last_keep
  <2>1. /\ words_taken < payload /\ m_axis = Whole(this_frame)[words_taken + 1]
        /\ HoldsFrom(words_taken + 1)
        /\ out_fifo_last_reg <=> words_taken + 1 = payload
        /\ out_fifo_last_reg => out_auth_fill_reg = 8 - last_keep
    BY <1>2, <1>7 DEF Releasing
  <2>2. words_taken + 1 \in 1..payload  BY <1>5, <2>1
  <2>3. QED  BY <1>6, <2>1, <2>2
<1>8. ASSUME m_axis = NoWord PROVE releasing = <<>> /\ words_taken = 0 /\ HoldsFrom(0)
  <2>1. CASE releasing = <<>> /\ HoldsFrom(0)
    BY <2>1, EmptySeq DEF words_taken
  <2>2. CASE words_taken < payload /\ m_axis = Whole(this_frame)[words_taken + 1]
    <3>1. words_taken + 1 \in 1..payload  BY <1>5, <2>2
    <3>2. QED  BY <1>6, <1>8, <2>2, <3>1
  <2>3. QED  BY <1>2, <2>1, <2>2 DEF Releasing
<1>9. ASSUME UNCHANGED released, state_reg' \in {"ST_OUTPUT_PAYLOAD", "ST_OUTPUT_AUTH"}
      PROVE  /\ TagsHeld' /\ this_frame' = this_frame /\ payload' = payload /\ last_keep' = last_keep
             /\ Whole(this_frame)' = Whole(this_frame) /\ \A i : Beat(i)' = Beat(i)
             /\ Len(captured') = this_frame' /\ beats' = 0
  <2>1. busy' <=> busy  BY <1>2, <1>9 DEF busy
  <2>2. TagsHeld'  BY <1>1, <1>2, <1>3, <1>9, <2>1, TagStays DEF Beside
  <2>3. /\ this_frame' = this_frame /\ payload' = payload /\ last_keep' = last_keep
        /\ Whole(this_frame)' = Whole(this_frame) /\ \A i : Beat(i)' = Beat(i)
    BY <1>3, <1>9, SameFrame
  <2>4. QED  BY <1>3, <1>5, <2>2, <2>3
<1>10. CASE ~out_moves(ready)
  <2>1. UNCHANGED <<frame_fifo, state_reg, auth_index_reg, out_fifo_last_reg, out_auth_fill_reg, m_axis,
                    released, releasing>>
    BY <1>10 DEF OutputPayload, Beside, out_moves, out_hs
  <2>2. TypeOK'  BY <1>1, <1>3, <1>4, <2>1 DEF TypeOK
  <2>3. Releasing'
    <3>1. /\ HoldsFrom(0) => HoldsFrom(0)'
          /\ HoldsFrom(words_taken + 1) => HoldsFrom(words_taken + 1)'
          /\ words_taken' = words_taken
      BY <1>2, <1>9, <2>1 DEF HoldsFrom, words_taken
    <3>2. QED  BY <1>2, <1>9, <2>1, <3>1 DEF Releasing
  <2>4. InHand'  BY <1>2, <1>9, <2>1, <2>3 DEF InHand
  <2>5. ReleasedWhole'  BY <1>1, <1>3, <2>1, NothingLeaves
  <2>6. QED  BY <1>2, <1>9, <2>1, <2>2, <2>4, <2>5 DEF IInv
<1>11. ASSUME NEW j \in Nat, j < payload, HoldsFrom(j), out_moves(ready),
              ~(out_hs(ready) /\ out_fifo_last_reg), UNCHANGED released,
              releasing' \in Seq(Words), words_taken' = j, ReleasedWhole'
       PROVE  IInv'
  <2>1. frame_fifo # <<>>
    <3>1. Len(frame_fifo) # 0  BY <1>5, <1>11 DEF HoldsFrom
    <3>2. QED  BY <3>1, EmptySeq
  <2>2. /\ frame_fifo' = Tail(frame_fifo) /\ m_axis' = PayloadWord(Head(frame_fifo), current)
        /\ out_fifo_last_reg' = Head(frame_fifo).last
        /\ out_auth_fill_reg' = IF Head(frame_fifo).last THEN KEEP_WIDTH - Head(frame_fifo).keep ELSE 0
        /\ UNCHANGED <<state_reg, auth_index_reg>>
    BY <1>11, <2>1 DEF OutputPayload
  <2>3. /\ m_axis' = Whole(this_frame)[j + 1] /\ m_axis' \in Words
        /\ frame_fifo' \in Seq(Beats) /\ Len(frame_fifo') <= CAPTURE_DEPTH
        /\ Len(frame_fifo') = payload - (j + 1)
        /\ \A i \in 1..Len(frame_fifo') : frame_fifo'[i] = Beat(j + 1 + i)
        /\ out_fifo_last_reg' = (j + 1 = payload)
        /\ out_fifo_last_reg' => out_auth_fill_reg' = 8 - last_keep
        /\ out_auth_fill_reg' \in 0..7
    BY <1>1, <1>2, <1>11, <2>2, Loads
  <2>4. /\ TagsHeld' /\ this_frame' = this_frame /\ payload' = payload /\ last_keep' = last_keep
        /\ Whole(this_frame)' = Whole(this_frame) /\ \A i : Beat(i)' = Beat(i)
        /\ Len(captured') = this_frame' /\ beats' = 0
    BY <1>2, <1>9, <1>11, <2>2
  <2>5. TypeOK'
    <3>1. out_fifo_last_reg' \in BOOLEAN  BY <2>3
    <3>2. QED  BY <1>1, <1>3, <1>4, <1>11, <2>2, <2>3, <3>1 DEF TypeOK
  <2>6. Releasing'
    <3>1. HoldsFrom(words_taken + 1)'  BY <1>11, <2>3, <2>4 DEF HoldsFrom
    <3>2. m_axis' = Whole(this_frame)'[words_taken' + 1]  BY <1>11, <2>3, <2>4
    <3>3. /\ words_taken' < payload' /\ out_fifo_last_reg' = (words_taken' + 1 = payload')
          /\ out_fifo_last_reg' => out_auth_fill_reg' = 8 - last_keep'
      BY <1>11, <2>3, <2>4
    <3>4. QED  BY <3>1, <3>2, <3>3 DEF Releasing
  <2>7. InHand'  BY <1>2, <2>2, <2>4, <2>6 DEF InHand
  <2>8. QED  BY <1>11, <2>4, <2>5, <2>7 DEF IInv
<1>12. CASE m_axis = NoWord
  <2>1. out_moves(ready) /\ ~out_hs(ready)  BY <1>12 DEF out_moves, out_hs
  <2>2. UNCHANGED <<released, releasing>>  BY <2>1 DEF Beside
  <2>3. ReleasedWhole'  BY <1>1, <1>3, <2>2, NothingLeaves
  <2>4. words_taken' = 0 /\ releasing' \in Seq(Words)
    BY <1>1, <1>8, <1>12, <2>2 DEF words_taken, TypeOK
  <2>5. 0 \in Nat /\ 0 < payload /\ HoldsFrom(0)  BY <1>5, <1>8, <1>12
  <2>6. QED  BY <1>11, <2>1, <2>2, <2>3, <2>4, <2>5
<1>13. CASE m_axis # NoWord /\ ready
  <2>1. out_moves(ready) /\ out_hs(ready)  BY <1>13 DEF out_moves, out_hs
  <2>2. /\ words_taken < payload /\ m_axis = Whole(this_frame)[words_taken + 1]
        /\ HoldsFrom(words_taken + 1) /\ ~m_axis.last
        /\ out_fifo_last_reg <=> words_taken + 1 = payload
        /\ out_fifo_last_reg => out_auth_fill_reg = 8 - last_keep
    BY <1>7, <1>13
  <2>3. released' = released /\ releasing' = Append(releasing, m_axis)  BY <2>1, <2>2 DEF Beside
  <2>4. /\ ReleasedWhole' /\ releasing' \in Seq(Words) /\ words_taken' = words_taken + 1
    <3>1. words_taken < payload + 3  BY <1>5, <2>2
    <3>2. QED  BY <1>1, <1>2, <1>3, <2>2, <2>3, <3>1, WordLeaves
  <2>5. CASE ~out_fifo_last_reg
    <3>1. words_taken + 1 \in Nat /\ words_taken + 1 < payload  BY <1>5, <2>2, <2>5
    <3>2. QED  BY <1>11, <2>1, <2>2, <2>3, <2>4, <2>5, <3>1
  <2>6. CASE out_fifo_last_reg
    <3>1. words_taken + 1 = payload /\ out_auth_fill_reg = 8 - last_keep  BY <2>2, <2>6
    <3>2. frame_fifo = <<>>
      <4>1. Len(frame_fifo) = payload - payload  BY <2>2, <3>1 DEF HoldsFrom
      <4>2. Len(frame_fifo) = 0  BY <1>5, <4>1
      <4>3. QED  BY <1>1, <4>2, EmptySeq DEF TypeOK
    <3>3. /\ auth_index_reg' = out_auth_fill_reg /\ state_reg' = "ST_OUTPUT_AUTH"
          /\ m_axis' = AuthWord(out_auth_fill_reg, current)
          /\ UNCHANGED <<out_fifo_last_reg, out_auth_fill_reg>>
      BY <2>1, <2>6 DEF OutputPayload
    <3>4. frame_fifo' = <<>>  BY <3>2 DEF OutputPayload
    <3>5. current = TagOf(this_frame)  BY <1>1, <1>2 DEF TagsHeld
    <3>6. m_axis' = Whole(this_frame)[payload + 1] /\ m_axis' \in Words
      <4>1. /\ 0 \in 0..2 /\ payload + 1 + 0 = payload + 1
            /\ (8 - last_keep) + 8 * 0 = 8 - last_keep
        BY <1>5
      <4>2. LET w    == Whole(this_frame)[payload + 1 + 0]
                from == (8 - last_keep) + 8 * 0
            IN  w = AuthWord(from, TagOf(this_frame)) /\ w \in Words
        BY <1>1, <1>2, <4>1, WordsInHand
      <4>3. QED  BY <3>1, <3>3, <3>5, <4>1, <4>2
    <3>7. /\ TagsHeld' /\ this_frame' = this_frame /\ payload' = payload /\ last_keep' = last_keep
          /\ Whole(this_frame)' = Whole(this_frame) /\ Len(captured') = this_frame' /\ beats' = 0
      BY <1>9, <2>3, <3>3
    <3>8. TypeOK'
      <4>1. auth_index_reg' \in 0..AUTH_BYTES  BY <1>5, <3>1, <3>3 DEF AUTH_BYTES
      <4>2. <<>> \in Seq(Beats)  BY EmptySeq
      <4>3. frame_fifo' \in Seq(Beats) /\ Len(frame_fifo') <= CAPTURE_DEPTH
        BY <1>1, <3>2, <3>4, <4>2 DEF TypeOK
      <4>4. QED  BY <1>1, <1>3, <1>4, <2>3, <2>4, <3>3, <3>6, <4>1, <4>3 DEF TypeOK
    <3>9. Trailing'
      <4>1. words_taken' = payload'  BY <2>4, <3>1, <3>7
      <4>2. words_taken' \in payload'..payload' + 2  BY <1>5, <3>7, <4>1
      <4>3. m_axis' = Whole(this_frame)'[words_taken' + 1]  BY <3>6, <3>7, <4>1
      <4>4. auth_index_reg' = (8 - last_keep') + 8 * (words_taken' - payload')
        BY <1>5, <3>1, <3>3, <3>7, <4>1
      <4>5. QED  BY <3>4, <4>2, <4>3, <4>4 DEF Trailing
    <3>10. InHand'  BY <3>3, <3>7, <3>9 DEF InHand
    <3>11. QED  BY <2>4, <3>7, <3>8, <3>10 DEF IInv
  <2>7. QED  BY <2>5, <2>6
<1>14. QED  BY <1>10, <1>12, <1>13 DEF out_moves

LEMMA AuthStep ==
    ASSUME IInv, NEW beat \in OfferedBeats, NEW tag \in OfferedTags, NEW ready \in BOOLEAN,
           Beside(beat, tag, ready), OutputAuth(ready)
    PROVE  IInv'
<1>1. TypeOK /\ TagsHeld /\ InHand /\ ReleasedWhole  BY DEF IInv
<1>2. state_reg = "ST_OUTPUT_AUTH" /\ Trailing /\ busy /\ state_reg # "ST_CAPTURE"
  BY <1>1 DEF OutputAuth, InHand, busy
<1>3. UNCHANGED <<beats, captured, current, frame_fifo, out_fifo_last_reg, out_auth_fill_reg>>
  BY <1>2, NoBeatTaken DEF OutputAuth
<1>4. tags' \in Nat /\ pending' \in Metas /\ tag_pending_valid_reg' \in BOOLEAN
  BY <1>1, TagEdge DEF Beside
<1>5. /\ payload \in Nat \ {0} /\ last_keep \in 1..8 /\ words_taken \in Nat
      /\ Len(captured) = this_frame /\ beats = 0
  BY <1>1, <1>2, FrameInHand DEF InHand
<1>6. current = TagOf(this_frame)  BY <1>1, <1>2 DEF TagsHeld
<1>7. \A j \in 0..2 :
         /\ Whole(this_frame)[payload + 1 + j] = AuthWord((8 - last_keep) + 8 * j, TagOf(this_frame))
         /\ Whole(this_frame)[payload + 1 + j] \in Words /\ Whole(this_frame)[payload + 1 + j] # NoWord
         /\ Whole(this_frame)[payload + 1 + j].last = (j = 2)
         /\ (8 - last_keep) + 8 * j \in 0..23
         /\ 24 - ((8 - last_keep) + 8 * j) <= 8 <=> j = 2
  BY <1>1, <1>2, WordsInHand, Zenon
<1>8. PICK j \in 0..2 : words_taken = payload + j
  <2>1. words_taken - payload \in 0..2  BY <1>2, <1>5 DEF Trailing
  <2>2. QED  BY <1>5, <2>1
<1>9. /\ words_taken + 1 = payload + 1 + j /\ words_taken - payload = j
      /\ auth_index_reg = (8 - last_keep) + 8 * j
      /\ m_axis = Whole(this_frame)[payload + 1 + j] /\ frame_fifo = <<>>
  <2>1. words_taken + 1 = payload + 1 + j /\ words_taken - payload = j  BY <1>5, <1>8
  <2>2. QED  BY <1>2, <2>1 DEF Trailing
<1>10. /\ m_axis # NoWord /\ m_axis.last = (j = 2)
       /\ AUTH_BYTES - auth_index_reg <= KEEP_WIDTH <=> j = 2
  BY <1>7, <1>9 DEF AUTH_BYTES, KEEP_WIDTH
<1>11. CASE ~ready
  <2>1. UNCHANGED <<state_reg, auth_index_reg, m_axis, released, releasing>>
    BY <1>10, <1>11 DEF OutputAuth, Beside, out_moves, out_hs
  <2>2. TypeOK'  BY <1>1, <1>3, <1>4, <2>1 DEF TypeOK
  <2>3. /\ this_frame' = this_frame /\ payload' = payload /\ last_keep' = last_keep
        /\ Whole(this_frame)' = Whole(this_frame) /\ words_taken' = words_taken
    BY <1>3, <2>1, SameFrame DEF words_taken
  <2>4. TagsHeld'
    <3>1. busy' <=> busy  BY <2>1 DEF busy
    <3>2. QED  BY <1>1, <1>2, <1>3, <2>1, <3>1, TagStays DEF Beside
  <2>5. Trailing'  BY <1>2, <1>3, <2>1, <2>3 DEF Trailing
  <2>6. InHand'  BY <1>2, <1>3, <1>5, <2>1, <2>3, <2>5 DEF InHand
  <2>7. ReleasedWhole'  BY <1>1, <1>3, <2>1, NothingLeaves
  <2>8. QED  BY <2>2, <2>4, <2>6, <2>7 DEF IInv
<1>12. CASE ready /\ j # 2
  <2>1. out_hs(ready) /\ out_moves(ready) /\ ~m_axis.last  BY <1>10, <1>12 DEF out_hs, out_moves
  <2>2. released' = released /\ releasing' = Append(releasing, m_axis)  BY <2>1 DEF Beside
  <2>3. /\ auth_index_reg' = auth_index_reg + KEEP_WIDTH /\ state_reg' = state_reg
        /\ m_axis' = AuthWord(auth_index_reg + KEEP_WIDTH, current)
    BY <1>10, <1>12, <2>1 DEF OutputAuth
  <2>4. /\ ReleasedWhole' /\ releasing' \in Seq(Words) /\ words_taken' = words_taken + 1
    <3>1. words_taken < payload + 3  BY <1>5, <1>8
    <3>2. QED  BY <1>1, <1>2, <1>3, <1>9, <2>2, <3>1, WordLeaves
  <2>5. /\ this_frame' = this_frame /\ payload' = payload /\ last_keep' = last_keep
        /\ Whole(this_frame)' = Whole(this_frame)
    BY <1>3, <2>2, SameFrame
  <2> DEFINE i == j + 1
  <2>6. i \in 0..2 /\ i = j + 1  BY <1>8, <1>12
  <2> HIDE DEF i
  <2>7. auth_index_reg' = (8 - last_keep) + 8 * i /\ words_taken' = payload + i
    BY <1>5, <1>8, <1>9, <2>3, <2>4, <2>6 DEF KEEP_WIDTH
  <2>8. m_axis' = Whole(this_frame)[payload + 1 + i] /\ m_axis' \in Words /\ auth_index_reg' \in 0..23
    <3>1. m_axis' = AuthWord((8 - last_keep) + 8 * i, TagOf(this_frame))  BY <1>6, <2>3, <2>7
    <3>2. QED  BY <1>7, <2>6, <2>7, <3>1
  <2>9. TypeOK'
    <3>1. auth_index_reg' \in 0..AUTH_BYTES  BY <2>8 DEF AUTH_BYTES
    <3>2. QED  BY <1>1, <1>3, <1>4, <2>2, <2>3, <2>4, <2>8, <3>1 DEF TypeOK
  <2>10. TagsHeld'
    <3>1. busy' <=> busy  BY <2>3 DEF busy
    <3>2. QED  BY <1>1, <1>2, <1>3, <2>2, <3>1, TagStays DEF Beside
  <2>11. Trailing'
    <3>1. words_taken' \in payload'..payload' + 2  BY <1>5, <2>5, <2>6, <2>7
    <3>2. words_taken' + 1 = payload + 1 + i  BY <1>5, <2>6, <2>7
    <3>3. m_axis' = Whole(this_frame)'[words_taken' + 1]  BY <2>5, <2>8, <3>2
    <3>4. words_taken' - payload' = i  BY <1>5, <2>5, <2>6, <2>7
    <3>5. auth_index_reg' = (8 - last_keep') + 8 * (words_taken' - payload')  BY <2>5, <2>7, <3>4
    <3>6. frame_fifo' = <<>>  BY <1>3, <1>9
    <3>7. QED  BY <3>1, <3>3, <3>5, <3>6 DEF Trailing
  <2>12. InHand'  BY <1>2, <1>3, <1>5, <2>3, <2>5, <2>11 DEF InHand
  <2>13. QED  BY <2>4, <2>9, <2>10, <2>12 DEF IInv
<1>13. CASE ready /\ j = 2
  <2>1. out_hs(ready) /\ out_moves(ready) /\ m_axis.last  BY <1>10, <1>13 DEF out_hs, out_moves
  <2>2. releasing' = <<>> /\ released' = Append(released, Append(releasing, m_axis))
    BY <2>1 DEF Beside
  <2>3. state_reg' = "ST_CAPTURE" /\ m_axis' = NoWord /\ UNCHANGED auth_index_reg
    BY <1>10, <1>13, <2>1 DEF OutputAuth
  <2>4. /\ ReleasedWhole' /\ released' \in Seq(Seq(Words))
        /\ Len(released') = Len(released) + 1 /\ Len(captured') = Len(released')
    <3>1. words_taken = payload + 2  BY <1>8, <1>13
    <3>2. QED  BY <1>1, <1>2, <1>3, <1>9, <2>2, <3>1, FrameLeaves
  <2>5. TypeOK'
    <3>1. NoWord \in Words  BY DEF NoMeta, Metas, NoWord, Words
    <3>2. releasing' \in Seq(Words)  BY <2>2, EmptySeq
    <3>3. m_axis' \in Words /\ state_reg' \in {"ST_CAPTURE", "ST_WAITTAG"}  BY <2>3, <3>1
    <3>4. QED  BY <1>1, <1>3, <1>4, <2>3, <2>4, <3>2, <3>3 DEF TypeOK
  <2>6. TagsHeld'
    <3>1. tags \in Nat /\ Len(released) \in Nat  BY <1>1, LenProperties DEF TypeOK
    <3>2. tags = Len(released) + 1 + held /\ held \in {0, 1} /\ held' \in {0, 1}
      BY <1>1, <1>2, <3>1 DEF TagsHeld, held
    <3>3. tags' - held' = (tags - held) + 0  BY <1>1, <1>2, TagEdge DEF Beside
    <3>4. tag_pending_valid_reg' => pending' = TagOf(tags')  BY <1>1, TagEdge DEF Beside
    <3>5. tags' - held' = Len(released) + 1  BY <3>1, <3>2, <3>3
    <3>6. tags' = Len(released') + held'  BY <1>4, <2>4, <3>1, <3>2, <3>5
    <3>7. ~busy'  BY <2>3 DEF busy
    <3>8. TagOf(tags)' = TagOf(tags')  BY DEF TagOf
    <3>9. Len(released') \in Nat  BY <2>4, <3>1
    <3>10. tags' = Len(released') + (IF busy' THEN 1 ELSE 0) + (IF tag_pending_valid_reg' THEN 1 ELSE 0)
      BY <3>6, <3>7, <3>9 DEF held
    <3>11. QED  BY <3>4, <3>7, <3>8, <3>10 DEF TagsHeld
  <2>7. InHand'
    <3>1. frame_fifo' = <<>> /\ beats' = 0 /\ Len(frame_fifo') = 0  BY <1>3, <1>5, <1>9
    <3>2. Capturing'  BY <2>2, <2>3, <2>4, <3>1 DEF Capturing
    <3>3. QED  BY <2>3, <3>2 DEF InHand
  <2>8. QED  BY <2>4, <2>5, <2>6, <2>7 DEF IInv
<1>14. QED  BY <1>11, <1>12, <1>13

(***************************************************************************)
(* The invariant and what follows from it                                  *)
(***************************************************************************)
LEMMA StutterInv == ASSUME IInv, UNCHANGED vars PROVE IInv'
<1> USE DEF vars, tagAppendVars
<1>1. TypeOK'  BY DEF IInv, TypeOK
<1>2. /\ this_frame' = this_frame /\ payload' = payload /\ last_keep' = last_keep
      /\ Whole(this_frame)' = Whole(this_frame) /\ \A i : Beat(i)' = Beat(i)
      /\ words_taken' = words_taken
  BY SameFrame DEF words_taken
<1>3. TagsHeld'  BY <1>2 DEF IInv, TagsHeld, busy, TagOf
<1>4. InHand'
  <2>1. Capturing => Capturing'  BY <1>2 DEF Capturing
  <2>2. /\ HoldsFrom(0) => HoldsFrom(0)'
        /\ HoldsFrom(words_taken + 1) => HoldsFrom(words_taken + 1)'
    BY <1>2 DEF HoldsFrom
  <2>3. (Waiting => Waiting') /\ (Releasing => Releasing')
    BY <1>2, <2>2 DEF Waiting, Releasing
  <2>4. Trailing => Trailing'  BY <1>2 DEF Trailing
  <2>5. QED  BY <1>2, <2>1, <2>3, <2>4 DEF IInv, InHand
<1>5. ReleasedWhole'  BY NothingLeaves DEF IInv
<1>6. QED  BY <1>1, <1>3, <1>4, <1>5 DEF IInv

LEMMA NextInv == IInv /\ [Next]_vars => IInv'
<1> SUFFICES ASSUME IInv, [Next]_vars PROVE IInv'
  OBVIOUS
<1>1. ASSUME NEW beat \in OfferedBeats, NEW tag \in OfferedTags, NEW ready \in BOOLEAN,
             Edge(beat, tag, ready)
      PROVE  IInv'
  <2>1. Beside(beat, tag, ready)
    BY <1>1, Zenon DEF Edge, TagAppendEdge, Beside, TagTaken
  <2>2. Capture(beat) \/ WaitTag \/ OutputPayload(ready) \/ OutputAuth(ready)
    BY <1>1, Zenon DEF Edge, TagAppendEdge
  <2>3. CASE Capture(beat)  BY <2>1, <2>3, CaptureStep
  <2>4. CASE WaitTag  BY <2>1, <2>4, WaitStep
  <2>5. CASE OutputPayload(ready)  BY <2>1, <2>5, PayloadStep
  <2>6. CASE OutputAuth(ready)  BY <2>1, <2>6, AuthStep
  <2>7. QED  BY <2>2, <2>3, <2>4, <2>5, <2>6
<1>2. CASE UNCHANGED vars  BY <1>2, StutterInv
<1>3. QED  BY <1>1, <1>2 DEF Next

(* Tags and frames keep their pairing and the state machine holds, in each *)
(* state, just what is left of the frame in hand.                          *)
THEOREM TagAppendInvariant == Spec => []IInv
<1>1. QED  BY InitInv, NextInv, PTL DEF Spec

(* The registers of macsec_tag_append keep their types: the capture FIFO   *)
(* never holds more than its depth, the trailer index never passes its     *)
(* end.                                                                    *)
THEOREM TagAppendTypeCorrect == Spec => []TypeOK
<1>1. IInv => TypeOK  BY DEF IInv
<1>2. QED  BY <1>1, TagAppendInvariant, PTL

(* Every frame macsec_tag_append releases is a captured one, whole, in     *)
(* order and with its own tag.                                             *)
THEOREM FramesAreReleasedWhole == Spec => []ReleasedWhole
<1>1. IInv => ReleasedWhole  BY DEF IInv
<1>2. QED  BY <1>1, TagAppendInvariant, PTL
=============================================================================
