----------------------------- MODULE SessionProofs -----------------------------
(***************************************************************************)
(* The session protocol, for every number of clients, commands, depth of   *)
(* paths and length of listings: the shell and its thread never part, and  *)
(* the prompt shows the thread's path.                                     *)
(***************************************************************************)
EXTENDS Session, SequenceTheorems, TLAPS

-----------------------------------------------------------------------------
(* Lemmas about the messages *)

LEMMA FieldIs ==
    ASSUME NEW t, NEW n
    PROVE  /\ Field(t, n).type = t /\ Field(t, n).n = n
           /\ t \in Words /\ n \in Nat => Field(t, n) \in Fields
BY DEF Field, Fields

\* The shell sends what the thread takes.
LEMMA ArgsAgree ==
    ASSUME NEW k \in Kinds
    PROVE  /\ ArgsSent(k) = ArgsTaken(k) /\ ArgsSent(k) \in Seq({"str", "u64"})
           /\ Len(ArgsSent(k)) \in 0 .. 3
<1>1. CASE k \in {"ls", "format"}
  BY <1>1 DEF ArgsSent, ArgsTaken
<1>2. CASE k \in {"cd", "mk", "cat"}
  BY <1>2 DEF ArgsSent, ArgsTaken
<1>3. CASE k = "w"
  BY <1>3 DEF ArgsSent, ArgsTaken
<1>4. CASE k = "i"
  BY <1>4 DEF ArgsSent, ArgsTaken
<1>5. CASE k = "d"
  BY <1>5 DEF ArgsSent, ArgsTaken
<1> QED BY <1>1, <1>2, <1>3, <1>4, <1>5 DEF Kinds

\* A request, place by place
LEMMA RequestIs ==
    ASSUME NEW k \in Kinds
    PROVE  /\ Request(k) \in Seq(Fields) /\ Len(Request(k)) = Len(ArgsTaken(k)) + 1
           /\ Request(k)[1].type = k
           /\ \A i \in 1 .. Len(ArgsTaken(k)) : Request(k)[i + 1].type = ArgsTaken(k)[i]
           /\ Len(ArgsTaken(k)) \in 0 .. 3
<1> DEFINE a == ArgsSent(k)
           q == [i \in 1 .. Len(a) |-> Field(a[i], 0)]
           h == <<Field(k, 0)>>
<1>1. a = ArgsTaken(k) /\ a \in Seq({"str", "u64"}) /\ Len(a) \in 0 .. 3
  BY ArgsAgree
<1>2. \A i \in 1 .. Len(a) : a[i] \in Words
  BY <1>1 DEF Words
<1>3. q \in Seq(Fields) /\ Len(q) = Len(a)
  BY <1>1, <1>2, FieldIs
<1>4. h \in Seq(Fields) /\ Len(h) = 1 /\ h[1] = Field(k, 0)
  BY FieldIs DEF Words
<1> HIDE DEF q, h, a
<1>5. /\ h \o q \in Seq(Fields) /\ Len(h \o q) = 1 + Len(q)
      /\ \A i \in 1 .. 1 + Len(q) : (h \o q)[i] = IF i <= 1 THEN h[i] ELSE q[i - 1]
  BY <1>3, <1>4, ConcatProperties
<1>6. Request(k) = h \o q
  BY DEF Request, h, q, a
<1>7. \A i \in 1 .. Len(a) : q[i] = Field(a[i], 0)
  BY DEF q
<1>8. Request(k)[1] = h[1]
  BY <1>1, <1>3, <1>5, <1>6
<1>9. ASSUME NEW i \in 1 .. Len(a) PROVE Request(k)[i + 1].type = a[i]
  <2>1. i + 1 \in 1 .. 1 + Len(q) /\ ~(i + 1 <= 1) /\ (i + 1) - 1 = i
    BY <1>1, <1>3
  <2>2. Request(k)[i + 1] = q[i]
    BY <1>5, <1>6, <2>1
  <2> QED BY <1>7, <2>2, FieldIs
<1> QED BY <1>1, <1>3, <1>4, <1>5, <1>6, <1>8, <1>9, FieldIs DEF a

\* The types of its fields are those that the thread takes.
LEMMA TypesOfRequest ==
    ASSUME NEW k \in Kinds
    PROVE  /\ <<k>> \o ArgsTaken(k) \in Seq(Words)
           /\ Len(<<k>> \o ArgsTaken(k)) = Len(Request(k))
           /\ \A i \in 1 .. Len(Request(k)) : Request(k)[i].type = (<<k>> \o ArgsTaken(k))[i]
           /\ (<<k>> \o ArgsTaken(k))[1] = k
<1> DEFINE a == ArgsTaken(k)
           h == <<k>>
<1>1. a \in Seq(Words) /\ Len(a) \in 0 .. 3
  <2>1. a \in Seq({"str", "u64"}) /\ Len(a) \in 0 .. 3
    BY ArgsAgree
  <2>2. \A i \in 1 .. Len(a) : a[i] \in Words
    BY <2>1 DEF Words
  <2> QED BY <2>1, <2>2
<1>2. h \in Seq(Words) /\ Len(h) = 1 /\ h[1] = k
  BY DEF Words
<1> HIDE DEF a, h
<1>3. /\ h \o a \in Seq(Words) /\ Len(h \o a) = 1 + Len(a)
      /\ \A i \in 1 .. 1 + Len(a) : (h \o a)[i] = IF i <= 1 THEN h[i] ELSE a[i - 1]
  <2>1. /\ h \o a \in Seq(Words) /\ Len(h \o a) = Len(h) + Len(a)
        /\ \A i \in 1 .. Len(h) + Len(a) : (h \o a)[i] = IF i <= Len(h) THEN h[i] ELSE a[i - Len(h)]
    BY <1>1, <1>2, ConcatProperties
  <2> QED BY <1>2, <2>1
<1>4. Len(Request(k)) = Len(a) + 1 /\ Request(k)[1].type = k
      /\ \A i \in 1 .. Len(a) : Request(k)[i + 1].type = a[i]
  BY RequestIs DEF a
<1>5. ASSUME NEW i \in 1 .. Len(Request(k)) PROVE Request(k)[i].type = (h \o a)[i]
  <2>1. CASE i = 1
    BY <1>1, <1>2, <1>3, <1>4, <2>1
  <2>2. CASE i # 1
    <3>1. i - 1 \in 1 .. Len(a) /\ (i - 1) + 1 = i /\ i \in 1 .. 1 + Len(a) /\ ~(i <= 1)
      BY <1>1, <1>4, <2>2
    <3>2. Request(k)[(i - 1) + 1].type = a[i - 1]
      BY <1>4, <3>1
    <3> QED BY <1>3, <3>1, <3>2
  <2> QED BY <2>1, <2>2
<1> QED BY <1>1, <1>2, <1>3, <1>4, <1>5 DEF a, h

LEMMA TypesAre ==
    ASSUME NEW fs \in Seq(Fields)
    PROVE  /\ Types(fs) \in Seq(Words) /\ Len(Types(fs)) = Len(fs) /\ Len(fs) \in Nat
           /\ \A i \in 1 .. Len(fs) : Types(fs)[i] = fs[i].type
<1>1. Len(fs) \in Nat /\ DOMAIN fs = 1 .. Len(fs) /\ \A i \in 1 .. Len(fs) : fs[i] \in Fields
  BY LenProperties, ElementOfSeq
<1>2. \A i \in 1 .. Len(fs) : fs[i].type \in Words
  BY <1>1 DEF Fields
<1>3. Types(fs) = [i \in 1 .. Len(fs) |-> fs[i].type]
  BY <1>1 DEF Types
<1> QED BY <1>1, <1>2, <1>3

\* The thread receives a request as what it is.
LEMMA RequestReceived ==
    ASSUME NEW k \in Kinds
    PROVE  /\ Receivable(Request(k), k) /\ Request(k) # << >>
           /\ \A j \in Kinds : Receivable(Request(k), j) => j = k
           /\ ~Receivable(<< >>, k)
<1>1. Request(k) \in Seq(Fields) /\ Len(Request(k)) \in Nat \ {0} /\ Request(k)[1].type = k
  BY RequestIs
<1>2. Types(Request(k)) = <<k>> \o ArgsTaken(k)
  <2>1. /\ Types(Request(k)) \in Seq(Words) /\ Len(Types(Request(k))) = Len(Request(k))
        /\ \A i \in 1 .. Len(Request(k)) : Types(Request(k))[i] = Request(k)[i].type
    BY <1>1, TypesAre
  <2>2. PICK t : t = <<k>> \o ArgsTaken(k)
    OBVIOUS
  <2>3. /\ t \in Seq(Words) /\ Len(t) = Len(Request(k))
        /\ \A i \in 1 .. Len(Request(k)) : Types(Request(k))[i] = t[i]
    BY <2>1, <2>2, TypesOfRequest
  <2>4. Types(Request(k)) = t
    BY <2>1, <2>3, SeqEqual
  <2> QED BY <2>2, <2>4
<1>3. Request(k) # << >>
  BY <1>1, EmptySeq
<1>4. ASSUME NEW j \in Kinds, Receivable(Request(k), j) PROVE j = k
  <2>1. Types(Request(k))[1] = k /\ Types(Request(k)) = <<j>> \o ArgsTaken(j)
    BY <1>1, <1>4, TypesAre DEF Receivable
  <2> QED BY <2>1, TypesOfRequest
<1>5. ~Receivable(<< >>, k)
  <2>1. << >> \in Seq(Fields)
    BY EmptySeq
  <2>2. Len(Types(<< >>)) = 0
    BY <2>1, TypesAre
  <2>3. Len(<<k>> \o ArgsTaken(k)) # 0
    BY <1>1, TypesOfRequest
  <2> QED BY <2>2, <2>3 DEF Receivable
<1> QED BY <1>2, <1>3, <1>4, <1>5 DEF Receivable

\* What a shell may leave of a request is one that the thread receives, or is cut short.
LEMMA BeginningIs ==
    ASSUME NEW fs \in Beginnings
    PROVE  /\ fs \in Seq(Fields)
           /\ CutShort(fs) \/ \E k \in Kinds : Receivable(fs, k)
<1>0. PICK k \in Kinds : \E n \in 0 .. Len(Request(k)) : fs = SubSeq(Request(k), 1, n)
  BY DEF Beginnings
<1>1. PICK n \in 0 .. Len(Request(k)) : fs = SubSeq(Request(k), 1, n)
  BY <1>0
<1> DEFINE r == Request(k)
           t == <<k>> \o ArgsTaken(k)
<1>2. /\ r \in Seq(Fields) /\ Len(r) = Len(ArgsTaken(k)) + 1 /\ Len(ArgsTaken(k)) \in 0 .. 3
      /\ t \in Seq(Words) /\ Len(t) = Len(r) /\ \A i \in 1 .. Len(r) : r[i].type = t[i]
  BY RequestIs, TypesOfRequest
<1> HIDE DEF r, t
<1>3. n \in 0 .. Len(r) /\ fs = SubSeq(r, 1, n)
  BY <1>1 DEF r
<1>4. /\ \A i \in 1 .. n : r[i] \in Fields
      /\ \A i \in 1 .. n : t[i] \in Words
  BY <1>2, <1>3, ElementOfSeq
<1>5. fs \in Seq(Fields) /\ Len(fs) = n /\ \A i \in 1 .. n : fs[i] = r[i]
  <2>1. /\ SubSeq(r, 1, n) \in Seq(Fields) /\ Len(SubSeq(r, 1, n)) = (IF 1 <= n THEN n - 1 + 1 ELSE 0)
        /\ \A i \in 1 .. n - 1 + 1 : SubSeq(r, 1, n)[i] = r[1 + i - 1]
    BY <1>2, <1>3, <1>4, SubSeqProperties
  <2> QED BY <1>2, <1>3, <2>1
<1>6. /\ SubSeq(t, 1, n) \in Seq(Words) /\ Len(SubSeq(t, 1, n)) = n
      /\ \A i \in 1 .. n : SubSeq(t, 1, n)[i] = t[i]
  <2>1. /\ SubSeq(t, 1, n) \in Seq(Words) /\ Len(SubSeq(t, 1, n)) = (IF 1 <= n THEN n - 1 + 1 ELSE 0)
        /\ \A i \in 1 .. n - 1 + 1 : SubSeq(t, 1, n)[i] = t[1 + i - 1]
    BY <1>2, <1>3, <1>4, SubSeqProperties
  <2> QED BY <1>2, <1>3, <2>1
<1>7. Types(fs) = SubSeq(t, 1, n)
  <2>1. Types(fs) \in Seq(Words) /\ Len(Types(fs)) = n /\ \A i \in 1 .. n : Types(fs)[i] = fs[i].type
    BY <1>5, TypesAre
  <2>2. \A i \in 1 .. n : fs[i].type = t[i]
    BY <1>2, <1>3, <1>5
  <2>3. \A i \in 1 .. n : Types(fs)[i] = SubSeq(t, 1, n)[i]
    BY <1>6, <2>1, <2>2
  <2> QED BY <1>6, <2>1, <2>3, SeqEqual
<1>8. CASE n <= Len(ArgsTaken(k))
  BY <1>5, <1>7, <1>8 DEF CutShort, t
<1>9. CASE n = Len(r)
  <2>1. fs = r
    BY <1>2, <1>5, <1>9, SeqEqual
  <2> QED BY <1>5, <2>1, RequestReceived DEF r
<1> QED BY <1>2, <1>3, <1>5, <1>8, <1>9

\* A whole request, and nothing of one, are beginnings of it.
LEMMA Begun ==
    ASSUME NEW k \in Kinds
    PROVE  Request(k) \in Beginnings /\ << >> \in Beginnings
<1>1. Request(k) \in Seq(Fields) /\ Len(Request(k)) \in Nat
  BY RequestIs
<1>2. SubSeq(Request(k), 1, Len(Request(k))) = Request(k)
  BY <1>1, SubSeqFull
<1>3. SubSeq(Request(k), 1, 0) = << >>
  BY <1>1, SubSeqEmpty
<1>4. Len(Request(k)) \in 0 .. Len(Request(k)) /\ 0 \in 0 .. Len(Request(k))
  BY <1>1
<1>5. \E n \in 0 .. Len(Request(k)) : Request(k) = SubSeq(Request(k), 1, n)
  BY <1>2, <1>4
<1>6. \E n \in 0 .. Len(Request(k)) : << >> = SubSeq(Request(k), 1, n)
  BY <1>3, <1>4
<1> QED BY <1>5, <1>6 DEF Beginnings

\* What follows an OK, place by place
LEMMA FollowsAre ==
    ASSUME NEW k \in Kinds, NEW n \in Nat
    PROVE  /\ Follows(k, n) \in Seq(Fields)
           /\ Len(Follows(k, n)) = (IF k \in {"cd", "cat"} THEN 1 ELSE IF k = "ls" THEN 1 + n ELSE 0)
           /\ k \in {"cd", "cat", "ls"} => Follows(k, n)[1].n = n
           /\ \A i \in 1 .. Len(Follows(k, n)) :
                 Follows(k, n)[i].type = (IF k = "ls" /\ i = 1 THEN "u32" ELSE "str")
<1>0. Field("str", n) \in Fields /\ Field("u32", n) \in Fields /\ Field("str", 0) \in Fields
  BY FieldIs DEF Words
<1>1. CASE k \in {"cd", "cat"}
  <2>1. Follows(k, n) = <<Field("str", n)>>
    BY <1>1 DEF Follows
  <2>2. Field("str", n).type = "str" /\ Field("str", n).n = n
    BY FieldIs
  <2> QED BY <1>0, <1>1, <2>1, <2>2
<1>2. CASE k = "ls"
  <2> DEFINE h == <<Field("u32", n)>>
             q == [i \in 1 .. n |-> Field("str", 0)]
  <2>1. Follows(k, n) = h \o q
    BY <1>2 DEF Follows
  <2>2. h \in Seq(Fields) /\ Len(h) = 1 /\ h[1] = Field("u32", n)
    BY <1>0
  <2>3. q \in Seq(Fields) /\ Len(q) = n /\ \A i \in 1 .. n : q[i] = Field("str", 0)
    BY <1>0
  <2> HIDE DEF h, q
  <2>4. /\ h \o q \in Seq(Fields) /\ Len(h \o q) = Len(h) + Len(q)
        /\ \A i \in 1 .. Len(h) + Len(q) : (h \o q)[i] = IF i <= Len(h) THEN h[i] ELSE q[i - Len(h)]
    BY <2>2, <2>3, ConcatProperties
  <2>5. (h \o q)[1] = Field("u32", n)
    BY <2>2, <2>3, <2>4
  <2>6. ASSUME NEW i \in 2 .. n + 1 PROVE (h \o q)[i] = Field("str", 0)
    <3>1. i \in 1 .. 1 + n /\ ~(i <= 1) /\ i - 1 \in 1 .. n
      OBVIOUS
    <3> QED BY <2>2, <2>3, <2>4, <3>1
  <2>7. Field("u32", n).type = "u32" /\ Field("u32", n).n = n /\ Field("str", 0).type = "str"
    BY FieldIs
  <2>8. PICK fs : fs = Follows(k, n)
    OBVIOUS
  <2>9. fs \in Seq(Fields) /\ Len(fs) = 1 + n /\ fs[1] = Field("u32", n)
        /\ \A i \in 2 .. n + 1 : fs[i] = Field("str", 0)
    BY <2>1, <2>2, <2>3, <2>4, <2>5, <2>6, <2>8
  <2>10. \A i \in 1 .. Len(fs) : fs[i].type = (IF i = 1 THEN "u32" ELSE "str")
    BY <2>7, <2>9
  <2> QED BY <1>2, <2>7, <2>8, <2>9, <2>10
<1>3. CASE k \notin {"cd", "cat", "ls"}
  <2>1. Follows(k, n) = << >>
    BY <1>3 DEF Follows
  <2> QED BY <1>3, <2>1
<1> QED BY <1>1, <1>2, <1>3

\* The shell takes an answer to its last field, and finds in it what was sent.
LEMMA AnswerIs ==
    ASSUME NEW k \in Kinds, NEW r \in {"ok", "fail"}, NEW n \in Nat
    PROVE  /\ Answer(k, r, n) \in Seq(Fields) /\ Answer(k, r, n) # << >>
           /\ Answer(k, r, n)[1].type = r
           /\ k = "cd" /\ r = "ok" => Answer(k, r, n)[2].n = n
           /\ Understood(Answer(k, r, n), k)
<1> DEFINE h == <<Field(r, 0)>>
           q == IF r = "ok" THEN Follows(k, n) ELSE << >>
<1>1. h \in Seq(Fields) /\ Len(h) = 1 /\ h[1].type = r
  BY FieldIs DEF Words
<1>2. q \in Seq(Fields) /\ Len(q) \in Nat
  BY FollowsAre, EmptySeq, LenProperties
<1>3. r = "ok" => q = Follows(k, n)
  OBVIOUS
<1>4. r = "fail" => q = << >>
  OBVIOUS
<1>5. PICK fs : fs = Answer(k, r, n)
  OBVIOUS
<1>6. fs = h \o q
  BY <1>5 DEF Answer
<1> HIDE DEF h, q
<1>7. /\ fs \in Seq(Fields) /\ Len(fs) = Len(h) + Len(q)
      /\ \A i \in 1 .. Len(h) + Len(q) : fs[i] = IF i <= Len(h) THEN h[i] ELSE q[i - Len(h)]
  BY <1>1, <1>2, <1>6, ConcatProperties
<1>8. fs[1].type = r /\ Len(fs) = 1 + Len(q) /\ fs # << >>
  <2>1. fs[1] = h[1] /\ Len(fs) # 0
    BY <1>1, <1>2, <1>7
  <2> QED BY <1>1, <1>7, <2>1, EmptySeq
<1>9. ASSUME NEW i \in 2 .. Len(fs) PROVE fs[i] = q[i - 1] /\ i - 1 \in 1 .. Len(q)
  <2>1. i \in 1 .. Len(h) + Len(q) /\ ~(i <= Len(h)) /\ i - Len(h) = i - 1 /\ i - 1 \in 1 .. Len(q)
    BY <1>1, <1>2, <1>8
  <2> QED BY <1>7, <2>1
<1>10. CASE r = "fail"
  <2>1. Len(fs) = 1
    BY <1>4, <1>8, <1>10
  <2>2. /\ Types(fs) \in Seq(Words) /\ Len(Types(fs)) = Len(fs)
        /\ \A i \in 1 .. Len(fs) : Types(fs)[i] = fs[i].type
    BY <1>7, TypesAre
  <2>3. <<"fail">> \in Seq(Words) /\ Len(<<"fail">>) = 1 /\ <<"fail">>[1] = "fail"
    BY DEF Words
  <2>4. Types(fs) = <<"fail">>
    <3>1. PICK w : w = <<"fail">>
      OBVIOUS
    <3>2. w \in Seq(Words) /\ Len(w) = 1 /\ w[1] = "fail"
      BY <2>3, <3>1
    <3>3. \A i \in 1 .. 1 : Types(fs)[i] = w[i]
      BY <1>8, <1>10, <2>1, <2>2, <3>2
    <3>4. Types(fs) = w
      BY <2>1, <2>2, <3>2, <3>3, SeqEqual
    <3> QED BY <3>1, <3>4
  <2> QED BY <1>5, <1>7, <1>8, <1>10, <2>4 DEF Understood
<1>11. CASE r = "ok"
  <2>1. /\ q = Follows(k, n)
        /\ Len(q) = (IF k \in {"cd", "cat"} THEN 1 ELSE IF k = "ls" THEN 1 + n ELSE 0)
        /\ k \in {"cd", "cat", "ls"} => q[1].n = n
        /\ \A i \in 1 .. Len(q) : q[i].type = (IF k = "ls" /\ i = 1 THEN "u32" ELSE "str")
    BY <1>3, <1>11, FollowsAre
  <2>2. \A i \in 2 .. Len(fs) : fs[i].type = (IF k = "ls" /\ i = 2 THEN "u32" ELSE "str")
    <3> SUFFICES ASSUME NEW i \in 2 .. Len(fs)
                 PROVE  fs[i].type = (IF k = "ls" /\ i = 2 THEN "u32" ELSE "str")
      OBVIOUS
    <3>1. fs[i] = q[i - 1] /\ i - 1 \in 1 .. Len(q)
      BY <1>9
    <3>2. i - 1 = 1 <=> i = 2
      BY <1>2, <1>8
    <3>3. q[i - 1].type = (IF k = "ls" /\ i - 1 = 1 THEN "u32" ELSE "str")
      BY <2>1, <3>1
    <3> QED BY <3>1, <3>2, <3>3
  <2>3. k \in {"cd", "cat", "ls"} => fs[2].n = n
    <3> SUFFICES ASSUME k \in {"cd", "cat", "ls"} PROVE fs[2].n = n
      OBVIOUS
    <3>1. Len(q) >= 1 /\ 2 \in 2 .. Len(fs)
      BY <1>8, <2>1
    <3>2. fs[2] = q[2 - 1]
      BY <1>9, <3>1
    <3> QED BY <2>1, <3>2
  <2>4. IF Len(fs) = 1 THEN Expects(k, Field("str", 0)) = 0 ELSE Len(fs) - 1 = Expects(k, fs[2])
    <3>1. CASE k \in {"cd", "cat"}
      BY <1>8, <2>1, <3>1 DEF Expects
    <3>2. CASE k = "ls"
      <4>1. Len(fs) = 2 + n /\ fs[2].n = n
        BY <1>8, <2>1, <2>3, <3>2
      <4> QED BY <3>2, <4>1 DEF Expects
    <3>3. CASE k \notin {"cd", "cat", "ls"}
      BY <1>8, <2>1, <3>3 DEF Expects
    <3> QED BY <3>1, <3>2, <3>3
  <2>5. Understood(fs, k)
    BY <1>8, <1>11, <2>2, <2>4 DEF Understood, IsOk, InOrder, Wanted
  <2> QED BY <1>5, <1>7, <1>8, <1>11, <2>3, <2>5
<1> QED BY <1>10, <1>11

\* An answer of which a part is still to come is not taken for a whole one.
LEMMA PartIsNoWhole ==
    ASSUME NEW fs \in Seq(Fields), NEW k
    PROVE  /\ HeardInPart(fs, k) => ~Understood(fs, k) /\ fs # << >>
           /\ ~Understood(<< >>, k)
<1>1. ~Understood(<< >>, k)
  <2>1. << >> \in Seq(Fields)
    BY EmptySeq
  <2>2. Len(Types(<< >>)) = 0
    BY <2>1, TypesAre
  <2> QED BY <2>2 DEF Understood, IsOk
<1>2. ASSUME HeardInPart(fs, k) PROVE ~Understood(fs, k) /\ fs # << >>
  <2>1. fs # << >> /\ fs[1].type = "ok" /\ Len(fs) - 1 < Wanted(fs, k)
    BY <1>2 DEF HeardInPart, IsOk
  <2>2. Len(fs) \in Nat \ {0}
    BY <2>1, EmptySeq, LenProperties
  <2>3. Types(fs)[1] = "ok"
    BY <2>1, <2>2, TypesAre
  <2>4. Types(fs) # <<"fail">>
    BY <2>3
  <2>5. ~(Len(fs) - 1 = Wanted(fs, k))
    BY <2>1, <2>2
  <2> QED BY <2>1, <2>4, <2>5 DEF Understood
<1> QED BY <1>1, <1>2

\* What a thread that ends has sent of its answer is nothing, or the whole of it, or a
\* part behind which the shell waits for more.
LEMMA PartIs ==
    ASSUME NEW k \in Kinds, NEW r \in {"ok", "fail"}, NEW n \in Nat,
           NEW i \in 0 .. Len(Answer(k, r, n))
    PROVE  LET fs == SubSeq(Answer(k, r, n), 1, i)
           IN  /\ fs \in Seq(Fields)
               /\ fs = << >> \/ fs = Answer(k, r, n) \/ HeardInPart(fs, k)
<1>1. PICK a : a = Answer(k, r, n)
  OBVIOUS
<1>2. PICK fs : fs = SubSeq(a, 1, i)
  OBVIOUS
<1>3. a \in Seq(Fields) /\ a[1].type = r /\ Understood(a, k) /\ Len(a) \in Nat /\ i \in 0 .. Len(a)
  BY <1>1, AnswerIs, LenProperties
<1>4. \A j \in 1 .. i : a[j] \in Fields
  BY <1>3, ElementOfSeq
<1>5. fs \in Seq(Fields) /\ Len(fs) = i /\ \A j \in 1 .. i : fs[j] = a[j]
  <2>1. /\ SubSeq(a, 1, i) \in Seq(Fields) /\ Len(SubSeq(a, 1, i)) = (IF 1 <= i THEN i - 1 + 1 ELSE 0)
        /\ \A j \in 1 .. i - 1 + 1 : SubSeq(a, 1, i)[j] = a[1 + j - 1]
    BY <1>3, <1>4, SubSeqProperties
  <2> QED BY <1>2, <1>3, <2>1
<1>6. CASE i = 0
  BY <1>1, <1>2, <1>5, <1>6, EmptySeq
<1>7. CASE i = Len(a)
  <2>1. fs = a
    BY <1>3, <1>5, <1>7, SeqEqual
  <2> QED BY <1>1, <1>2, <1>5, <2>1
<1>8. CASE i # 0 /\ i # Len(a)
  <2>1. i \in 1 .. Len(a) - 1 /\ Len(a) >= 2
    BY <1>3, <1>8
  <2>2. Types(a) # <<"fail">>
    <3>1. Len(Types(a)) # 1
      <4>1. Len(Types(a)) = Len(a)
        BY <1>3, TypesAre
      <4> QED BY <1>3, <2>1, <4>1
    <3>2. PICK w : w = <<"fail">>
      OBVIOUS
    <3>3. Len(w) = 1
      BY <3>2
    <3>4. Types(a) # w
      BY <3>1, <3>3
    <3> QED BY <3>2, <3>4
  <2>3. a[1].type = "ok" /\ InOrder(a, k) /\ Len(a) - 1 = Wanted(a, k)
    BY <1>3, <2>2 DEF Understood, IsOk
  <2>4. IsOk(fs)
    <3>1. fs # << >>
      BY <1>5, <2>1, EmptySeq
    <3>2. fs[1] = a[1]
      BY <1>5, <2>1
    <3> QED BY <2>3, <3>1, <3>2 DEF IsOk
  <2>5. InOrder(fs, k)
    <3>1. ASSUME NEW j \in 2 .. i PROVE fs[j] = a[j] /\ j \in 2 .. Len(a)
      BY <1>3, <1>5, <2>1
    <3> QED BY <1>5, <2>3, <3>1 DEF InOrder
  <2>6. Len(fs) - 1 < Wanted(fs, k)
    <3>1. Wanted(a, k) = Expects(k, a[2])
      BY <2>1 DEF Wanted
    <3>2. CASE i = 1
      <4>1. Wanted(fs, k) = Expects(k, Field("str", 0))
        BY <1>5, <3>2 DEF Wanted
      <4>2. Expects(k, a[2]) >= 1
        BY <2>1, <2>3, <3>1
      <4>3. k \in {"cd", "cat", "ls"}
        BY <4>2 DEF Expects
      <4>4. Expects(k, Field("str", 0)) = 1
        BY <4>3, FieldIs DEF Expects
      <4> QED BY <1>5, <3>2, <4>1, <4>4
    <3>3. CASE i # 1
      <4>1. fs[2] = a[2] /\ Len(fs) # 1
        BY <1>5, <2>1, <3>3
      <4>2. Wanted(fs, k) = Len(a) - 1
        BY <2>3, <3>1, <4>1 DEF Wanted
      <4> QED BY <1>3, <1>5, <2>1, <4>2
    <3> QED BY <3>2, <3>3
  <2> QED BY <1>2, <1>1, <1>5, <2>4, <2>5, <2>6 DEF HeardInPart
<1> QED BY <1>3, <1>6, <1>7, <1>8

-----------------------------------------------------------------------------
(* One client at a time *)

\* What the invariant says of one client
ClientOK(c) ==
    /\ shell[c] \in {"off", "hello", "ready", "waiting"}
    /\ asked[c] \in Kinds \cup {"none"}
    /\ prompt[c] \in 0 .. MaxPath
    /\ toServer[c] \in Seq(Fields) /\ toShell[c] \in Seq(Fields)
    /\ wire[c] \in {"none", "open", "closed", "reset", "hungup"}
    /\ thread[c] \in {"none", "login", "idle", "serving", "inside", "ok", "fail"}
    /\ req[c] \in Kinds \cup {"none"}
    /\ left[c] \in 0 .. 3
    /\ path[c] \in 0 .. MaxPath
    /\ lock = c <=> thread[c] = "inside"
    /\ asked[c] # "none" <=> shell[c] = "waiting"
    /\ req[c] # "none" <=> thread[c] \in {"serving", "inside", "ok", "fail"}
    /\ EndsOK(c) /\ TurnOK(c) /\ LeftOK(c)

\* The variables that have a place for each client do.
Places ==
    /\ shell = [d \in Clients |-> shell[d]] /\ asked = [d \in Clients |-> asked[d]]
    /\ prompt = [d \in Clients |-> prompt[d]] /\ toServer = [d \in Clients |-> toServer[d]]
    /\ toShell = [d \in Clients |-> toShell[d]] /\ wire = [d \in Clients |-> wire[d]]
    /\ thread = [d \in Clients |-> thread[d]] /\ req = [d \in Clients |-> req[d]]
    /\ left = [d \in Clients |-> left[d]] /\ path = [d \in Clients |-> path[d]]

SharedOK == /\ lock \in Clients \cup {Nobody}
            /\ disk \in {"up", "lost"} /\ process \in {"up", "closing", "ended"}

LEMMA InvByClient == SessionInv <=> Places /\ SharedOK /\ \A c \in Clients : ClientOK(c)
<1>1. ASSUME SessionInv PROVE Places /\ SharedOK /\ \A c \in Clients : ClientOK(c)
  BY <1>1 DEF SessionInv, TypeOK, TalkOK, ClientOK, Places, SharedOK
<1>2. ASSUME Places, SharedOK, \A c \in Clients : ClientOK(c) PROVE SessionInv
  <2>1. TalkOK
    BY <1>2 DEF TalkOK, ClientOK
  <2>2. TypeOK
    BY <1>2 DEF TypeOK, ClientOK, Places, SharedOK
  <2> QED BY <2>1, <2>2 DEF SessionInv
<1> QED BY <1>1, <1>2

LEMMA InvByClientNext == Places' /\ SharedOK' /\ (\A c \in Clients : ClientOK(c)') => SessionInv'
<1> SUFFICES ASSUME Places', SharedOK', \A c \in Clients : ClientOK(c)' PROVE SessionInv'
  OBVIOUS
<1>1. TalkOK'
  BY DEF TalkOK, ClientOK
<1>2. TypeOK'
  BY DEF TypeOK, ClientOK, Places, SharedOK
<1> QED BY <1>1, <1>2 DEF SessionInv

\* A step of one client and its thread: nothing of the others' has changed.
Apart(c) ==
    /\ Places'
    /\ \A d \in Clients \ {c} :
          /\ shell'[d] = shell[d] /\ asked'[d] = asked[d] /\ prompt'[d] = prompt[d]
          /\ toServer'[d] = toServer[d] /\ toShell'[d] = toShell[d] /\ wire'[d] = wire[d]
          /\ thread'[d] = thread[d] /\ req'[d] = req[d] /\ left'[d] = left[d] /\ path'[d] = path[d]
          /\ lock' = d <=> lock = d

LEMMA OthersStay ==
    ASSUME SessionInv, NEW c \in Clients, Apart(c), SharedOK', ClientOK(c)'
    PROVE  SessionInv'
<1>1. ASSUME NEW d \in Clients \ {c} PROVE ClientOK(d)'
  <2>1. ClientOK(d)
    BY InvByClient
  <2>2. /\ shell'[d] = shell[d] /\ asked'[d] = asked[d] /\ prompt'[d] = prompt[d]
        /\ toServer'[d] = toServer[d] /\ toShell'[d] = toShell[d] /\ wire'[d] = wire[d]
        /\ thread'[d] = thread[d] /\ req'[d] = req[d] /\ left'[d] = left[d] /\ path'[d] = path[d]
        /\ lock' = d <=> lock = d
    BY DEF Apart
  <2>3. LeftOK(d)'
    BY <2>1, <2>2 DEF ClientOK, LeftOK
  <2>5. EndsOK(d)'
    BY <2>1, <2>2 DEF ClientOK, EndsOK
  <2>4. TurnOK(d)'
    BY <2>1, <2>2 DEF ClientOK, TurnOK
  <2> QED BY <2>1, <2>2, <2>3, <2>4, <2>5 DEF ClientOK
<1>2. \A d \in Clients : ClientOK(d)'
  BY <1>1
<1>3. Places'
  BY DEF Apart
<1> QED BY <1>2, <1>3, InvByClientNext

-----------------------------------------------------------------------------
(* The steps of the shell *)

\* The path, the entries' number or nothing: what an answer says is a number.
LEMMA LengthsAre == \A k \in Kinds : Lengths(k) \subseteq Nat /\ Lengths("cd") = 0 .. MaxPath
BY LengthAssumption DEF Lengths

LEMMA UsernameIs ==
    /\ Username \in Seq(Fields) /\ Username # << >> /\ Tail(Username) = << >>
    /\ Username \o << >> = Username
    /\ \A fs \in Seq(Fields) : /\ Username \o fs \in Seq(Fields) /\ Username \o fs # << >>
                               /\ Tail(Username \o fs) = fs
<1>1. Field("str", 0) \in Fields
  BY FieldIs DEF Words
<1>2. PICK f : f = Field("str", 0)
  OBVIOUS
<1>3. Username = <<f>> /\ f \in Fields
  BY <1>1, <1>2 DEF Username
<1>4. /\ <<f>> \in Seq(Fields) /\ <<f>> # << >> /\ Tail(<<f>>) = << >>
      /\ <<f>> \o << >> = <<f>>
  BY <1>3, ConcatEmptySeq
<1>5. ASSUME NEW fs \in Seq(Fields)
      PROVE  <<f>> \o fs \in Seq(Fields) /\ <<f>> \o fs # << >> /\ Tail(<<f>> \o fs) = fs
  <2>1. PICK h : h = <<f>>
    OBVIOUS
  <2>2. h \in Seq(Fields) /\ Len(h) = 1 /\ Len(fs) \in Nat
    BY <1>3, <2>1, LenProperties
  <2>3. /\ h \o fs \in Seq(Fields) /\ Len(h \o fs) = 1 + Len(fs)
        /\ \A i \in 1 .. 1 + Len(fs) : (h \o fs)[i] = IF i <= 1 THEN h[i] ELSE fs[i - 1]
    <3>1. /\ h \o fs \in Seq(Fields) /\ Len(h \o fs) = Len(h) + Len(fs)
          /\ \A i \in 1 .. Len(h) + Len(fs) : (h \o fs)[i] = IF i <= Len(h) THEN h[i] ELSE fs[i - Len(h)]
      BY <2>2, ConcatProperties
    <3> QED BY <2>2, <3>1
  <2>4. h \o fs # << >>
    BY <2>2, <2>3, EmptySeq
  <2>5. /\ Tail(h \o fs) \in Seq(Fields) /\ Len(Tail(h \o fs)) = Len(fs)
        /\ \A i \in 1 .. Len(fs) : Tail(h \o fs)[i] = (h \o fs)[i + 1]
    BY <2>2, <2>3, <2>4, HeadTailProperties
  <2>6. ASSUME NEW i \in 1 .. Len(fs) PROVE Tail(h \o fs)[i] = fs[i]
    <3>1. i + 1 \in 1 .. 1 + Len(fs) /\ ~(i + 1 <= 1) /\ (i + 1) - 1 = i
      BY <2>2
    <3> QED BY <2>3, <2>5, <3>1
  <2>7. Tail(h \o fs) = fs
    BY <2>5, <2>6, SeqEqual
  <2> QED BY <2>1, <2>3, <2>4, <2>7
<1> QED BY <1>3, <1>4, <1>5

LEMMA StartStep ==
    ASSUME SessionInv, NEW c \in Clients, Start(c)
    PROVE  SessionInv'
<1>1. Places /\ SharedOK /\ ClientOK(c)
  BY InvByClient
<1>2. /\ shell[c] = "off" /\ wire[c] = "none"
      /\ UNCHANGED <<asked, prompt, toShell, thread, req, left, path, lock, disk, process>>
  BY DEF Start, threadVars
<1>3. /\ shell' = [shell EXCEPT ![c] = IF c \in Greeters THEN "ready" ELSE "hello"]
      /\ toServer' = [toServer EXCEPT ![c] = IF c \in Greeters THEN Username ELSE << >>]
      /\ wire' = [wire EXCEPT ![c] = "open"]
  BY DEF Start, Username
<1>4. /\ wire'[c] = "open"
      /\ \/ shell'[c] = "ready" /\ toServer'[c] = Username
         \/ shell'[c] = "hello" /\ toServer'[c] = << >>
  BY <1>1, <1>3 DEF Places
<1>5. Apart(c) /\ SharedOK'
  BY <1>1, <1>2, <1>3 DEF Apart, Places, SharedOK
<1>6. thread[c] = "none" /\ path[c] = 0 /\ prompt[c] = 0 /\ toShell[c] = << >>
  BY <1>1, <1>2 DEF ClientOK, EndsOK
<1>7. EndsOK(c)' /\ TurnOK(c)' /\ LeftOK(c)'
  BY <1>2, <1>4, <1>6 DEF EndsOK, TurnOK, LeftOK
<1>8. ClientOK(c)'
  BY <1>1, <1>2, <1>4, <1>7, UsernameIs, EmptySeq DEF ClientOK
<1> QED BY <1>5, <1>8, OthersStay

LEMMA AskStep ==
    ASSUME SessionInv, NEW c \in Clients, Ask(c)
    PROVE  SessionInv'
<1>1. Places /\ SharedOK /\ ClientOK(c)
  BY InvByClient
<1>2. PICK k \in Commands[c] :
          /\ asked' = [asked EXCEPT ![c] = k]
          /\ toServer' = IF wire[c] = "open" THEN [toServer EXCEPT ![c] = @ \o Request(k)] ELSE toServer
  BY DEF Ask
<1>3. /\ shell[c] = "ready" /\ shell' = [shell EXCEPT ![c] = "waiting"]
      /\ UNCHANGED <<prompt, toShell, wire, thread, req, left, path, lock, disk, process>>
  BY DEF Ask, threadVars
<1>4. /\ shell'[c] = "waiting" /\ asked'[c] = k /\ k \in Kinds /\ k # "none"
      /\ wire[c] # "open" => toServer'[c] = toServer[c]
      /\ wire[c] = "open" => toServer'[c] = toServer[c] \o Request(k)
  BY <1>1, <1>2, <1>3, CommandsAssumption DEF Places, Kinds
<1>5. Apart(c) /\ SharedOK'
  BY <1>1, <1>2, <1>3 DEF Apart, Places, SharedOK
<1>6. toShell[c] = << >> /\ wire[c] \in {"open", "hungup"}
  BY <1>1, <1>3 DEF ClientOK, EndsOK
<1>7. EndsOK(c)'
  BY <1>1, <1>3, <1>4, <1>6 DEF ClientOK, EndsOK
<1>8. wire[c] = "open" => /\ thread[c] \in {"none", "login"} => toServer[c] = Username
                          /\ thread[c] = "idle" => toServer[c] = << >> /\ prompt[c] = path[c]
                          /\ thread[c] \in {"none", "login", "idle"}
                          /\ thread[c] \in {"none", "login"} => prompt[c] = 0
  BY <1>1, <1>3 DEF ClientOK, TurnOK
<1>9. Request(k) \in Seq(Fields) /\ << >> \o Request(k) = Request(k)
  BY <1>4, RequestIs, ConcatEmptySeq
<1>10. TurnOK(c)'
  BY <1>3, <1>4, <1>6, <1>8, <1>9 DEF TurnOK
<1>11. LeftOK(c)'
  <2>1. wire'[c] # "closed"
    BY <1>3, <1>6
  <2> QED BY <2>1 DEF LeftOK
<1>12. toServer'[c] \in Seq(Fields)
  BY <1>1, <1>4, <1>9, ConcatProperties DEF ClientOK
<1>13. ClientOK(c)'
  BY <1>1, <1>3, <1>4, <1>7, <1>10, <1>11, <1>12 DEF ClientOK
<1> QED BY <1>5, <1>13, OthersStay

LEMMA HearStep ==
    ASSUME SessionInv, NEW c \in Clients, Hear(c)
    PROVE  SessionInv'
<1>1. Places /\ SharedOK /\ ClientOK(c)
  BY InvByClient
<1>2. /\ shell[c] \in {"hello", "waiting"} /\ shell' = [shell EXCEPT ![c] = "ready"]
      /\ asked' = [asked EXCEPT ![c] = "none"] /\ toShell' = [toShell EXCEPT ![c] = << >>]
      /\ prompt' = IF asked[c] = "cd" /\ toShell[c][1].type = "ok"
                   THEN [prompt EXCEPT ![c] = toShell[c][2].n] ELSE prompt
      /\ UNCHANGED <<toServer, wire, thread, req, left, path, lock, disk, process>>
      /\ Understood(toShell[c], asked[c])
  BY DEF Hear, threadVars
<1>3. shell'[c] = "ready" /\ asked'[c] = "none" /\ toShell'[c] = << >>
  BY <1>1, <1>2 DEF Places
<1>4. shell[c] = "waiting" /\ asked[c] \in Kinds /\ toShell[c] # << >>
  <2>1. toShell[c] # << >>
    BY <1>2, EmptySeq, PartIsNoWhole
  <2>2. shell[c] = "waiting"
    BY <1>1, <1>2, <2>1 DEF ClientOK, EndsOK
  <2> QED BY <1>1, <2>1, <2>2 DEF ClientOK
<1>5. PICK r \in {"ok", "fail"}, n \in Lengths(asked[c]) :
          /\ toShell[c] = Answer(asked[c], r, n)
          /\ wire[c] = "open" /\ thread[c] = "idle" =>
                (IF asked[c] = "cd" /\ r = "ok" THEN n ELSE prompt[c]) = path[c]
  <2>1. CASE wire[c] = "open" /\ thread[c] = "idle"
    <3>1. TurnOK(c)
      BY <1>1 DEF ClientOK
    <3> QED BY <1>4, <2>1, <3>1 DEF TurnOK
  <2>2. CASE ~(wire[c] = "open" /\ thread[c] = "idle")
    <3>1. EndsOK(c)
      BY <1>1 DEF ClientOK
    <3>2. ~HeardInPart(toShell[c], asked[c])
      BY <1>1, <1>2, PartIsNoWhole DEF ClientOK
    <3> QED BY <1>4, <2>2, <3>1, <3>2 DEF EndsOK
  <2> QED BY <2>1, <2>2
<1>6. prompt'[c] = (IF asked[c] = "cd" /\ r = "ok" THEN n ELSE prompt[c])
      /\ (asked[c] = "cd" => n \in 0 .. MaxPath)
  <2>1. n \in Nat /\ (asked[c] = "cd" => n \in 0 .. MaxPath)
    BY <1>4, <1>5, LengthsAre
  <2>2. toShell[c][1].type = r /\ (asked[c] = "cd" /\ r = "ok" => toShell[c][2].n = n)
    <3>1. PICK k : k = asked[c]
      OBVIOUS
    <3>2. k \in Kinds /\ toShell[c] = Answer(k, r, n)
      BY <1>4, <1>5, <3>1
    <3>3. Answer(k, r, n)[1].type = r /\ (k = "cd" /\ r = "ok" => Answer(k, r, n)[2].n = n)
      BY <2>1, <3>2, AnswerIs
    <3> QED BY <3>1, <3>2, <3>3
  <2> QED BY <1>1, <1>2, <2>1, <2>2 DEF Places
<1>7. Apart(c) /\ SharedOK'
  BY <1>1, <1>2 DEF Apart, Places, SharedOK
<1>8. wire[c] \in {"open", "hungup"}
  BY <1>1, <1>4 DEF ClientOK, EndsOK
<1>9. EndsOK(c)'
  BY <1>1, <1>2, <1>3, <1>8 DEF ClientOK, EndsOK
<1>10. wire[c] = "open" => thread[c] = "idle" /\ toServer[c] = << >>
  <2>1. TurnOK(c)
    BY <1>1 DEF ClientOK
  <2>2. thread[c] \in {"none", "login", "idle", "serving", "inside", "ok", "fail"}
    BY <1>1 DEF ClientOK
  <2> QED BY <1>4, <2>1, <2>2 DEF TurnOK
<1>11. TurnOK(c)' /\ LeftOK(c)'
  BY <1>2, <1>3, <1>5, <1>6, <1>8, <1>10 DEF TurnOK, LeftOK
<1>12. prompt'[c] \in 0 .. MaxPath
  BY <1>1, <1>6 DEF ClientOK
<1>13. ClientOK(c)'
  BY <1>1, <1>2, <1>3, <1>9, <1>11, <1>12, EmptySeq DEF ClientOK
<1> QED BY <1>7, <1>13, OthersStay

\* What a dying shell leaves on the connection
LEMMA DepartLeaves ==
    ASSUME SessionInv, NEW c \in Clients, Depart(c)
    PROVE  /\ \A d \in Clients \ {c} : toServer'[d] = toServer[d]
           /\ toServer' = [d \in Clients |-> toServer'[d]]
           /\ \/ toServer'[c] = toServer[c]
              \/ /\ shell[c] = "ready" /\ wire[c] = "open"
                 /\ \E fs \in Beginnings : toServer'[c] = toServer[c] \o fs
<1>1. Places
  BY InvByClient
<1>2. CASE ~(shell[c] = "ready" /\ wire[c] = "open")
  <2>1. toServer' = toServer
    BY <1>2 DEF Depart
  <2> QED BY <1>1, <2>1 DEF Places
<1>3. CASE shell[c] = "ready" /\ wire[c] = "open"
  <2>1. toServer' \in UNION {{[toServer EXCEPT ![c] = @ \o SubSeq(Request(k), 1, n)] :
                                 n \in 0 .. Len(ArgsSent(k))} : k \in Commands[c]}
    BY <1>3 DEF Depart
  <2>2. PICK k \in Commands[c] : \E n \in 0 .. Len(ArgsSent(k)) :
                 toServer' = [toServer EXCEPT ![c] = @ \o SubSeq(Request(k), 1, n)]
    BY <2>1
  <2>3. PICK n \in 0 .. Len(ArgsSent(k)) : toServer' = [toServer EXCEPT ![c] = @ \o SubSeq(Request(k), 1, n)]
    BY <2>2
  <2>4. k \in Kinds
    BY CommandsAssumption
  <2>5. n \in 0 .. Len(Request(k))
    BY <2>4, ArgsAgree, RequestIs
  <2>6. PICK fs : fs = SubSeq(Request(k), 1, n)
    OBVIOUS
  <2>7. fs \in Beginnings
    BY <2>4, <2>5, <2>6 DEF Beginnings
  <2>8. toServer' = [toServer EXCEPT ![c] = toServer[c] \o fs]
    BY <2>3, <2>6
  <2> QED BY <1>1, <1>3, <2>7, <2>8 DEF Places
<1> QED BY <1>2, <1>3

LEMMA DepartStep ==
    ASSUME SessionInv, NEW c \in Clients, Depart(c)
    PROVE  SessionInv'
<1>1. Places /\ SharedOK /\ ClientOK(c)
  BY InvByClient
<1>2. /\ shell[c] # "off" /\ shell' = [shell EXCEPT ![c] = "off"]
      /\ asked' = [asked EXCEPT ![c] = "none"] /\ toShell' = [toShell EXCEPT ![c] = << >>]
      /\ prompt' = [prompt EXCEPT ![c] = 0]
      /\ wire' = [wire EXCEPT ![c] = IF wire[c] = "hungup" THEN "none"
                                     ELSE IF toShell[c] = << >> THEN "closed" ELSE "reset"]
      /\ UNCHANGED <<thread, req, left, path, lock, disk, process>>
  BY DEF Depart, Gone, threadVars
<1>3. /\ shell'[c] = "off" /\ asked'[c] = "none" /\ toShell'[c] = << >> /\ prompt'[c] = 0
      /\ wire'[c] = IF wire[c] = "hungup" THEN "none" ELSE IF toShell[c] = << >> THEN "closed" ELSE "reset"
  BY <1>1, <1>2 DEF Places
<1>4. Apart(c) /\ SharedOK'
  BY <1>1, <1>2, DepartLeaves DEF Apart, Places, SharedOK
<1>5. wire[c] \in {"open", "hungup"} /\ (shell[c] # "waiting" => toShell[c] = << >>)
      /\ (thread[c] \in {"none", "login"} => path[c] = 0)
  BY <1>1, <1>2 DEF ClientOK, EndsOK
<1>6. CASE wire[c] = "hungup"
  <2>1. thread[c] = "none" /\ toServer[c] = << >> /\ toServer'[c] = toServer[c]
    BY <1>1, <1>6, DepartLeaves DEF ClientOK, EndsOK
  <2>2. EndsOK(c)' /\ TurnOK(c)' /\ LeftOK(c)'
    BY <1>2, <1>3, <1>5, <1>6, <2>1 DEF EndsOK, TurnOK, LeftOK
  <2>3. ClientOK(c)'
    BY <1>1, <1>2, <1>3, <1>6, <2>1, <2>2, EmptySeq, LengthAssumption DEF ClientOK
  <2> QED BY <1>4, <2>3, OthersStay
<1>7. CASE wire[c] = "open"
  <2>1. TurnOK(c) /\ thread[c] \in {"none", "login", "idle", "serving", "inside", "ok", "fail"}
    BY <1>1 DEF ClientOK
  <2>2. shell[c] = "waiting" => asked[c] \in Kinds
    BY <1>1 DEF ClientOK
  <2>3. << >> \in Beginnings
    <3>1. "ls" \in Kinds
      BY DEF Kinds
    <3> QED BY <3>1, Begun
  <2>4. CASE toShell[c] # << >>
    <3>1. thread[c] = "idle" /\ toServer[c] = << >> /\ toServer'[c] = toServer[c]
      BY <1>5, <1>7, <2>1, <2>4, DepartLeaves DEF TurnOK
    <3>2. EndsOK(c)' /\ TurnOK(c)' /\ LeftOK(c)'
      BY <1>2, <1>3, <1>7, <2>4, <3>1 DEF EndsOK, TurnOK, LeftOK
    <3>3. ClientOK(c)'
      BY <1>1, <1>2, <1>3, <1>7, <2>4, <3>1, <3>2, EmptySeq, LengthAssumption DEF ClientOK
    <3> QED BY <1>4, <3>3, OthersStay
  <2>5. CASE toShell[c] = << >>
    <3>1. wire'[c] = "closed"
      BY <1>3, <1>7, <2>5
    <3>2. /\ toServer'[c] \in Seq(Fields)
          /\ thread[c] \in {"none", "login"} =>
                toServer'[c] = << >> \/ \E fs \in Beginnings : toServer'[c] = Username \o fs
          /\ thread[c] = "idle" => toServer'[c] \in Beginnings
          /\ thread[c] \in {"serving", "inside", "ok", "fail"} => toServer'[c] = << >>
      <4>1. CASE shell[c] = "waiting"
        <5>1. Request(asked[c]) \in Beginnings /\ toServer'[c] = toServer[c] /\ Request(asked[c]) # << >>
          BY <2>2, <4>1, Begun, DepartLeaves, RequestReceived
        <5> QED BY <1>1, <1>7, <2>1, <2>3, <4>1, <5>1 DEF TurnOK, ClientOK
      <4>2. CASE shell[c] = "hello"
        <5>1. toServer'[c] = toServer[c]
          BY <4>2, DepartLeaves
        <5> QED BY <1>1, <1>7, <2>1, <4>2, <5>1 DEF TurnOK, ClientOK
      <4>3. CASE shell[c] = "ready"
        <5>1. PICK fs \in Beginnings : toServer'[c] = toServer[c] \o fs \/ (fs = << >> /\ toServer'[c] = toServer[c])
          BY <2>3, DepartLeaves
        <5>2. fs \in Seq(Fields) /\ << >> \o fs = fs
          BY BeginningIs, ConcatEmptySeq
        <5>3. \/ thread[c] \in {"none", "login"} /\ toServer[c] = Username
              \/ thread[c] = "idle" /\ toServer[c] = << >>
          BY <1>7, <2>1, <4>3 DEF TurnOK
        <5> QED BY <5>1, <5>2, <5>3, UsernameIs
      <4> QED BY <1>1, <1>2, <4>1, <4>2, <4>3 DEF ClientOK
    <3>3. EndsOK(c)' /\ TurnOK(c)'
      BY <1>2, <1>3, <1>5, <3>1 DEF EndsOK, TurnOK
    <3>4. LeftOK(c)'
      BY <1>2, <3>2 DEF LeftOK
    <3>5. ClientOK(c)'
      BY <1>1, <1>2, <1>3, <3>1, <3>2, <3>3, <3>4, EmptySeq, LengthAssumption DEF ClientOK
    <3> QED BY <1>4, <3>5, OthersStay
  <2> QED BY <2>4, <2>5
<1> QED BY <1>5, <1>6, <1>7

LEMMA SeeEndStep ==
    ASSUME SessionInv, NEW c \in Clients, SeeEnd(c)
    PROVE  SessionInv'
<1>1. Places /\ SharedOK /\ ClientOK(c)
  BY InvByClient
<1>2. /\ wire[c] = "hungup" /\ shell' = [shell EXCEPT ![c] = "off"]
      /\ asked' = [asked EXCEPT ![c] = "none"] /\ toShell' = [toShell EXCEPT ![c] = << >>]
      /\ prompt' = [prompt EXCEPT ![c] = 0] /\ wire' = [wire EXCEPT ![c] = "none"]
      /\ UNCHANGED <<toServer, thread, req, left, path, lock, disk, process>>
  BY DEF SeeEnd, Gone, threadVars
<1>3. shell'[c] = "off" /\ asked'[c] = "none" /\ toShell'[c] = << >> /\ prompt'[c] = 0 /\ wire'[c] = "none"
  BY <1>1, <1>2 DEF Places
<1>4. Apart(c) /\ SharedOK'
  BY <1>1, <1>2 DEF Apart, Places, SharedOK
<1>5. thread[c] = "none" /\ toServer[c] = << >> /\ path[c] = 0
  BY <1>1, <1>2 DEF ClientOK, EndsOK
<1>6. EndsOK(c)' /\ TurnOK(c)' /\ LeftOK(c)'
  BY <1>2, <1>3, <1>5 DEF EndsOK, TurnOK, LeftOK
<1>7. ClientOK(c)'
  BY <1>1, <1>2, <1>3, <1>6, EmptySeq, LengthAssumption DEF ClientOK
<1> QED BY <1>4, <1>7, OthersStay

-----------------------------------------------------------------------------
(* The steps of the thread *)

\* A thread that returns leaves a shell that sees the end, or nobody; an answer that was
\* sent before is still read.
LEMMA OverStep ==
    ASSUME SessionInv, NEW c \in Clients, thread[c] # "none", Over(c),
           UNCHANGED <<shell, asked, prompt>>, UNCHANGED <<disk, process>>,
           \/ thread[c] # "inside" /\ lock' = lock
           \/ thread[c] = "inside" /\ lock' = Nobody,
           \/ toShell' = toShell
           \/ /\ shell[c] = "waiting"
              /\ \E r \in {"ok", "fail"}, n \in Lengths(asked[c]) :
                    toShell' = [toShell EXCEPT ![c] = Answer(asked[c], r, n)]
    PROVE  SessionInv'
<1>1. Places /\ SharedOK /\ ClientOK(c)
  BY InvByClient
<1>2. /\ thread' = [thread EXCEPT ![c] = "none"] /\ req' = [req EXCEPT ![c] = "none"]
      /\ left' = [left EXCEPT ![c] = 0] /\ path' = [path EXCEPT ![c] = 0]
      /\ toServer' = [toServer EXCEPT ![c] = << >>]
      /\ wire' = [wire EXCEPT ![c] = IF wire[c] = "open" THEN "hungup" ELSE "none"]
  BY DEF Over, Goto
<1>3. /\ thread'[c] = "none" /\ req'[c] = "none" /\ left'[c] = 0 /\ path'[c] = 0 /\ toServer'[c] = << >>
      /\ wire'[c] = IF wire[c] = "open" THEN "hungup" ELSE "none"
  BY <1>1, <1>2 DEF Places
<1>4. lock = c <=> thread[c] = "inside"
  BY <1>1 DEF ClientOK
<1>5. lock' # c /\ \A d \in Clients \ {c} : lock' = d <=> lock = d
  BY <1>4, NobodyAssumption
<1>6. Places' /\ \A d \in Clients \ {c} : toShell'[d] = toShell[d]
  BY <1>1, <1>2 DEF Places
<1>7. Apart(c) /\ SharedOK'
  BY <1>1, <1>2, <1>5, <1>6 DEF Apart, Places, SharedOK
<1>8. wire[c] \in {"open", "closed", "reset"} /\ (shell[c] = "off" <=> wire[c] # "open")
      /\ (shell[c] # "waiting" => toShell[c] = << >>) /\ (shell[c] = "off" => prompt[c] = 0)
  BY <1>1 DEF ClientOK, EndsOK
<1>9. /\ toShell'[c] \in Seq(Fields)
      /\ shell[c] # "waiting" => toShell'[c] = << >>
      /\ toShell'[c] # << >> => \E r \in {"ok", "fail"}, n \in Lengths(asked[c]) : toShell'[c] = Answer(asked[c], r, n)
  <2>1. CASE toShell' = toShell
    BY <1>1, <2>1 DEF ClientOK, EndsOK
  <2>2. CASE toShell' # toShell
    <3>1. shell[c] = "waiting" /\ asked[c] \in Kinds
      BY <1>1, <2>2 DEF ClientOK
    <3>2. PICK r \in {"ok", "fail"}, n \in Lengths(asked[c]) :
                    toShell' = [toShell EXCEPT ![c] = Answer(asked[c], r, n)]
      BY <2>2
    <3>3. toShell'[c] = Answer(asked[c], r, n)
      BY <1>1, <3>2 DEF Places
    <3>4. Answer(asked[c], r, n) \in Seq(Fields)
      BY <3>1, AnswerIs, LengthsAre
    <3> QED BY <3>1, <3>3, <3>4
  <2> QED BY <2>1, <2>2
<1>10. EndsOK(c)'
  BY <1>3, <1>8, <1>9 DEF EndsOK
<1>11. TurnOK(c)' /\ LeftOK(c)'
  BY <1>3 DEF TurnOK, LeftOK
<1>12. ClientOK(c)'
  BY <1>1, <1>3, <1>5, <1>9, <1>10, <1>11, EmptySeq, LengthAssumption DEF ClientOK
<1> QED BY <1>7, <1>12, OthersStay

LEMMA AcceptStep ==
    ASSUME SessionInv, NEW c \in Clients, Accept(c)
    PROVE  SessionInv'
<1>1. Places /\ SharedOK /\ ClientOK(c)
  BY InvByClient
<1>2. /\ thread[c] = "none" /\ wire[c] \in {"open", "closed"} /\ thread' = [thread EXCEPT ![c] = "login"]
      /\ UNCHANGED <<shell, asked, prompt, toServer, toShell, wire, req, left, path, lock, disk, process>>
  BY DEF Accept, Goto, shellVars
<1>3. thread'[c] = "login"
  BY <1>1, <1>2 DEF Places
<1>4. Apart(c) /\ SharedOK'
  BY <1>1, <1>2 DEF Apart, Places, SharedOK
<1>5. EndsOK(c)'
  BY <1>1, <1>2, <1>3 DEF ClientOK, EndsOK
<1>6. TurnOK(c)' /\ LeftOK(c)'
  BY <1>1, <1>2, <1>3 DEF ClientOK, TurnOK, LeftOK
<1>7. ClientOK(c)'
  BY <1>1, <1>2, <1>3, <1>5, <1>6 DEF ClientOK
<1> QED BY <1>4, <1>7, OthersStay

LEMMA LoginStep ==
    ASSUME SessionInv, NEW c \in Clients, Login(c)
    PROVE  SessionInv'
<1>1. Places /\ SharedOK /\ ClientOK(c)
  BY InvByClient
<1>2. /\ thread[c] = "login" /\ toServer[c] # << >>
      /\ UNCHANGED <<shell, asked, prompt, toShell, lock, disk, process>>
  BY DEF Login, shellVars
<1>3. CASE process = "closing"
  <2>1. Over(c)
    BY <1>3 DEF Login
  <2> QED BY <1>2, <2>1, OverStep
<1>4. CASE process # "closing"
  <2>1. /\ thread' = [thread EXCEPT ![c] = "idle"] /\ toServer' = [toServer EXCEPT ![c] = Tail(toServer[c])]
        /\ UNCHANGED <<wire, req, left, path>>
    BY <1>4 DEF Login, Goto
  <2>2. thread'[c] = "idle" /\ toServer'[c] = Tail(toServer[c])
    BY <1>1, <2>1 DEF Places
  <2>3. Apart(c) /\ SharedOK'
    BY <1>1, <1>2, <2>1 DEF Apart, Places, SharedOK
  <2>4. EndsOK(c)'
    BY <1>1, <1>2, <2>1, <2>2 DEF ClientOK, EndsOK
  <2>5. path[c] = 0 /\ wire[c] \in {"open", "closed"}
        /\ (wire[c] = "open" => shell[c] \in {"hello", "ready", "waiting"})
    BY <1>1, <1>2 DEF ClientOK, EndsOK
  <2>6. CASE wire[c] = "open"
    <3>1. prompt[c] = 0 /\ toShell[c] = << >>
          /\ \/ shell[c] = "ready" /\ toServer[c] = Username
             \/ shell[c] = "waiting" /\ toServer[c] = Username \o Request(asked[c])
      <4>1. TurnOK(c)
        BY <1>1 DEF ClientOK
      <4> QED BY <1>2, <2>5, <2>6, <4>1 DEF TurnOK
    <3>2. shell[c] = "waiting" => asked[c] \in Kinds
      BY <1>1 DEF ClientOK
    <3>3. /\ shell[c] = "ready" => toServer'[c] = << >>
          /\ shell[c] = "waiting" => toServer'[c] = Request(asked[c]) /\ Request(asked[c]) \in Seq(Fields)
      BY <2>2, <3>1, <3>2, UsernameIs, RequestIs
    <3>4. TurnOK(c)' /\ LeftOK(c)'
      BY <1>2, <2>1, <2>2, <2>5, <2>6, <3>1, <3>3 DEF TurnOK, LeftOK
    <3>5. ClientOK(c)'
      BY <1>1, <1>2, <2>1, <2>2, <2>4, <3>1, <3>3, <3>4, EmptySeq DEF ClientOK
    <3> QED BY <2>3, <3>5, OthersStay
  <2>7. CASE wire[c] = "closed"
    <3>1. PICK fs \in Beginnings : toServer[c] = Username \o fs
      BY <1>1, <1>2, <2>7 DEF ClientOK, LeftOK
    <3>2. fs \in Seq(Fields)
      BY BeginningIs
    <3>3. toServer'[c] = fs
      BY <2>2, <3>1, <3>2, UsernameIs
    <3>4. TurnOK(c)' /\ LeftOK(c)'
      BY <2>1, <2>2, <2>7, <3>3 DEF TurnOK, LeftOK
    <3>5. ClientOK(c)'
      BY <1>1, <1>2, <2>1, <2>2, <2>4, <3>2, <3>3, <3>4 DEF ClientOK
    <3> QED BY <2>3, <3>5, OthersStay
  <2> QED BY <2>5, <2>6, <2>7
<1> QED BY <1>3, <1>4

LEMMA ReceiveStep ==
    ASSUME SessionInv, NEW c \in Clients, Receive(c)
    PROVE  SessionInv'
<1>1. Places /\ SharedOK /\ ClientOK(c)
  BY InvByClient
<1>2. PICK k \in Kinds : /\ Receivable(toServer[c], k)
                         /\ req' = [req EXCEPT ![c] = k]
                         /\ left' = [left EXCEPT ![c] = Methods(k)]
  BY DEF Receive
<1>3. /\ thread[c] = "idle" /\ toServer' = [toServer EXCEPT ![c] = << >>]
      /\ thread' = [thread EXCEPT ![c] = "serving"]
      /\ UNCHANGED <<shell, asked, prompt, toShell, wire, path, lock, disk, process>>
  BY DEF Receive, Goto, shellVars
<1>4. thread'[c] = "serving" /\ toServer'[c] = << >> /\ req'[c] = k /\ left'[c] = Methods(k)
  BY <1>1, <1>2, <1>3 DEF Places
<1>5. Methods(k) \in 0 .. 3 /\ k # "none"
  BY DEF Methods, Kinds
<1>6. Apart(c) /\ SharedOK'
  BY <1>1, <1>2, <1>3 DEF Apart, Places, SharedOK
<1>7. toServer[c] # << >>
  BY <1>2, RequestReceived
<1>8. EndsOK(c)'
  BY <1>1, <1>3, <1>4, <1>7 DEF ClientOK, EndsOK
<1>9. wire[c] = "open" => /\ shell[c] = "waiting" /\ asked[c] = k
                          /\ toShell[c] = << >> /\ prompt[c] = path[c]
  <2>1. SUFFICES ASSUME wire[c] = "open"
                 PROVE  shell[c] = "waiting" /\ asked[c] = k /\ toShell[c] = << >> /\ prompt[c] = path[c]
    OBVIOUS
  <2>2. /\ shell[c] = "waiting" /\ toServer[c] = Request(asked[c]) /\ toShell[c] = << >>
        /\ prompt[c] = path[c]
    <3>1. TurnOK(c)
      BY <1>1 DEF ClientOK
    <3> QED BY <1>3, <1>7, <2>1, <3>1 DEF TurnOK
  <2>3. asked[c] \in Kinds
    BY <1>1, <2>2 DEF ClientOK
  <2>4. k = asked[c]
    BY <1>2, <2>2, <2>3, RequestReceived
  <2> QED BY <2>2, <2>4
<1>10. TurnOK(c)' /\ LeftOK(c)'
  BY <1>3, <1>4, <1>9 DEF TurnOK, LeftOK
<1>11. ClientOK(c)'
  BY <1>1, <1>3, <1>4, <1>5, <1>8, <1>10, EmptySeq DEF ClientOK
<1> QED BY <1>6, <1>11, OthersStay

LEMMA EnterStep ==
    ASSUME SessionInv, NEW c \in Clients, Enter(c)
    PROVE  SessionInv'
<1>1. Places /\ SharedOK /\ ClientOK(c)
  BY InvByClient
<1>2. /\ thread[c] = "serving" /\ lock = Nobody /\ lock' = c
      /\ thread' = [thread EXCEPT ![c] = "inside"]
      /\ UNCHANGED <<shell, asked, prompt, toServer, toShell, wire, req, left, path, disk, process>>
  BY DEF Enter, Goto, shellVars
<1>3. thread'[c] = "inside"
  BY <1>1, <1>2 DEF Places
<1>4. \A d \in Clients \ {c} : lock' = d <=> lock = d
  BY <1>2, NobodyAssumption
<1>5. Apart(c) /\ SharedOK'
  BY <1>1, <1>2, <1>4 DEF Apart, Places, SharedOK
<1>6. EndsOK(c)'
  BY <1>1, <1>2, <1>3 DEF ClientOK, EndsOK
<1>7. TurnOK(c)' /\ LeftOK(c)'
  BY <1>1, <1>2, <1>3 DEF ClientOK, TurnOK, LeftOK
<1>8. ClientOK(c)'
  BY <1>1, <1>2, <1>3, <1>6, <1>7 DEF ClientOK
<1> QED BY <1>5, <1>8, OthersStay

\* A method has begun with the prompt at the path, and so has one that ends a "cd".
LEMMA ReturnsStep ==
    ASSUME SessionInv, NEW c \in Clients, Returns(c)
    PROVE  SessionInv'
<1>1. Places /\ SharedOK /\ ClientOK(c)
  BY InvByClient
<1>2. /\ thread[c] = "inside" /\ lock' = Nobody
      /\ UNCHANGED <<shell, asked, prompt, toServer, toShell, wire, req, disk, process>>
  BY DEF Returns, shellVars
<1>3. lock = c
  BY <1>1, <1>2 DEF ClientOK
<1>4. \A d \in Clients \ {c} : lock' = d <=> lock = d
  BY <1>2, <1>3, NobodyAssumption
<1>5. PICK t \in {"serving", "ok", "fail"}, l \in 0 .. 3, q \in 0 .. MaxPath :
          /\ thread' = [thread EXCEPT ![c] = t]
          /\ left' = [left EXCEPT ![c] = l]
          /\ path' = [path EXCEPT ![c] = q]
          /\ q = path[c] \/ (req[c] = "cd" /\ t = "ok")
  <2>0. path[c] \in 0 .. MaxPath /\ left[c] \in 0 .. 3 /\ [path EXCEPT ![c] = path[c]] = path
    BY <1>1 DEF ClientOK, Places
  <2>1. CASE /\ left[c] > 1
             /\ left' = [left EXCEPT ![c] = @ - 1]
             /\ Goto(c, "serving")
             /\ UNCHANGED path
    <3>1. left[c] - 1 \in 0 .. 3
      BY <2>0, <2>1
    <3> QED BY <2>0, <2>1, <3>1 DEF Goto
  <2>2. CASE /\ left' = [left EXCEPT ![c] = 0]
             /\ Goto(c, "ok")
             /\ path' \in IF req[c] = "cd" THEN {[path EXCEPT ![c] = q] : q \in Turns(path[c])} ELSE {path}
    <3>1. PICK q \in 0 .. MaxPath : path' = [path EXCEPT ![c] = q] /\ (q = path[c] \/ req[c] = "cd")
      <4>1. CASE req[c] = "cd"
        <5>1. PICK q \in Turns(path[c]) : path' = [path EXCEPT ![c] = q]
          BY <2>2, <4>1
        <5>2. q \in 0 .. MaxPath
          BY <2>0, <5>1 DEF Turns
        <5> QED BY <4>1, <5>1, <5>2
      <4>2. CASE req[c] # "cd"
        BY <2>0, <2>2, <4>2
      <4> QED BY <4>1, <4>2
    <3>2. left' = [left EXCEPT ![c] = 0] /\ thread' = [thread EXCEPT ![c] = "ok"]
      BY <2>2 DEF Goto
    <3>3. q = path[c] \/ (req[c] = "cd" /\ "ok" = "ok")
      BY <3>1
    <3>4. 0 \in 0 .. 3
      OBVIOUS
    <3> WITNESS "ok" \in {"serving", "ok", "fail"}, 0 \in 0 .. 3, q \in 0 .. MaxPath
    <3> QED BY <3>1, <3>2, <3>3
  <2>3. CASE /\ left' = [left EXCEPT ![c] = 0]
             /\ Goto(c, "fail")
             /\ UNCHANGED path
    BY <2>0, <2>3 DEF Goto
  <2> QED BY <2>1, <2>2, <2>3 DEF Returns
<1>6. thread'[c] = t /\ left'[c] = l /\ path'[c] = q
  BY <1>1, <1>5 DEF Places
<1>7. Apart(c) /\ SharedOK'
  BY <1>1, <1>2, <1>4, <1>5 DEF Apart, Places, SharedOK
<1>8. EndsOK(c)'
  BY <1>1, <1>2, <1>6 DEF ClientOK, EndsOK
<1>9. TurnOK(c)' /\ LeftOK(c)'
  BY <1>1, <1>2, <1>5, <1>6 DEF ClientOK, TurnOK, LeftOK
<1>10. ClientOK(c)'
  BY <1>1, <1>2, <1>6, <1>8, <1>9, NobodyAssumption DEF ClientOK
<1> QED BY <1>7, <1>10, OthersStay

LEMMA UnlockedStep ==
    ASSUME SessionInv, NEW c \in Clients, Unlocked(c)
    PROVE  SessionInv'
<1>1. Places /\ SharedOK /\ ClientOK(c)
  BY InvByClient
<1>2. /\ thread[c] = "serving" /\ req[c] \in {"cd", "mk"} /\ left' = [left EXCEPT ![c] = 0]
      /\ UNCHANGED <<shell, asked, prompt, toServer, toShell, wire, req, path, lock, disk, process>>
  BY DEF Unlocked, shellVars
<1>3. PICK t \in {"ok", "fail"} : thread' = [thread EXCEPT ![c] = t]
  BY DEF Unlocked, Goto
<1>4. thread'[c] = t /\ left'[c] = 0
  BY <1>1, <1>2, <1>3 DEF Places
<1>5. Apart(c) /\ SharedOK'
  BY <1>1, <1>2, <1>3 DEF Apart, Places, SharedOK
<1>6. EndsOK(c)'
  BY <1>1, <1>2, <1>4 DEF ClientOK, EndsOK
<1>7. TurnOK(c)' /\ LeftOK(c)'
  BY <1>1, <1>2, <1>4 DEF ClientOK, TurnOK, LeftOK
<1>8. ClientOK(c)'
  BY <1>1, <1>2, <1>4, <1>6, <1>7 DEF ClientOK
<1> QED BY <1>5, <1>8, OthersStay

\* What the thread sends is the answer to what the shell waits for.
LEMMA ReplyIs ==
    ASSUME SessionInv, NEW c \in Clients, Reply(c)
    PROVE  \/ toShell' = toShell /\ wire[c] # "open"
           \/ /\ wire[c] = "open" /\ shell[c] = "waiting" /\ asked[c] = req[c] /\ req[c] \in Kinds
              /\ toServer[c] = << >> /\ (prompt[c] = path[c] \/ (req[c] = "cd" /\ thread[c] = "ok"))
              /\ \E r \in {"ok", "fail"}, n \in Lengths(asked[c]) :
                    /\ r = thread[c] /\ (asked[c] = "cd" => n = path[c])
                    /\ toShell' = [toShell EXCEPT ![c] = Answer(asked[c], r, n)]
<1>1. Places /\ SharedOK /\ ClientOK(c)
  BY InvByClient
<1>2. thread[c] \in {"ok", "fail"}
  BY DEF Reply
<1>3. PICK n : /\ n \in Says(c)
               /\ toShell' = IF wire[c] = "open" THEN [toShell EXCEPT ![c] = @ \o Answer(req[c], thread[c], n)]
                             ELSE toShell
  BY DEF Reply
<1>4. CASE wire[c] # "open"
  BY <1>3, <1>4
<1>5. CASE wire[c] = "open"
  <2>1. req[c] # "none" /\ req[c] \in Kinds /\ path[c] \in 0 .. MaxPath
    BY <1>1, <1>2 DEF ClientOK
  <2>2. /\ shell[c] = "waiting" /\ asked[c] = req[c] /\ toServer[c] = << >> /\ toShell[c] = << >>
        /\ prompt[c] = path[c] \/ (req[c] = "cd" /\ thread[c] = "ok")
    BY <1>1, <1>2, <1>5 DEF ClientOK, TurnOK
  <2>3. n \in Lengths(req[c]) /\ (req[c] = "cd" => n = path[c])
    BY <1>3, <2>1, LengthAssumption DEF Says, Lengths
  <2>4. n \in Nat
    BY <2>1, <2>3, LengthsAre
  <2>5. PICK a : a = Answer(req[c], thread[c], n)
    OBVIOUS
  <2>6. a \in Seq(Fields)
    BY <1>2, <2>1, <2>4, <2>5, AnswerIs
  <2>7. << >> \o a = a
    BY <2>6, ConcatEmptySeq
  <2>8. toShell' = [toShell EXCEPT ![c] = toShell[c] \o a]
    BY <1>3, <1>5, <2>5
  <2>9. toShell' = [toShell EXCEPT ![c] = Answer(asked[c], thread[c], n)]
    BY <2>2, <2>5, <2>7, <2>8
  <2> QED BY <1>2, <1>5, <2>1, <2>2, <2>3, <2>9
<1> QED BY <1>4, <1>5

LEMMA ReplyStep ==
    ASSUME SessionInv, NEW c \in Clients, Reply(c)
    PROVE  SessionInv'
<1>1. Places /\ SharedOK /\ ClientOK(c)
  BY InvByClient
<1>2. /\ thread[c] \in {"ok", "fail"}
      /\ UNCHANGED <<shell, asked, prompt, lock, disk, process>>
  BY DEF Reply, shellVars
<1>3. CASE process = "closing"
  <2>1. Over(c)
    BY <1>3 DEF Reply
  <2>2. \/ toShell' = toShell
        \/ /\ shell[c] = "waiting"
           /\ \E r \in {"ok", "fail"}, n \in Lengths(asked[c]) :
                 toShell' = [toShell EXCEPT ![c] = Answer(asked[c], r, n)]
    BY ReplyIs
  <2> QED BY <1>2, <2>1, <2>2, OverStep
<1>4. CASE process # "closing"
  <2>1. /\ thread' = [thread EXCEPT ![c] = "idle"] /\ req' = [req EXCEPT ![c] = "none"]
        /\ UNCHANGED <<toServer, wire, left, path>>
    BY <1>4 DEF Reply, Goto
  <2>2. thread'[c] = "idle" /\ req'[c] = "none"
    BY <1>1, <2>1 DEF Places
  <2>3. /\ Places' /\ (\A d \in Clients \ {c} : toShell'[d] = toShell[d])
        /\ wire[c] # "open" => toShell'[c] = toShell[c]
    BY <1>1, <1>2, <2>1, ReplyIs DEF Places
  <2>4. Apart(c) /\ SharedOK'
    BY <1>1, <1>2, <2>1, <2>3 DEF Apart, Places, SharedOK
  <2>5. CASE wire[c] = "open"
    <3>1. /\ shell[c] = "waiting" /\ asked[c] = req[c] /\ req[c] \in Kinds
          /\ toServer[c] = << >> /\ (prompt[c] = path[c] \/ (req[c] = "cd" /\ thread[c] = "ok"))
      BY <2>5, ReplyIs
    <3>2. PICK r \in {"ok", "fail"}, n \in Lengths(asked[c]) :
                    /\ r = thread[c] /\ (asked[c] = "cd" => n = path[c])
                    /\ toShell' = [toShell EXCEPT ![c] = Answer(asked[c], r, n)]
      BY <2>5, ReplyIs
    <3>3. toShell'[c] = Answer(asked[c], r, n)
      BY <1>1, <3>2 DEF Places
    <3>4. toShell'[c] \in Seq(Fields)
      <4>1. asked[c] \in Kinds /\ n \in Nat
        BY <3>1, LengthsAre
      <4>2. Answer(asked[c], r, n) \in Seq(Fields)
        BY <4>1, AnswerIs
      <4> QED BY <3>3, <4>2
    <3>5. (IF asked[c] = "cd" /\ r = "ok" THEN n ELSE prompt[c]) = path[c]
      BY <3>1, <3>2
    <3>6. EndsOK(c)'
      BY <1>1, <1>2, <2>1, <2>2, <2>5, <3>1, <3>3 DEF ClientOK, EndsOK
    <3>7. TurnOK(c)' /\ LeftOK(c)'
      BY <1>2, <2>1, <2>2, <2>5, <3>1, <3>3, <3>5 DEF TurnOK, LeftOK
    <3>8. ClientOK(c)'
      BY <1>1, <1>2, <2>1, <2>2, <3>4, <3>6, <3>7 DEF ClientOK
    <3> QED BY <2>4, <3>8, OthersStay
  <2>6. CASE wire[c] # "open"
    <3>1. wire[c] = "closed" /\ toServer[c] = << >>
      BY <1>1, <1>2, <2>6 DEF ClientOK, EndsOK, LeftOK
    <3>2. << >> \in Beginnings
      <4>1. "ls" \in Kinds
        BY DEF Kinds
      <4> QED BY <4>1, Begun
    <3>3. EndsOK(c)'
      BY <1>1, <1>2, <2>1, <2>2, <2>3, <3>1 DEF ClientOK, EndsOK
    <3>4. TurnOK(c)' /\ LeftOK(c)'
      BY <1>2, <2>1, <2>2, <3>1, <3>2 DEF TurnOK, LeftOK
    <3>5. ClientOK(c)'
      BY <1>1, <1>2, <2>1, <2>2, <2>3, <2>6, <3>3, <3>4 DEF ClientOK
    <3> QED BY <2>4, <3>5, OthersStay
  <2> QED BY <2>5, <2>6
<1> QED BY <1>3, <1>4

LEMMA EofStep ==
    ASSUME SessionInv, NEW c \in Clients, Eof(c)
    PROVE  SessionInv'
<1>1. /\ thread[c] # "none" /\ thread[c] # "inside" /\ Over(c)
      /\ UNCHANGED <<shell, asked, prompt, toShell, lock, disk, process>>
  BY DEF Eof, shellVars
<1> QED BY <1>1, OverStep

LEMMA DiskThrowsStep ==
    ASSUME SessionInv, NEW c \in Clients, DiskThrows(c)
    PROVE  SessionInv'
<1>1. /\ thread[c] = "inside" /\ Over(c) /\ lock' = Nobody
      /\ UNCHANGED <<shell, asked, prompt, toShell, disk, process>>
  BY DEF DiskThrows, shellVars
<1> QED BY <1>1, OverStep

-----------------------------------------------------------------------------
(* The steps of the process and of the disk *)

\* What the end of the process leaves on the way to a shell
LEMMA LastWords ==
    ASSUME SessionInv, Ends
    PROVE  /\ toShell' = [d \in Clients |-> toShell'[d]]
           /\ \A c \in Clients :
                 \/ toShell'[c] = toShell[c]
                 \/ /\ wire[c] = "open" /\ shell[c] = "waiting" /\ toShell'[c] \in Seq(Fields)
                    /\ \/ \E r \in {"ok", "fail"}, n \in Lengths(asked[c]) : toShell'[c] = Answer(asked[c], r, n)
                       \/ HeardInPart(toShell'[c], asked[c])
<1>1. PICK last \in [Clients -> UNION {Sent(c) : c \in Clients}] :
          /\ \A c \in Clients : last[c] \in Sent(c)
          /\ toShell' = [c \in Clients |-> toShell[c] \o last[c]]
  BY DEF Ends
<1>2. ASSUME NEW c \in Clients
      PROVE  \/ toShell'[c] = toShell[c]
             \/ /\ wire[c] = "open" /\ shell[c] = "waiting" /\ toShell'[c] \in Seq(Fields)
                /\ \/ \E r \in {"ok", "fail"}, n \in Lengths(asked[c]) : toShell'[c] = Answer(asked[c], r, n)
                   \/ HeardInPart(toShell'[c], asked[c])
  <2>1. ClientOK(c)
    BY InvByClient
  <2>2. toShell'[c] = toShell[c] \o last[c] /\ last[c] \in Sent(c) /\ toShell[c] \in Seq(Fields)
    BY <1>1, <2>1 DEF ClientOK
  <2>3. CASE last[c] = << >>
    BY <2>2, <2>3, ConcatEmptySeq
  <2>4. CASE last[c] # << >>
    <3>1. thread[c] \in {"ok", "fail"} /\ wire[c] = "open"
      BY <2>2, <2>4 DEF Sent
    <3>2. /\ shell[c] = "waiting" /\ asked[c] = req[c] /\ toShell[c] = << >>
          /\ req[c] \in Kinds /\ path[c] \in 0 .. MaxPath
      BY <2>1, <3>1 DEF ClientOK, TurnOK
    <3>3. last[c] \in UNION {{SubSeq(Answer(req[c], thread[c], n), 1, i) :
                    i \in 0 .. Len(Answer(req[c], thread[c], n))} : n \in Says(c)}
      BY <2>2, <3>1 DEF Sent
    <3>4. PICK n \in Says(c) : \E i \in 0 .. Len(Answer(req[c], thread[c], n)) :
                 last[c] = SubSeq(Answer(req[c], thread[c], n), 1, i)
      BY <3>3
    <3>5. PICK i \in 0 .. Len(Answer(req[c], thread[c], n)) : last[c] = SubSeq(Answer(req[c], thread[c], n), 1, i)
      BY <3>4
    <3>6. n \in Lengths(asked[c]) /\ n \in Nat
      <4>1. n \in Lengths(asked[c])
        BY <3>2, LengthAssumption DEF Says, Lengths
      <4> QED BY <3>2, <4>1, LengthsAre
    <3>7. /\ last[c] \in Seq(Fields)
          /\ last[c] = Answer(req[c], thread[c], n) \/ HeardInPart(last[c], req[c])
      BY <2>4, <3>1, <3>2, <3>5, <3>6, PartIs
    <3>8. toShell'[c] = last[c]
      BY <2>2, <3>2, <3>7, ConcatEmptySeq
    <3>9. thread[c] \in {"ok", "fail"} /\ asked[c] = req[c]
      BY <3>1, <3>2
    <3> QED BY <3>1, <3>2, <3>6, <3>7, <3>8, <3>9
  <2> QED BY <2>3, <2>4
<1> QED BY <1>1, <1>2

LEMMA EndsStep ==
    ASSUME SessionInv, Ends
    PROVE  SessionInv'
<1>1. Places /\ SharedOK
  BY InvByClient
<1>2. /\ process' = "ended" /\ lock' = Nobody
      /\ UNCHANGED <<shell, asked, prompt, disk>>
  BY DEF Ends, shellVars
<1>3. ASSUME NEW c \in Clients PROVE ClientOK(c)'
  <2>1. ClientOK(c)
    BY InvByClient
  <2>2. /\ thread'[c] = "none" /\ req'[c] = "none" /\ left'[c] = 0 /\ path'[c] = 0 /\ toServer'[c] = << >>
        /\ wire'[c] = IF wire[c] \in {"open", "hungup"} THEN "hungup" ELSE "none"
    BY DEF Ends
  <2>3. EndsOK(c)'
    <3>1. CASE toShell'[c] = toShell[c]
      BY <1>2, <2>1, <2>2, <3>1 DEF ClientOK, EndsOK
    <3>2. CASE toShell'[c] # toShell[c]
      <4>1. /\ wire[c] = "open" /\ shell[c] = "waiting"
            /\ \/ \E r \in {"ok", "fail"}, n \in Lengths(asked[c]) : toShell'[c] = Answer(asked[c], r, n)
               \/ HeardInPart(toShell'[c], asked[c])
        BY <3>2, LastWords
      <4>2. wire'[c] = "hungup" /\ shell'[c] = "waiting" /\ asked'[c] = asked[c] /\ prompt'[c] = prompt[c]
        BY <1>2, <2>2, <4>1
      <4> QED BY <2>1, <2>2, <4>1, <4>2 DEF ClientOK, EndsOK
    <3> QED BY <3>1, <3>2
  <2>4. TurnOK(c)' /\ LeftOK(c)'
    BY <2>2 DEF TurnOK, LeftOK
  <2>5. toShell'[c] \in Seq(Fields)
    BY <2>1, LastWords DEF ClientOK
  <2> QED BY <1>2, <2>1, <2>2, <2>3, <2>4, <2>5, EmptySeq, NobodyAssumption, LengthAssumption DEF ClientOK
<1>4. Places'
  BY <1>1, <1>2, LastWords DEF Ends, Places
<1>5. SharedOK'
  BY <1>1, <1>2 DEF SharedOK
<1> QED BY <1>3, <1>4, <1>5, InvByClientNext

\* Nothing of any client changes when accept throws, when the disk is lost, or when
\* nothing does.
LEMMA StillStep ==
    ASSUME SessionInv,
           UNCHANGED <<shell, asked, prompt, toServer, toShell, wire, thread, req, left, path, lock>>,
           disk' \in {"up", "lost"}, process' \in {"up", "closing", "ended"}
    PROVE  SessionInv'
<1>1. ASSUME NEW c \in Clients PROVE ClientOK(c)'
  <2>1. ClientOK(c)
    BY InvByClient
  <2>2. EndsOK(c)' /\ TurnOK(c)' /\ LeftOK(c)'
    BY <2>1 DEF ClientOK, EndsOK, TurnOK, LeftOK
  <2> QED BY <2>1, <2>2 DEF ClientOK
<1>2. Places /\ SharedOK
  BY InvByClient
<1>3. Places' /\ SharedOK'
  BY <1>2 DEF Places, SharedOK
<1> QED BY <1>1, <1>3, InvByClientNext

-----------------------------------------------------------------------------
(* The specification *)

LEMMA SessionInit == Init => SessionInv
<1> SUFFICES ASSUME Init PROVE SessionInv
  OBVIOUS
<1>1. Places /\ SharedOK
  BY DEF Init, Places, SharedOK
<1>2. ASSUME NEW c \in Clients PROVE ClientOK(c)
  <2>1. /\ shell[c] = "off" /\ asked[c] = "none" /\ prompt[c] = 0 /\ toServer[c] = << >> /\ toShell[c] = << >>
        /\ wire[c] = "none" /\ thread[c] = "none" /\ req[c] = "none" /\ left[c] = 0 /\ path[c] = 0
        /\ lock = Nobody
    BY DEF Init
  <2>2. EndsOK(c) /\ TurnOK(c) /\ LeftOK(c)
    BY <2>1 DEF EndsOK, TurnOK, LeftOK
  <2> QED BY <2>1, <2>2, EmptySeq, NobodyAssumption, LengthAssumption DEF ClientOK
<1> QED BY <1>1, <1>2, InvByClient

LEMMA SessionStep == SessionInv /\ [Next]_vars => SessionInv'
<1> SUFFICES ASSUME SessionInv, [Next]_vars PROVE SessionInv'
  OBVIOUS
<1>0. disk \in {"up", "lost"} /\ process \in {"up", "closing", "ended"}
  BY InvByClient DEF SharedOK
<1>1. ASSUME NEW c \in Clients, ShellNext(c) PROVE SessionInv'
  BY <1>1, StartStep, AskStep, HearStep, DepartStep, SeeEndStep DEF ShellNext
<1>2. ASSUME NEW c \in Clients, ThreadNext(c) PROVE SessionInv'
  <2>1. CASE Reset(c)
    BY <2>1, EndsStep DEF Reset
  <2>2. CASE ~Reset(c)
    BY <1>2, <2>2, AcceptStep, LoginStep, ReceiveStep, EnterStep, ReturnsStep, UnlockedStep, ReplyStep,
       EofStep, DiskThrowsStep DEF ThreadNext
  <2> QED BY <2>1, <2>2
<1>3. CASE Killed
  BY <1>3, EndsStep DEF Killed
<1>4. CASE AcceptFails
  BY <1>0, <1>4, StillStep DEF AcceptFails, shellVars, threadVars
<1>5. CASE Joined
  BY <1>5, EndsStep DEF Joined
<1>6. CASE DiskLost
  BY <1>0, <1>6, StillStep DEF DiskLost, shellVars, threadVars
<1>7. CASE UNCHANGED vars
  BY <1>0, <1>7, StillStep DEF vars
<1> QED BY <1>1, <1>2, <1>3, <1>4, <1>5, <1>6, <1>7 DEF Next

\* What is on its way between a shell and its thread, whose turn it is, and what a shell
\* that left has left behind, in every state that can be reached.
THEOREM SessionInvariant == Spec => []SessionInv
<1>1. Init => SessionInv
  BY SessionInit
<1>2. SessionInv /\ [Next]_vars => SessionInv'
  BY SessionStep
<1> QED BY <1>1, <1>2, PTL DEF Spec

\* Every variable of the session has its type; data_mutex_ is held by the one thread that
\* is in a method.
THEOREM SessionTypeCorrect == Spec => []TypeOK
<1>1. SessionInv => TypeOK
  BY DEF SessionInv
<1> QED BY <1>1, SessionInvariant, PTL

LEMMA InStepHolds == SessionInv => InStep
<1> SUFFICES ASSUME SessionInv, NEW c \in Clients
             PROVE  /\ shell[c] # "waiting" => toShell[c] = << >>
                    /\ toShell[c] # << >> => \/ Understood(toShell[c], asked[c])
                                             \/ wire[c] = "hungup" /\ HeardInPart(toShell[c], asked[c])
                    /\ thread[c] = "idle" /\ wire[c] = "open" =>
                          /\ toServer[c] # << >> => Receivable(toServer[c], asked[c])
                          /\ toServer[c] = << >> /\ toShell[c] = << >> => shell[c] # "waiting"
                    /\ thread[c] = "idle" /\ wire[c] \in {"closed", "reset"} =>
                          CutShort(toServer[c]) \/ \E k \in Kinds : Receivable(toServer[c], k)
                    /\ req[c] # "none" /\ wire[c] = "open" => shell[c] = "waiting" /\ asked[c] = req[c]
  BY DEF InStep
<1>1. ClientOK(c)
  BY InvByClient
<1>2. EndsOK(c) /\ TurnOK(c) /\ LeftOK(c) /\ (shell[c] = "waiting" => asked[c] \in Kinds)
  BY <1>1 DEF ClientOK
<1>3. shell[c] # "waiting" => toShell[c] = << >>
  BY <1>2 DEF EndsOK
<1>4. ASSUME toShell[c] # << >>, ~(wire[c] = "hungup" /\ HeardInPart(toShell[c], asked[c]))
      PROVE  Understood(toShell[c], asked[c])
  <2>1. asked[c] \in Kinds
    BY <1>2, <1>3, <1>4
  <2>2. PICK r \in {"ok", "fail"}, n \in Lengths(asked[c]) : toShell[c] = Answer(asked[c], r, n)
    BY <1>2, <1>4 DEF EndsOK
  <2>3. n \in Nat
    BY <2>1, LengthsAre
  <2> QED BY <2>1, <2>2, <2>3, AnswerIs
<1>5. ASSUME thread[c] = "idle", wire[c] = "open"
      PROVE  /\ toServer[c] # << >> => Receivable(toServer[c], asked[c])
             /\ toServer[c] = << >> /\ toShell[c] = << >> => shell[c] # "waiting"
  <2>1. \/ shell[c] = "ready" /\ toServer[c] = << >>
        \/ shell[c] = "waiting" /\ toServer[c] = Request(asked[c])
        \/ shell[c] = "waiting" /\ toServer[c] = << >> /\
              \E r \in {"ok", "fail"}, n \in Lengths(asked[c]) : toShell[c] = Answer(asked[c], r, n)
    BY <1>2, <1>5 DEF TurnOK
  <2>2. CASE shell[c] = "ready" /\ toServer[c] = << >>
    BY <2>2
  <2>3. CASE shell[c] = "waiting" /\ toServer[c] = Request(asked[c])
    <3>1. Receivable(Request(asked[c]), asked[c]) /\ Request(asked[c]) # << >>
      BY <1>2, <2>3, RequestReceived
    <3> QED BY <2>3, <3>1
  <2>4. CASE shell[c] = "waiting" /\ toServer[c] = << >> /\
              \E r \in {"ok", "fail"}, n \in Lengths(asked[c]) : toShell[c] = Answer(asked[c], r, n)
    <3>1. PICK r \in {"ok", "fail"}, n \in Lengths(asked[c]) : toShell[c] = Answer(asked[c], r, n)
      BY <2>4
    <3>2. asked[c] \in Kinds /\ n \in Nat
      BY <1>2, <2>4, LengthsAre
    <3>3. toShell[c] # << >>
      BY <3>1, <3>2, AnswerIs
    <3> QED BY <2>4, <3>3
  <2> QED BY <2>1, <2>2, <2>3, <2>4
<1>6. ASSUME thread[c] = "idle", wire[c] \in {"closed", "reset"}
      PROVE  CutShort(toServer[c]) \/ \E k \in Kinds : Receivable(toServer[c], k)
  <2>1. << >> \in Beginnings
    <3>1. "ls" \in Kinds
      BY DEF Kinds
    <3> QED BY <3>1, Begun
  <2>2. toServer[c] \in Beginnings
    BY <1>2, <1>6, <2>1 DEF EndsOK, LeftOK
  <2> QED BY <2>2, BeginningIs
<1>7. req[c] # "none" /\ wire[c] = "open" => shell[c] = "waiting" /\ asked[c] = req[c]
  BY <1>1, <1>2 DEF ClientOK, TurnOK
<1> QED BY <1>3, <1>4, <1>5, <1>6, <1>7

\* The two sides never part: each finds on its way what it is going to receive, field by
\* field, and the answer that a shell meets is the one to its question.
THEOREM SessionInStep == Spec => []InStep
BY SessionInvariant, InStepHolds, PTL

\* At every prompt the path is the one of the folder that the thread is in.
THEOREM PromptShowsPath == Spec => []PromptIsPath
<1>1. SessionInv => PromptIsPath
  <2> SUFFICES ASSUME SessionInv, NEW c \in Clients, shell[c] = "ready", wire[c] = "open"
               PROVE  prompt[c] = path[c]
    BY DEF PromptIsPath
  <2>1. ClientOK(c)
    BY InvByClient
  <2>2. EndsOK(c) /\ TurnOK(c) /\ thread[c] \in {"none", "login", "idle", "serving", "inside", "ok", "fail"}
    BY <2>1 DEF ClientOK
  <2> QED BY <2>2 DEF EndsOK, TurnOK
<1> QED BY <1>1, SessionInvariant, PTL
=============================================================================
