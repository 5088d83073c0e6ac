------------------------- MODULE RequestLineProofs --------------------------
(***************************************************************************)
(* Proofs about RequestLine, for all URIs that clients may send.           *)
(***************************************************************************)
EXTENDS RequestLine, FlattenSeqProofs

-----------------------------------------------------------------------------
(* strstr, symbol by symbol.                                               *)

Stands(text, symbol) == \E i \in 1..Len(text) : text[i] = symbol
StandTogether(text, a, b) ==
  \E i \in 1..(Len(text) - 1) : text[i] = a /\ text[i + 1] = b

(* Texts of one symbol and of two.                                         *)
LEMMA ShortTexts ==
  ASSUME NEW E, NEW z \in Seq(E)
  PROVE  /\ Len(z) = 1 => z = <<z[1]>>
         /\ Len(z) = 2 => z = <<z[1], z[2]>>
OBVIOUS

(* A text has a part of one symbol where the symbol stands in it.          *)
LEMMA StrstrOne ==
  ASSUME NEW E, NEW text \in Seq(E), NEW a \in E
  PROVE  Strstr(text, <<a>>) <=> Stands(text, a)
<1>1. \A i \in 0..(Len(text) - 1) : SubSeq(text, i + 1, i + 1) = <<text[i + 1]>>
  <2> SUFFICES ASSUME NEW i \in 0..(Len(text) - 1)
               PROVE  SubSeq(text, i + 1, i + 1) = <<text[i + 1]>>
    OBVIOUS
  <2>1. i + 1 \in 1..Len(text) /\ text[i + 1] \in E
    OBVIOUS
  <2>2. /\ SubSeq(text, i + 1, i + 1) \in Seq(E)
        /\ Len(SubSeq(text, i + 1, i + 1)) = 1
        /\ SubSeq(text, i + 1, i + 1)[1] = text[i + 1]
    BY <2>1
  <2> QED
    BY <2>2, ShortTexts
<1>2. Strstr(text, <<a>>) <=> \E i \in 0..(Len(text) - 1) : <<text[i + 1]>> = <<a>>
  BY <1>1 DEF Strstr
<1>3. ASSUME NEW i \in 1..Len(text), text[i] = a PROVE Strstr(text, <<a>>)
  <2>1. i - 1 \in 0..(Len(text) - 1) /\ (i - 1) + 1 = i
    OBVIOUS
  <2> QED
    BY <1>2, <1>3, <2>1
<1>4. ASSUME NEW i \in 0..(Len(text) - 1), <<text[i + 1]>> = <<a>> PROVE Stands(text, a)
  <2>1. i + 1 \in 1..Len(text) /\ text[i + 1] = a
    BY <1>4
  <2> QED
    BY <2>1 DEF Stands
<1> QED
  BY <1>2, <1>3, <1>4 DEF Stands

(* A text has a part of two symbols where they stand together.             *)
LEMMA StrstrTwo ==
  ASSUME NEW E, NEW text \in Seq(E), NEW a \in E, NEW b \in E
  PROVE  Strstr(text, <<a, b>>) <=> StandTogether(text, a, b)
<1>1. \A i \in 0..(Len(text) - 2) :
        SubSeq(text, i + 1, i + 2) = <<text[i + 1], text[i + 2]>>
  <2> SUFFICES ASSUME NEW i \in 0..(Len(text) - 2)
               PROVE  SubSeq(text, i + 1, i + 2) = <<text[i + 1], text[i + 2]>>
    OBVIOUS
  <2>1. /\ i + 1 \in 1..Len(text) /\ i + 2 \in 1..Len(text)
        /\ text[i + 1] \in E /\ text[i + 2] \in E
    OBVIOUS
  <2>2. /\ SubSeq(text, i + 1, i + 2) \in Seq(E)
        /\ Len(SubSeq(text, i + 1, i + 2)) = 2
        /\ SubSeq(text, i + 1, i + 2)[1] = text[i + 1]
        /\ SubSeq(text, i + 1, i + 2)[2] = text[i + 2]
    BY <2>1
  <2> QED
    BY <2>2, ShortTexts
<1>2. Strstr(text, <<a, b>>) <=>
        \E i \in 0..(Len(text) - 2) : <<text[i + 1], text[i + 2]>> = <<a, b>>
  BY <1>1 DEF Strstr
<1>3. ASSUME NEW i \in 1..(Len(text) - 1), text[i] = a, text[i + 1] = b
      PROVE  Strstr(text, <<a, b>>)
  <2>1. i - 1 \in 0..(Len(text) - 2) /\ (i - 1) + 1 = i /\ (i - 1) + 2 = i + 1
    OBVIOUS
  <2> QED
    BY <1>2, <1>3, <2>1
<1>4. ASSUME NEW i \in 0..(Len(text) - 2), <<text[i + 1], text[i + 2]>> = <<a, b>>
      PROVE  StandTogether(text, a, b)
  <2>1. i + 1 \in 1..(Len(text) - 1) /\ text[i + 1] = a /\ text[(i + 1) + 1] = b
    BY <1>4
  <2> QED
    BY <2>1 DEF StandTogether
<1> QED
  BY <1>2, <1>3, <1>4 DEF StandTogether

(* What index finds is the first place of the symbol.                      *)
LEMMA FirstIsFirst ==
  ASSUME NEW E, NEW text \in Seq(E), NEW a \in E, Stands(text, a)
  PROVE  /\ First(text, a) \in 1..Len(text) /\ text[First(text, a)] = a
         /\ \A j \in 1..(First(text, a) - 1) : text[j] # a
<1> DEFINE S == {i \in 1..Len(text) : text[i] = a}
<1>1. S \in SUBSET Nat /\ S # {}
  BY DEF Stands
<1>2. PICK i \in S : \A j \in S : i <= j
  BY <1>1, LeastNumber
<1>3. /\ i \in DOMAIN text /\ text[i] = a
      /\ \A j \in 1..(i - 1) : text[j] # a
  BY <1>2
<1>4. First(text, a) \in DOMAIN text /\ text[First(text, a)] = a
      /\ \A j \in 1..(First(text, a) - 1) : text[j] # a
  BY <1>3 DEF First
<1> QED
  BY <1>4

(* The last symbols of a text are those of any text it ends in.            *)
LEMMA SuffixIsLast ==
  ASSUME NEW E, NEW s \in Seq(E), NEW t \in Seq(E), IsSuffix(s, t)
  PROVE  /\ Len(s) <= Len(t)
         /\ \A j \in 1..Len(s) : t[Len(t) - Len(s) + j] = s[j]
<1>1. /\ Reverse(s) \in Seq(E) /\ Len(Reverse(s)) = Len(s)
      /\ Reverse(t) \in Seq(E) /\ Len(Reverse(t)) = Len(t)
      /\ \A i \in 1..Len(s) : Reverse(s)[i] = s[(Len(s) - i) + 1]
      /\ \A i \in 1..Len(t) : Reverse(t)[i] = t[(Len(t) - i) + 1]
  BY DEF Reverse
<1>2. /\ Len(s) <= Len(t)
      /\ SubSeq(Reverse(s), 1, Len(s)) = SubSeq(Reverse(t), 1, Len(s))
  BY <1>1 DEF IsSuffix, IsPrefix
<1>3. \A i \in 1..Len(s) : Reverse(s)[i] = Reverse(t)[i]
  <2> SUFFICES ASSUME NEW i \in 1..Len(s) PROVE Reverse(s)[i] = Reverse(t)[i]
    OBVIOUS
  <2>1. /\ SubSeq(Reverse(s), 1, Len(s))[i] = Reverse(s)[i]
        /\ SubSeq(Reverse(t), 1, Len(s))[i] = Reverse(t)[i]
    BY <1>1, <1>2
  <2> QED
    BY <1>2, <2>1
<1>4. ASSUME NEW j \in 1..Len(s) PROVE t[Len(t) - Len(s) + j] = s[j]
  <2> DEFINE i == Len(s) - j + 1
  <2>1. /\ i \in 1..Len(s) /\ i \in 1..Len(t)
        /\ (Len(s) - i) + 1 = j /\ (Len(t) - i) + 1 = Len(t) - Len(s) + j
    BY <1>2
  <2>2. Reverse(s)[i] = s[j] /\ Reverse(t)[i] = t[Len(t) - Len(s) + j]
    BY <1>1, <2>1
  <2>3. Reverse(s)[i] = Reverse(t)[i]
    BY <1>3, <2>1
  <2> QED
    BY <2>2, <2>3
<1> QED
  BY <1>2, <1>4

-----------------------------------------------------------------------------
(* File names.                                                             *)

Symbols == (UNION {Range(u) : u \in Uris})
             \cup {".", "/", "?", "public", "home", "html", "gif", "jpg", "cgi"}
Texts == Seq(Symbols)

(* The symbols that the code itself writes.                                *)
LEMMA OwnSymbols ==
  /\ "." \in Symbols /\ "/" \in Symbols /\ "?" \in Symbols /\ "public" \in Symbols
  /\ "home" \in Symbols /\ "html" \in Symbols /\ "gif" \in Symbols
  /\ "jpg" \in Symbols /\ "cgi" \in Symbols
BY DEF Symbols

(* The symbols of ./public/, one by one.                                   *)
LEMMA PublicIs ==
  /\ Public \in Texts /\ Len(Public) = 4
  /\ Public[1] = "." /\ Public[2] = "/" /\ Public[3] = "public" /\ Public[4] = "/"
<1>1. Public \in Texts
  BY OwnSymbols DEF Public, Texts
<1>2. Len(Public) = 4
  BY DEF Public
<1>3. Public[1] = "." /\ Public[2] = "/" /\ Public[3] = "public" /\ Public[4] = "/"
  BY DEF Public
<1> QED
  BY <1>1, <1>2, <1>3

(* home.html.                                                              *)
LEMMA HomeIs ==
  /\ Home \in Texts /\ Len(Home) = 3
  /\ Home[1] = "home" /\ Home[2] = "." /\ Home[3] = "html"
<1>1. Home \in Texts
  BY OwnSymbols DEF Home, Texts
<1>2. Len(Home) = 3
  BY DEF Home
<1>3. Home[1] = "home" /\ Home[2] = "." /\ Home[3] = "html"
  BY DEF Home
<1> QED
  BY <1>1, <1>2, <1>3

(* Where the symbols of two texts in a row are.                            *)
LEMMA InARow ==
  ASSUME NEW E, NEW s \in Seq(E), NEW t \in Seq(E)
  PROVE  /\ s \o t \in Seq(E) /\ Len(s \o t) = Len(s) + Len(t)
         /\ \A i \in 1..Len(s) : (s \o t)[i] = s[i]
         /\ \A i \in 1..Len(t) : (s \o t)[Len(s) + i] = t[i]
<1>1. /\ s \o t \in Seq(E) /\ Len(s \o t) = Len(s) + Len(t)
      /\ \A i \in 1..Len(s) : (s \o t)[i] = s[i]
  OBVIOUS
<1>2. ASSUME NEW i \in 1..Len(t) PROVE (s \o t)[Len(s) + i] = t[i]
  OBVIOUS
<1> QED
  BY <1>1, <1>2

(* Counting from the first number behind m.                                *)
LEMMA CountBehind ==
  ASSUME NEW m \in Nat, NEW n \in Nat
  PROVE  /\ m + n - (m + 1) + 1 = n
         /\ (IF m + 1 <= m + n THEN m + n - (m + 1) + 1 ELSE 0) = n
         /\ \A i \in 1..n : m + 1 + i - 1 = m + i
OBVIOUS

(* Behind the first of two texts is the second.                            *)
LEMMA BehindFirst ==
  ASSUME NEW E, NEW s \in Seq(E), NEW t \in Seq(E)
  PROVE  SubSeq(s \o t, Len(s) + 1, Len(s) + Len(t)) = t
<1> DEFINE r == SubSeq(s \o t, Len(s) + 1, Len(s) + Len(t))
<1>1. /\ Len(s) \in Nat /\ Len(t) \in Nat
      /\ s \o t \in Seq(E) /\ Len(s \o t) = Len(s) + Len(t)
      /\ \A i \in 1..Len(t) : (s \o t)[Len(s) + i] = t[i]
  BY InARow
<1>2. \A i \in (Len(s) + 1)..(Len(s) + Len(t)) : (s \o t)[i] \in E
  BY <1>1
<1>3. /\ r \in Seq(E)
      /\ Len(r) = IF Len(s) + 1 <= Len(s) + Len(t)
                  THEN Len(s) + Len(t) - (Len(s) + 1) + 1 ELSE 0
      /\ \A i \in 1..(Len(s) + Len(t) - (Len(s) + 1) + 1) :
           r[i] = (s \o t)[Len(s) + 1 + i - 1]
  BY <1>1, <1>2, SubSeqProperties
<1>4. Len(r) = Len(t) /\ \A i \in 1..Len(t) : r[i] = (s \o t)[Len(s) + i]
  <2> HIDE DEF r
  <2>1. /\ Len(s) + Len(t) - (Len(s) + 1) + 1 = Len(t)
        /\ (IF Len(s) + 1 <= Len(s) + Len(t)
            THEN Len(s) + Len(t) - (Len(s) + 1) + 1 ELSE 0) = Len(t)
    BY <1>1, CountBehind
  <2>2. \A i \in 1..Len(t) : Len(s) + 1 + i - 1 = Len(s) + i
    BY <1>1, CountBehind
  <2>3. Len(r) = Len(t)
    BY <1>3, <2>1, Zenon
  <2>4. \A i \in 1..Len(t) : r[i] = (s \o t)[Len(s) + 1 + i - 1]
    BY <1>3, <2>1, Zenon
  <2> QED
    BY <2>2, <2>3, <2>4, Zenon
<1> HIDE DEF r
<1>5. \A i \in 1..Len(r) : r[i] = t[i]
  BY <1>1, <1>4
<1>6. r = t
  BY <1>3, <1>4, <1>5, SeqEqual
<1> QED
  BY <1>6 DEF r

(* The file name is the path, behind ./public/.                            *)
LEMMA PathOfFile ==
  ASSUME NEW u \in Texts
  PROVE  /\ Public \in Texts /\ Len(Public) = 4
         /\ Public \o u \in Texts /\ Len(Public \o u) = 4 + Len(u)
         /\ \A i \in 1..4 : (Public \o u)[i] = Public[i]
         /\ \A i \in 1..Len(u) : (Public \o u)[4 + i] = u[i]
         /\ SubSeq(Public \o u, 5, Len(Public \o u)) = u
         /\ IsPrefix(Public, Public \o u)
<1>1. Public \in Texts /\ Len(Public) = 4
  BY PublicIs
<1>2. /\ Public \o u \in Texts /\ Len(Public \o u) = 4 + Len(u)
      /\ \A i \in 1..4 : (Public \o u)[i] = Public[i]
      /\ \A i \in 1..Len(u) : (Public \o u)[4 + i] = u[i]
  <2>1. /\ Public \o u \in Texts /\ Len(Public \o u) = Len(Public) + Len(u)
        /\ \A i \in 1..Len(Public) : (Public \o u)[i] = Public[i]
        /\ \A i \in 1..Len(u) : (Public \o u)[Len(Public) + i] = u[i]
    <3>1. Public \in Seq(Symbols) /\ u \in Seq(Symbols)
      BY <1>1 DEF Texts
    <3>2. /\ Public \o u \in Seq(Symbols) /\ Len(Public \o u) = Len(Public) + Len(u)
          /\ \A i \in 1..Len(Public) : (Public \o u)[i] = Public[i]
          /\ \A i \in 1..Len(u) : (Public \o u)[Len(Public) + i] = u[i]
      BY ONLY <3>1, InARow
    <3> QED
      BY <3>2 DEF Texts
  <2> QED
    BY <1>1, <2>1
<1>3. SubSeq(Public \o u, 5, Len(Public \o u)) = u
  <2>1. SubSeq(Public \o u, Len(Public) + 1, Len(Public) + Len(u)) = u
    BY <1>1, BehindFirst DEF Texts
  <2>2. Len(Public) + 1 = 5
    BY <1>1
  <2> QED
    BY <1>1, <1>2, <2>1, <2>2
<1>4. IsPrefix(Public, Public \o u)
  <2>1. SubSeq(Public \o u, 1, Len(Public)) = SubSeq(Public, 1, Len(Public))
    <3>1. Len(Public) \in 1..Len(Public) /\ 1 \in 1..Len(Public)
      BY <1>1
    <3> QED
      BY <1>1, <3>1, SubSeqOfConcat1 DEF Texts
  <2>2. Len(Public) <= Len(Public \o u)
    BY <1>1, <1>2 DEF Texts
  <2> QED
    BY <2>1, <2>2 DEF IsPrefix
<1> QED
  BY <1>1, <1>2, <1>3, <1>4

(* Two symbols, the first a dot, stand together in a file name only where  *)
(* they do in the path, as the second is not the slash behind ./public's   *)
(* dot.                                                                    *)
LEMMA DotsOfFile ==
  ASSUME NEW u \in Texts, NEW b \in Symbols, b # "/"
  PROVE  StandTogether(Public \o u, ".", b) <=> StandTogether(u, ".", b)
<1> DEFINE file == Public \o u
<1>0. /\ Len(u) \in Nat /\ Len(file) = 4 + Len(u)
      /\ file[1] = "." /\ file[2] = "/" /\ file[3] = "public" /\ file[4] = "/"
      /\ \A i \in 1..Len(u) : file[4 + i] = u[i]
  <2>1. Len(u) \in Nat
    BY DEF Texts
  <2>2. Len(file) = 4 + Len(u) /\ \A i \in 1..Len(u) : file[4 + i] = u[i]
    BY PathOfFile
  <2>3. \A i \in 1..4 : file[i] = Public[i]
    BY PathOfFile
  <2> HIDE DEF file
  <2>4. file[1] = "." /\ file[2] = "/" /\ file[3] = "public" /\ file[4] = "/"
    BY <2>3, PublicIs
  <2> QED
    BY <2>1, <2>2, <2>4 DEF file
<1> HIDE DEF file
<1>1. ASSUME StandTogether(file, ".", b) PROVE StandTogether(u, ".", b)
  <2>1. PICK i \in 1..(Len(file) - 1) :
          (file)[i] = "." /\ (file)[i + 1] = b
    BY <1>1 DEF StandTogether
  <2>3. i > 4
    BY <2>1, <1>0
  <2>4. /\ i - 4 \in 1..(Len(u) - 1) /\ 4 + (i - 4) = i
        /\ (i - 4) + 1 \in 1..Len(u) /\ 4 + ((i - 4) + 1) = i + 1
    BY <2>3, <1>0
  <2>5. /\ i - 4 \in 1..Len(u)
        /\ file[4 + (i - 4)] = "." /\ file[4 + ((i - 4) + 1)] = b
    BY <2>1, <2>4, <1>0
  <2>6. u[i - 4] = "." /\ u[(i - 4) + 1] = b
    BY <2>4, <2>5, <1>0
  <2> QED
    BY <2>4, <2>6 DEF StandTogether
<1>2. ASSUME StandTogether(u, ".", b) PROVE StandTogether(file, ".", b)
  <2>1. PICK i \in 1..(Len(u) - 1) : u[i] = "." /\ u[i + 1] = b
    BY <1>2 DEF StandTogether
  <2>3. /\ 4 + i \in 1..(Len(file) - 1) /\ i \in 1..Len(u)
        /\ i + 1 \in 1..Len(u) /\ 4 + (i + 1) = (4 + i) + 1
    BY <2>1, <1>0
  <2>4. (file)[4 + i] = "." /\ (file)[(4 + i) + 1] = b
    BY <2>1, <2>3, <1>0
  <2> QED
    BY <2>3, <2>4 DEF StandTogether
<1> QED
  BY <1>1, <1>2 DEF file

Dots == <<".", ".">>

(* A path without dots side by side gives a file below ./public.           *)
LEMMA FileIsBelow ==
  ASSUME NEW v \in Texts, ~ Strstr(v, Dots)
  PROVE  IsPrefix(Public, Public \o v) /\ ~ Strstr(Public \o v, Dots)
<1>1. ~ StandTogether(v, ".", ".")
  BY OwnSymbols, StrstrTwo DEF Dots, Texts
<1>2. ~ StandTogether(Public \o v, ".", ".")
  BY <1>1, OwnSymbols, DotsOfFile
<1>3. Public \o v \in Seq(Symbols)
  BY PathOfFile DEF Texts
<1>4. ~ Strstr(Public \o v, Dots)
  BY <1>2, <1>3, OwnSymbols, StrstrTwo DEF Dots
<1> QED
  BY <1>4, PathOfFile

(* What ends in a slash has it as its last symbol.                         *)
LEMMA LastIsSlash ==
  ASSUME NEW v \in Texts, IsSuffix(<<"/">>, v)
  PROVE  Len(v) \in Nat /\ 1 <= Len(v) /\ v[Len(v)] = "/"
<1>1. <<"/">> \in Seq(Symbols) /\ Len(<<"/">>) = 1 /\ <<"/">>[1] = "/"
  BY OwnSymbols
<1>2. v \in Seq(Symbols)
  BY DEF Texts
<1>3. /\ Len(<<"/">>) <= Len(v)
      /\ \A j \in 1..Len(<<"/">>) : v[Len(v) - Len(<<"/">>) + j] = <<"/">>[j]
  BY <1>1, <1>2, SuffixIsLast
<1>4. Len(v) \in Nat /\ Len(v) - 1 + 1 = Len(v)
  BY <1>2
<1>5. v[Len(v) - 1 + 1] = "/"
  BY <1>1, <1>3
<1> QED
  BY <1>1, <1>3, <1>4, <1>5

(* An extension at the end of the path is what requestGetFiletype finds.   *)
LEMMA TypeOfFile ==
  ASSUME NEW v \in Texts, NEW k \in {"html", "gif"}, IsSuffix(<<".", k>>, v),
         ~ Strstr(Front(Front(v)), <<".">>)
  PROVE  RequestGetFiletype(Public \o v) = IF k = "gif" THEN "image/gif" ELSE "text/html"
<1> DEFINE n == Len(v)
           file == Public \o v
<1>1. k \in Symbols /\ k # "/" /\ <<".", k>> \in Texts /\ Len(<<".", k>>) = 2
      /\ <<".", k>>[1] = "." /\ <<".", k>>[2] = k
  BY OwnSymbols DEF Texts
<1>2. n \in Nat /\ 2 <= n /\ v[n - 1] = "." /\ v[n] = k
  <2>1. /\ Len(<<".", k>>) <= n
        /\ \A j \in 1..Len(<<".", k>>) : v[n - Len(<<".", k>>) + j] = <<".", k>>[j]
    BY <1>1, SuffixIsLast DEF Texts
  <2>2. n \in Nat
    BY DEF Texts
  <2>3. v[n - 2 + 1] = "." /\ v[n - 2 + 2] = k
    BY <1>1, <2>1
  <2>4. n - 2 + 1 = n - 1 /\ n - 2 + 2 = n
    BY <2>2
  <2> QED
    BY <1>1, <2>1, <2>2, <2>3, <2>4
<1>3. \A i \in 1..(n - 2) : v[i] # "."
  <2> DEFINE f == Front(Front(v))
  <2>1. f \in Seq(Symbols) /\ Len(f) = n - 2 /\ \A i \in 1..(n - 2) : f[i] = v[i]
    <3>1. /\ Front(v) \in Seq(Symbols) /\ Len(Front(v)) = n - 1
          /\ \A i \in 1..(n - 1) : Front(v)[i] = v[i]
      BY <1>2 DEF Front, Texts
    <3> DEFINE g == Front(v)
    <3> HIDE DEF g
    <3>2. g \in Seq(Symbols) /\ Len(g) = n - 1 /\ n - 1 \in Nat /\ 1 <= n - 1
          /\ \A i \in 1..(n - 1) : g[i] = v[i]
      BY <1>2, <3>1 DEF g
    <3>3. /\ Front(g) \in Seq(Symbols) /\ Len(Front(g)) = (n - 1) - 1
          /\ \A i \in 1..((n - 1) - 1) : Front(g)[i] = g[i]
      BY <3>2 DEF Front
    <3> QED
      BY <1>2, <3>2, <3>3 DEF g
  <2> HIDE DEF f
  <2>2. ~ Stands(f, ".")
    BY <2>1, OwnSymbols, StrstrOne DEF f
  <2> QED
    BY <2>1, <2>2 DEF Stands
<1>4. \A b \in Symbols : b # "/" => (Strstr(file, <<".", b>>) <=> StandTogether(v, ".", b))
  BY OwnSymbols, PathOfFile, DotsOfFile, StrstrTwo DEF Texts
<1>5. CASE k = "html"
  <2>1. StandTogether(v, ".", "html")
    BY <1>2, <1>5 DEF StandTogether
  <2>2. Strstr(file, <<".", "html">>)
    BY <1>1, <1>4, <1>5, <2>1
  <2> QED
    BY <1>5, <2>2 DEF RequestGetFiletype
<1>6. CASE k = "gif"
  <2>1. StandTogether(v, ".", "gif")
    BY <1>2, <1>6 DEF StandTogether
  <2>2. ~ StandTogether(v, ".", "html")
    <3> SUFFICES ASSUME NEW i \in 1..(n - 1), v[i] = ".", v[i + 1] = "html" PROVE FALSE
      BY DEF StandTogether
    <3>1. i = n - 1 /\ i + 1 = n
      BY <1>2, <1>3
    <3> QED
      BY <1>2, <1>6, <3>1
  <2>3. Strstr(file, <<".", "gif">>) /\ ~ Strstr(file, <<".", "html">>)
    BY <1>4, <2>1, <2>2, OwnSymbols
  <2> QED
    BY <1>6, <2>3 DEF RequestGetFiletype
<1> QED
  BY <1>5, <1>6

-----------------------------------------------------------------------------
(* requestParseURI.                                                        *)

(* What v and args, a path and arguments, have to do with the URI u.       *)
StaticOf(v, u) == v \in {u, u \o Home} /\ ~ IsSuffix(<<"/">>, v)
ScriptOf(v, args, u) ==
  \/ v = u /\ args = <<>> /\ ~ Strstr(u, <<"?">>)
  \/ v \o <<"?">> \o args = u /\ ~ Strstr(v, <<"?">>)

(* The path of a static file: home.html, the URI, or the home.html of the  *)
(* directory the URI names.                                                *)
LEMMA ParsedStatic ==
  ASSUME NEW u \in Texts
  PROVE  \E v \in Texts :
           /\ ParseStatic(u) = Static(Public \o v) /\ ~ Strstr(v, Dots)
           /\ ~ Strstr(u, Dots) => StaticOf(v, u)
<1>1. CASE Strstr(u, Dots)
  <2>1. ParseStatic(u) = Static(Public \o Home)
    BY <1>1 DEF ParseStatic, Dots
  <2>2. ~ StandTogether(Home, ".", ".")
    BY HomeIs DEF StandTogether
  <2>3. ~ Strstr(Home, Dots)
    BY <2>2, HomeIs, OwnSymbols, StrstrTwo DEF Dots, Texts
  <2> QED
    BY <1>1, <2>1, <2>3, HomeIs
<1>2. CASE ~ Strstr(u, Dots) /\ ~ EndsInSlash(u)
  <2>1. Public \o u \o <<>> = Public \o u
    BY PathOfFile, ConcatEmptySeq DEF Texts
  <2>2. ParseStatic(u) = Static(Public \o u)
    BY <1>2, <2>1 DEF ParseStatic, Dots
  <2>3. ASSUME IsSuffix(<<"/">>, u) PROVE FALSE
    <3>1. u # <<>> /\ u[Len(u)] = "/"
      BY <2>3, LastIsSlash DEF Texts
    <3> QED
      BY <1>2, <3>1 DEF EndsInSlash, Last
  <2> QED
    BY <1>2, <2>2, <2>3 DEF StaticOf
<1>3. CASE ~ Strstr(u, Dots) /\ EndsInSlash(u)
  <2> DEFINE v == u \o Home
  <2>1. /\ v \in Texts /\ Len(u) \in Nat /\ Len(v) = Len(u) + 3
        /\ \A i \in 1..Len(u) : v[i] = u[i]
        /\ v[Len(u) + 1] = "home" /\ v[Len(u) + 2] = "." /\ v[Len(u) + 3] = "html"
    <3>1. /\ v \in Texts /\ Len(v) = Len(u) + Len(Home)
          /\ \A i \in 1..Len(u) : v[i] = u[i]
          /\ \A i \in 1..Len(Home) : v[Len(u) + i] = Home[i]
      <4>1. u \in Seq(Symbols) /\ Home \in Seq(Symbols)
        BY HomeIs DEF Texts
      <4>2. /\ v \in Seq(Symbols) /\ Len(v) = Len(u) + Len(Home)
            /\ \A i \in 1..Len(u) : v[i] = u[i]
            /\ \A i \in 1..Len(Home) : v[Len(u) + i] = Home[i]
        BY ONLY <4>1, InARow
      <4> QED
        BY <4>2 DEF Texts
    <3>2. Len(u) \in Nat
      BY DEF Texts
    <3> HIDE DEF v
    <3> QED
      BY <3>1, <3>2, HomeIs
  <2>2. Public \o u \o Home = Public \o v
    <3>1. Public \in Seq(Symbols) /\ u \in Seq(Symbols) /\ Home \in Seq(Symbols)
      BY PathOfFile, HomeIs DEF Texts
    <3> QED
      BY ONLY <3>1, Regroup
  <2>3. ParseStatic(u) = Static(Public \o v)
    BY <1>3, <2>2 DEF ParseStatic, Dots
  <2> HIDE DEF v
  <2>4. 1 <= Len(u) /\ u[Len(u)] = "/"
    BY <1>3 DEF EndsInSlash, Last, Texts
  <2>5. ~ StandTogether(u, ".", ".")
    BY <1>3, OwnSymbols, StrstrTwo DEF Dots, Texts
  <2>6. ~ StandTogether(v, ".", ".")
    <3> SUFFICES ASSUME NEW i \in 1..(Len(v) - 1), v[i] = ".", v[i + 1] = "." PROVE FALSE
      BY DEF StandTogether
    <3>1. CASE i < Len(u)
      BY <2>1, <2>5, <3>1 DEF StandTogether
    <3>2. CASE i >= Len(u)
      <4>1. i = Len(u) \/ i = Len(u) + 1 \/ i = Len(u) + 2
        BY <2>1, <3>2
      <4> QED
        BY <2>1, <2>4, <4>1
    <3> QED
      BY <2>1, <3>1, <3>2
  <2>7. ~ Strstr(v, Dots)
    BY <2>1, <2>6, OwnSymbols, StrstrTwo DEF Dots, Texts
  <2>8. ASSUME IsSuffix(<<"/">>, v) PROVE FALSE
    <3>1. v[Len(v)] = "/"
      BY <2>1, <2>8, LastIsSlash
    <3> QED
      BY <2>1, <3>1
  <2> QED
    BY <1>3, <2>1, <2>3, <2>7, <2>8 DEF StaticOf, v
<1> QED
  BY <1>1, <1>2, <1>3

(* The path and the arguments of a script, cut at the first question mark. *)
LEMMA ParsedDynamic ==
  ASSUME NEW u \in Texts, ~ Strstr(u, Dots)
  PROVE  \E v \in Texts, args \in Texts :
           /\ ParseDynamic(u) = Dynamic(Public \o v, args) /\ ~ Strstr(v, Dots)
           /\ ScriptOf(v, args, u) /\ ~ Strstr(v, <<"?">>)
<1>1. CASE ~ Strstr(u, <<"?">>)
  <2>1. ParseDynamic(u) = Dynamic(Public \o u, <<>>)
    BY <1>1 DEF ParseDynamic
  <2>2. <<>> \in Texts
    BY DEF Texts
  <2> QED
    BY <1>1, <2>1, <2>2 DEF ScriptOf
<1>2. CASE Strstr(u, <<"?">>)
  <2> DEFINE q == First(u, "?")
             v == SubSeq(u, 1, q - 1)
             args == SubSeq(u, q + 1, Len(u))
  <2>1. /\ q \in 1..Len(u) /\ u[q] = "?" /\ \A j \in 1..(q - 1) : u[j] # "?"
    BY <1>2, OwnSymbols, StrstrOne, FirstIsFirst DEF Texts
  <2>2. ParseDynamic(u) = Dynamic(Public \o v, args)
    BY <1>2 DEF ParseDynamic
  <2> HIDE DEF q
  <2>3. Len(u) \in Nat /\ q \in Nat /\ 1 <= q /\ q <= Len(u)
    BY <2>1 DEF Texts
  <2>4. /\ v \in Texts /\ Len(v) = q - 1 /\ \A i \in 1..(q - 1) : v[i] = u[i]
    BY <2>3 DEF Texts
  <2>5. args \in Texts
    BY <2>3 DEF Texts
  <2>6. v \o <<"?">> \o args = u
    <3>1. SubSeq(u, q, q) = <<"?">>
      <4>1. SubSeq(u, q, q) \in Seq(Symbols) /\ Len(SubSeq(u, q, q)) = 1
            /\ SubSeq(u, q, q)[1] = u[q]
        BY <2>3 DEF Texts
      <4> QED
        BY <2>1, <4>1, ShortTexts
    <3>2. SubSeq(u, 1, q - 1) \o SubSeq(u, (q - 1) + 1, q) = SubSeq(u, 1, q)
      <4>1. /\ 1 \in 1..(Len(u) + 1) /\ q - 1 \in (1 - 1)..Len(u) /\ q \in (q - 1)..Len(u)
        BY <2>3
      <4> QED
        BY <4>1, ConcatAdjacentSubSeq DEF Texts
    <3>3. SubSeq(u, 1, q) \o SubSeq(u, q + 1, Len(u)) = SubSeq(u, 1, Len(u))
      <4>1. /\ 1 \in 1..(Len(u) + 1) /\ q \in (1 - 1)..Len(u) /\ Len(u) \in q..Len(u)
        BY <2>3
      <4> QED
        BY <4>1, ConcatAdjacentSubSeq DEF Texts
    <3>4. SubSeq(u, 1, Len(u)) = u /\ (q - 1) + 1 = q
      BY <2>3, SubSeqFull DEF Texts
    <3> QED
      BY <3>1, <3>2, <3>3, <3>4
  <2> HIDE DEF v, args
  <2>7. ~ Strstr(v, <<"?">>)
    <3>1. ~ Stands(v, "?")
      BY <2>1, <2>4 DEF Stands
    <3> QED
      BY <2>4, <3>1, OwnSymbols, StrstrOne DEF Texts
  <2>8. ~ Strstr(v, Dots)
    <3>1. ~ StandTogether(u, ".", ".")
      BY OwnSymbols, StrstrTwo DEF Dots, Texts
    <3>2. ~ StandTogether(v, ".", ".")
      BY <2>3, <2>4, <3>1 DEF StandTogether
    <3> QED
      BY <2>4, <3>2, OwnSymbols, StrstrTwo DEF Dots, Texts
  <2> QED
    BY <2>2, <2>4, <2>5, <2>6, <2>7, <2>8 DEF ScriptOf, v, args
<1> QED
  BY <1>1, <1>2

(* What ServedIsAsked says of a URI u and what it was parsed into.         *)
PathOf(p) == SubSeq(p.filename, Len(Public) + 1, Len(p.filename))
Follows(p, u) ==
  /\ IsPrefix(Public, p.filename) /\ ~ Strstr(p.filename, Dots)
  /\ ~ Strstr(u, Dots) =>
       IF p.is_static THEN StaticOf(PathOf(p), u) ELSE ScriptOf(PathOf(p), p.cgiargs, u)
  /\ \A k \in {"html", "gif"} :
       IsSuffix(<<".", k>>, PathOf(p)) /\ ~ Strstr(Front(Front(PathOf(p))), <<".">>) =>
         RequestGetFiletype(p.filename) = IF k = "gif" THEN "image/gif" ELSE "text/html"

(* What a file below ./public has in common, static or not.                *)
LEMMA FileFollows ==
  ASSUME NEW v \in Texts, NEW p, p.filename = Public \o v, ~ Strstr(v, Dots)
  PROVE  /\ PathOf(p) = v
         /\ IsPrefix(Public, p.filename) /\ ~ Strstr(p.filename, Dots)
         /\ \A k \in {"html", "gif"} :
              IsSuffix(<<".", k>>, PathOf(p)) /\ ~ Strstr(Front(Front(PathOf(p))), <<".">>) =>
                RequestGetFiletype(p.filename) = IF k = "gif" THEN "image/gif" ELSE "text/html"
<1>1. PathOf(p) = v
  <2>1. Len(Public) + 1 = 5
    BY PublicIs
  <2> QED
    BY <2>1, PathOfFile DEF PathOf
<1>2. IsPrefix(Public, p.filename) /\ ~ Strstr(p.filename, Dots)
  BY FileIsBelow
<1>3. ASSUME NEW k \in {"html", "gif"}, IsSuffix(<<".", k>>, v),
             ~ Strstr(Front(Front(v)), <<".">>)
      PROVE  RequestGetFiletype(p.filename) = IF k = "gif" THEN "image/gif" ELSE "text/html"
  BY <1>3, TypeOfFile
<1> QED
  BY <1>1, <1>2, <1>3

(* requestParseURI on any URI: what it gives follows from the URI, and in  *)
(* the array of a script's it leaves no question mark.                     *)
LEMMA ParsedFollows ==
  ASSUME NEW u \in Texts, NEW p, p = RequestParseURI(u)
  PROVE  /\ Follows(p, u)
         /\ Remaining(u, p) \in Texts
         /\ ~ p.is_static => ~ Strstr(Remaining(u, p), <<"?">>)
         /\ p.is_static \/ ~ Strstr(u, <<"?">>) => p.cgiargs = <<>>
<1>1. CASE Strstr(u, <<"cgi">>) /\ ~ Strstr(u, Dots)
  <2>1. p = ParseDynamic(u)
    BY <1>1 DEF RequestParseURI, Dots
  <2>2. PICK v \in Texts, args \in Texts :
          /\ ParseDynamic(u) = Dynamic(Public \o v, args) /\ ~ Strstr(v, Dots)
          /\ ScriptOf(v, args, u) /\ ~ Strstr(v, <<"?">>)
    BY <1>1, ParsedDynamic
  <2>3. p.filename = Public \o v /\ p.cgiargs = args /\ ~ p.is_static
    BY <2>1, <2>2 DEF Dynamic
  <2>4. PathOf(p) = v /\ Follows(p, u)
    <3>1. /\ PathOf(p) = v
          /\ IsPrefix(Public, p.filename) /\ ~ Strstr(p.filename, Dots)
          /\ \A k \in {"html", "gif"} :
               IsSuffix(<<".", k>>, PathOf(p)) /\ ~ Strstr(Front(Front(PathOf(p))), <<".">>) =>
                 RequestGetFiletype(p.filename)
                   = IF k = "gif" THEN "image/gif" ELSE "text/html"
      BY <2>2, <2>3, FileFollows
    <3>2. ScriptOf(PathOf(p), p.cgiargs, u)
      BY <2>2, <2>3, <3>1
    <3> QED
      BY <2>3, <3>1, <3>2 DEF Follows
  <2>5. Remaining(u, p) = v
    BY <2>3, <2>4 DEF Remaining, PathOf
  <2>6. p.is_static \/ ~ Strstr(u, <<"?">>) => p.cgiargs = <<>>
    BY <2>1, <2>3 DEF ParseDynamic, Dynamic
  <2> QED
    BY <2>2, <2>4, <2>5, <2>6
<1>2. CASE ~ (Strstr(u, <<"cgi">>) /\ ~ Strstr(u, Dots))
  <2>1. p = ParseStatic(u)
    BY <1>2 DEF RequestParseURI, Dots
  <2>2. PICK v \in Texts :
          /\ ParseStatic(u) = Static(Public \o v) /\ ~ Strstr(v, Dots)
          /\ ~ Strstr(u, Dots) => StaticOf(v, u)
    BY ParsedStatic
  <2>3. p.filename = Public \o v /\ p.cgiargs = <<>> /\ p.is_static
    BY <2>1, <2>2 DEF Static
  <2>4. Follows(p, u)
    BY <2>2, <2>3, FileFollows DEF Follows
  <2> QED
    BY <2>3, <2>4 DEF Remaining
<1> QED
  BY <1>1, <1>2

-----------------------------------------------------------------------------
(* Every request line.                                                     *)

(* The array holds a text, and once it was parsed no arguments that would  *)
(* be parsed again: a script's are cut off, a file's URI never gives any.  *)
LineInv ==
  /\ uri \in Texts
  /\ ~ unparsed => RequestParseURI(uri).cgiargs = <<>>
  /\ ServedIsAsked

(* The URIs are texts.                                                     *)
LEMMA UrisTyped == Uris \subseteq Texts
<1> SUFFICES ASSUME NEW u \in Uris PROVE u \in Texts
  OBVIOUS
<1>1. u \in Seq(Range(u))
  BY UrisAssumption
<1>2. Range(u) \subseteq Symbols
  BY DEF Symbols
<1> QED
  BY <1>1, <1>2 DEF Texts

(* What a request finds in the array: its own URI, or that of the thread's *)
(* last request.                                                           *)
LEMMA AskedTyped ==
  ASSUME LineInv, RequestHandle
  PROVE  asked' \in Texts /\ (Len(line') # 2 => asked' = uri)
<1>1. line' \in Lines /\ asked' = IF Len(line') < 2 THEN uri ELSE line'[2]
  BY DEF RequestHandle
<1>2. CASE line' = <<>>
  BY <1>1, <1>2 DEF LineInv
<1>3. CASE \E m \in {"GET", "POST"} : line' = <<m>>
  BY <1>1, <1>3 DEF LineInv
<1>4. CASE \E m \in {"GET", "POST"}, u \in Uris : line' = <<m, u>>
  <2>1. PICK m \in {"GET", "POST"}, u \in Uris : line' = <<m, u>>
    BY <1>4
  <2>2. Len(line') = 2 /\ line'[2] = u
    BY <2>1
  <2> QED
    BY <1>1, <2>1, <2>2, UrisTyped
<1> QED
  BY <1>1, <1>2, <1>3, <1>4 DEF Lines

(* Every request line keeps LineInv.                                       *)
LEMMA LineStep == LineInv /\ [Next]_vars => LineInv'
<1>1. ASSUME LineInv, RequestHandle PROVE LineInv'
  <2>1. asked' \in Texts
    BY <1>1, AskedTyped
  <2>2. CASE method' = "GET"
    <3>1. served' = RequestParseURI(asked') /\ uri' = Remaining(asked', served')
      BY <1>1, <2>2 DEF RequestHandle
    <3>2. /\ Follows(served', asked') /\ Remaining(asked', served') \in Texts
          /\ ~ served'.is_static => ~ Strstr(Remaining(asked', served'), <<"?">>)
          /\ served'.is_static => served'.cgiargs = <<>>
      BY <2>1, <3>1, ParsedFollows
    <3>3. ServedIsAsked'
      BY <3>2 DEF ServedIsAsked, Follows, StaticOf, ScriptOf, PathOf, Path, Dots
    <3>4. RequestParseURI(uri').cgiargs = <<>>
      <4>1. CASE served'.is_static
        BY <3>1, <3>2, <4>1 DEF Remaining
      <4>2. CASE ~ served'.is_static
        <5>1. uri' \in Texts /\ ~ Strstr(uri', <<"?">>)
          BY <3>1, <3>2, <4>2
        <5> QED
          BY <5>1, ParsedFollows
      <4> QED
        BY <4>1, <4>2
    <3> QED
      BY <3>1, <3>2, <3>3, <3>4 DEF LineInv
  <2>3. CASE method' # "GET"
    <3>1. served' = Nothing /\ uri' = asked' /\ unparsed' = (unparsed \/ Len(line') = 2)
      BY <1>1, <2>3 DEF RequestHandle
    <3>2. ASSUME ~ unparsed' PROVE RequestParseURI(uri').cgiargs = <<>>
      BY <1>1, <3>1, <3>2, AskedTyped DEF LineInv
    <3> QED
      BY <2>1, <3>1, <3>2 DEF LineInv, ServedIsAsked, Nothing, Static
  <2> QED
    BY <2>2, <2>3
<1>2. ASSUME LineInv, UNCHANGED vars PROVE LineInv'
  BY <1>2 DEF LineInv, ServedIsAsked, Path, vars
<1> QED
  BY <1>1, <1>2 DEF Next

(* LineInv is an invariant: what the array holds is a URI as               *)
(* requestParseURI left it, or one that no GET has parsed.                 *)
THEOREM LineInvariant == Spec => []LineInv
<1>1. Init => LineInv
  <2> SUFFICES ASSUME Init PROVE LineInv
    OBVIOUS
  <2>1. <<>> \in Texts
    BY DEF Texts
  <2> QED
    <3>1. ~ Strstr(<<>>, <<"?">>)
      <4>1. Len(<<>>) - Len(<<"?">>) = -1 /\ 0..(-1) = {}
        OBVIOUS
      <4> QED
        BY <4>1 DEF Strstr
    <3>2. RequestParseURI(<<>>).cgiargs = <<>>
      BY <2>1, <3>1, ParsedFollows
    <3> QED
      BY <2>1, <3>2 DEF Init, LineInv, ServedIsAsked, Nothing, Static
<1> QED
  BY <1>1, LineStep, PTL DEF Spec

(* What is served is what was asked, for every URI a client may send: the  *)
(* file lies below ./public, nothing of the URI is lost or moved, and the  *)
(* type is that of the extension (requestParseURI, requestGetFiletype).    *)
THEOREM WhatIsServed == Spec => []ServedIsAsked
BY LineInvariant, PTL DEF LineInv

(* A line without a URI of its own runs a script with arguments only where *)
(* no GET has parsed the URI in the array: requestParseURI cuts off what a *)
(* script was given, so that no second one gets it.                        *)
THEOREM ArgsAreOwn == Spec => ArgsReachOneScript
<1>1. LineInv /\ [Next]_vars =>
        [Len(line') < 2 /\ served'.cgiargs # <<>> => unparsed]_vars
  <2> SUFFICES ASSUME LineInv, RequestHandle, Len(line') < 2, ~ unparsed
               PROVE  served'.cgiargs = <<>>
    BY DEF Next
  <2>1. asked' = uri
    BY AskedTyped
  <2>2. CASE method' = "GET"
    BY <2>1, <2>2 DEF RequestHandle, LineInv
  <2>3. CASE method' # "GET"
    <3>1. served' = Nothing
      BY <2>3 DEF RequestHandle
    <3> QED
      BY <3>1 DEF Nothing, Static
  <2> QED
    BY <2>2, <2>3
<1> QED
  BY <1>1, LineInvariant, PTL DEF Spec, ArgsReachOneScript
=============================================================================
