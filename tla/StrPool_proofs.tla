---------------------------- MODULE StrPool_proofs ----------------------------
(* Proofs about StrPool, for two threads in any order, every size of the     *)
(* block, every length of a string and of a vector, and every hash function. *)
EXTENDS StrPool, TLAPS

Placing(t) == pc[t] \in {"check", "take", "advance", "fill"}
EndOf(p)   == p.at + p.size

-----------------------------------------------------------------------------
(* The parts of the invariants                                               *)

\* What a thread asks for is not empty, and it knows what it asks for.
AppAsks ==
    /\ pc["app"] # "grow"
    /\ Placing("app") => /\ rest # <<>>
                         /\ text["app"] \in Strings
                         /\ size["app"] = Bytes[text["app"]]

\* The pieces of a save, by the stage it has come to.
KeyPieces == \A i \in 1..Len(got["net"]) : /\ got["net"][i].text = Key
                                           /\ got["net"][i].size = Bytes[Key]
NetAsks ==
    /\ pc["net"] \in {"idle", "check", "take", "advance", "fill", "grow", "held"}
    /\ pc["net"] = "idle" => got["net"] = <<>>
    /\ Placing("net") => \/ /\ text["net"] = Key /\ size["net"] = Bytes[Key]
                            /\ Len(got["net"]) \in 0..2 /\ KeyPieces
                         \/ /\ text["net"] = Payload /\ size["net"] >= 1
                            /\ Len(got["net"]) \in 1..2
    /\ pc["net"] = "grow" => text["net"] = Payload /\ size["net"] >= 1
    /\ pc["net"] \in {"grow", "held"} => Len(got["net"]) = 2

TypeInv == TypeOK /\ AppAsks /\ NetAsks

\* At most one thread is inside lt_allocate or writes what it was given.
OneInside == ~(Inside("app") /\ Inside("net"))

\* The request was tested against the rest of the block, and nobody has moved
\* the rest since; the piece lies before it.
Tested(t) ==
    /\ pc[t] \in {"take", "advance"} => last + size[t] < Size \/ last = 0
    /\ pc[t] = "advance" => at[t] = last
    /\ pc[t] = "fill" => at[t] + size[t] = last /\ (last < Size \/ at[t] = 0)

\* A place that is handed out, and not to be written again.
Behind(n) == n <= last /\ \A t \in Threads : pc[t] = "fill" => n <= at[t]

AllocInv ==
    ~clash => /\ OneInside
              /\ \A t \in Threads : Tested(t)
              /\ \A p \in fresh : p.size >= 1 /\ Behind(EndOf(p))

\* At place n lies a string of the hash h.
Answers(h, n) ==
    \E s \in Strings : /\ HashOf[s] = h /\ n \in Nat
                       /\ Behind(n + Bytes[s])
                       /\ Holds([at |-> n, size |-> Bytes[s]], s)

AnswersInv ==
    ~anew /\ ~clash =>
        /\ last < Size
        /\ \A t \in Threads : pc[t] \in {"take", "advance"} => last + size[t] < Size
        /\ \A h \in Hashes : cache[h] # Nowhere => Answers(h, cache[h])
        /\ \A i \in 1..Len(got["app"]) : Answers(HashOf[got["app"][i].text], got["app"][i].at)

\* The save has asked for its first piece.
Started == pc["net"] # "idle" /\ ~(pc["net"] = "check" /\ got["net"] = <<>>)

\* Where the block's rest begins once the request under way is served.
Claimed(t) == IF pc[t] \in {"take", "advance"} THEN size[t] ELSE 0
Top == last + Claimed("app") + Claimed("net")

\* The piece lies within what was asked for since the save began: before the
\* rest of the block, or at the end of the block that was left when it was
\* begun anew.
Kept(p) ==
    /\ p.size >= 1 /\ EndOf(p) <= Size /\ Intact(p)
    /\ \/ Behind(EndOf(p)) /\ Top <= p.at + spent
       \/ Top <= spent /\ Size <= p.at + spent

SaveInv ==
    Started /\ ~torn /\ 2 * spent <= Size =>
        /\ OneInside
        /\ \A t \in Threads : Tested(t)
        /\ \A t \in Threads : Inside(t) => size[t] <= spent
        /\ \A i \in 1..Len(got["net"]) : Kept(got["net"][i])

-----------------------------------------------------------------------------
(* Types                                                                     *)

\* What PoolAssumption says of the numbers.
LEMMA Numbers ==
    /\ Size \in Nat /\ Size >= 1 /\ Key # Payload
    /\ \A s \in Strings \cup {Key} : Bytes[s] \in Nat /\ Bytes[s] >= 1
BY PoolAssumption

\* The record of a thread's piece is a piece.
LEMMA PieceIsTyped ==
    ASSUME TypeOK, NEW t \in Threads PROVE Piece(t) \in Pieces
BY DEF TypeOK, Piece, Pieces

\* Writing texts into the block leaves a block.
LEMMA FilledIsTyped ==
    ASSUME TypeOK, NEW bytes, \A i \in DOMAIN bytes : bytes[i] \in Texts
    PROVE  Filled(bytes) \in [0..Size - 1 -> Texts]
BY DEF TypeOK, Filled

\* What is read from memory is a text.
LEMMA ByteIsText == ASSUME TypeOK, NEW i PROVE Byte(i) \in Texts
BY DEF TypeOK, Byte, Texts

\* What is copied is a text.
LEMMA CopiedIsText ==
    ASSUME TypeOK, NEW old, NEW p, NEW i PROVE Copied(old, p, i) \in Texts
BY ByteIsText DEF Copied, Texts

\* One more piece in a thread's hands.
LEMMA AppendedPiece ==
    ASSUME NEW g \in [Threads -> Seq(Pieces)], NEW t \in Threads, NEW p \in Pieces
    PROVE  [g EXCEPT ![t] = Append(@, p)] \in [Threads -> Seq(Pieces)]
<1>1. Append(g[t], p) \in Seq(Pieces)
  OBVIOUS
<1> QED BY <1>1

\* What Append does to a sequence.
LEMMA Appended ==
    ASSUME NEW S, NEW g \in Seq(S), NEW p \in S
    PROVE  /\ Len(Append(g, p)) = Len(g) + 1
           /\ \A i \in 1..Len(g) : Append(g, p)[i] = g[i]
           /\ Append(g, p)[Len(g) + 1] = p
<1>1. Len(Append(g, p)) = Len(g) + 1
  OBVIOUS
<1>2. \A i \in 1..Len(g) : Append(g, p)[i] = g[i]
  OBVIOUS
<1>3. Append(g, p)[Len(g) + 1] = p
  OBVIOUS
<1> QED BY <1>1, <1>2, <1>3

\* A sequence of one element, and one more.
LEMMA OneMore ==
    ASSUME NEW S, NEW g \in Seq(S), NEW p \in S
    PROVE  Len(g) = 1 => Len(Append(g, p)) = 2 /\ Append(g, p)[1] = g[1] /\ Append(g, p)[2] = p
<1>1. /\ Len(Append(g, p)) = Len(g) + 1
      /\ \A i \in 1..Len(g) : Append(g, p)[i] = g[i]
      /\ Append(g, p)[Len(g) + 1] = p
  BY Appended
<1>2. Len(g) = 1 => 1 \in 1..Len(g) /\ Len(g) + 1 = 2
  OBVIOUS
<1> QED BY <1>1, <1>2, Zenon

\* The initial states satisfy TypeInv.
LEMMA InitTypeInv == Init => TypeInv
<1> SUFFICES ASSUME Init PROVE TypeInv
  OBVIOUS
<1>1. TypeOK
  <2>1. 0 \in 0..MaxCalls /\ Junk \in Texts
    BY PoolAssumption DEF Texts
  <2>2. /\ mem \in [0..Size - 1 -> Texts]
        /\ cache \in [Hashes -> Nat \cup {Nowhere}]
        /\ text \in [Threads -> Texts]
    BY <2>1 DEF Init
  <2>3. /\ pc \in [Threads -> {"idle", "lookup", "check", "take", "advance",
                               "fill", "grow", "held"}]
        /\ size \in [Threads -> Nat] /\ at \in [Threads -> Nat]
        /\ got \in [Threads -> Seq(Pieces)]
    BY DEF Init
  <2>4. rest \in Seq(Strings) /\ fresh \subseteq Pieces
    BY DEF Init
  <2> QED BY <2>1, <2>2, <2>3, <2>4 DEF Init, TypeOK
<1>2. AppAsks /\ NetAsks
  BY DEF Init, AppAsks, NetAsks, Placing, Threads
<1> QED BY <1>1, <1>2 DEF TypeInv

\* A request is for at least one byte.
LEMMA RequestIsPositive ==
    ASSUME TypeInv, NEW t \in Threads, Placing(t)
    PROVE  size[t] \in Nat /\ size[t] >= 1
BY Numbers DEF TypeInv, TypeOK, AppAsks, NetAsks, Threads

\* lt_allocate preserves TypeInv.
LEMMA AllocateTypeInv ==
    ASSUME TypeInv, NEW t \in Threads, Check(t) \/ Take(t) \/ Advance(t)
    PROVE  TypeInv'
<1>1. /\ Placing(t) /\ Placing(t)'
      /\ pc' \in [Threads -> {"idle", "lookup", "check", "take", "advance",
                              "fill", "grow", "held"}]
      /\ \A u \in Threads \ {t} : pc'[u] = pc[u]
      /\ pc'[t] \in {"take", "advance", "fill"}
      /\ UNCHANGED <<mem, cache, text, size, rest, got, calls>>
  BY DEF TypeInv, TypeOK, Placing, Check, Take, Advance, Go, poolVars, history
<1>2. AppAsks' /\ NetAsks'
  <2>1. CASE t = "app"
    BY <1>1, <2>1 DEF TypeInv, AppAsks, NetAsks, KeyPieces, Placing, Threads
  <2>2. CASE t = "net"
    BY <1>1, <2>2 DEF TypeInv, AppAsks, NetAsks, KeyPieces, Placing, Threads
  <2> QED BY <2>1, <2>2 DEF Threads
<1>3. last' \in Nat /\ at' \in [Threads -> Nat] /\ spent' \in Nat /\ fresh' \subseteq Pieces
  <2>1. size[t] \in Nat /\ last \in Nat /\ spent \in Nat
    BY DEF TypeInv, TypeOK
  <2> QED BY <2>1 DEF TypeInv, TypeOK, Check, Take, Advance, Beyond, poolVars, history
<1>4. anew' \in BOOLEAN /\ clash' \in BOOLEAN /\ torn' \in BOOLEAN
  BY Zenon DEF TypeInv, TypeOK, Check, Take, Advance, Overlaps, Inside, poolVars, history
<1> QED BY <1>1, <1>2, <1>3, <1>4 DEF TypeInv, TypeOK


\* A query of the application preserves TypeInv.
LEMMA QueryTypeInv ==
    ASSUME TypeInv, NEW r \in Strings, NEW s \in Strings, Query(r, s)
    PROVE  TypeInv'
<1>1. /\ rest' = <<r, s>> /\ pc' = [pc EXCEPT !["app"] = "lookup"]
      /\ calls < MaxCalls /\ calls' = calls + 1
      /\ UNCHANGED <<last, mem, cache, text, size, at, got, fresh, anew, clash, torn, spent>>
  BY DEF Query, Begins, Go, poolVars, history
<1>2. rest' \in Seq(Strings) /\ calls' \in 0..MaxCalls
  BY <1>1, PoolAssumption DEF TypeInv, TypeOK
<1>3. TypeOK'
  BY <1>1, <1>2 DEF TypeInv, TypeOK
<1>4. AppAsks' /\ NetAsks'
  BY <1>1 DEF TypeInv, TypeOK, AppAsks, NetAsks, KeyPieces, Placing, Threads
<1> QED BY <1>3, <1>4 DEF TypeInv

\* So does a string that is looked up,
LEMMA LookupTypeInv ==
    ASSUME TypeInv, Lookup PROVE TypeInv'
<1> DEFINE s == Head(rest)
           p == [text |-> s, at |-> cache[HashOf[s]], size |-> Bytes[s]]
<1>1. /\ pc["app"] = "lookup" /\ rest # <<>> /\ s \in Strings /\ Tail(rest) \in Seq(Strings)
      /\ UNCHANGED <<last, mem, cache, at, fresh, anew, clash, torn, spent, calls>>
  BY DEF Lookup, TypeInv, TypeOK, poolVars, history
<1>2. cache[HashOf[s]] \in Nat \cup {Nowhere} /\ Bytes[s] \in Nat /\ s \in Texts
  BY <1>1, Numbers DEF TypeInv, TypeOK, Hashes, Texts
<1>3. CASE Found(s)
  <2>1. /\ got' = [got EXCEPT !["app"] = Append(@, p)] /\ rest' = Tail(rest)
        /\ UNCHANGED <<pc, text, size>>
    BY <1>3 DEF Lookup
  <2>2. p \in Pieces
    BY <1>2, <1>3 DEF Found, Pieces
  <2> HIDE DEF p
  <2>3. got' \in [Threads -> Seq(Pieces)] /\ got'["net"] = got["net"]
    BY <2>1, <2>2, AppendedPiece DEF TypeInv, TypeOK, Threads
  <2>4. TypeOK'
    BY <1>1, <2>1, <2>3 DEF TypeInv, TypeOK
  <2>5. AppAsks' /\ NetAsks'
    BY <1>1, <2>1, <2>3 DEF TypeInv, AppAsks, NetAsks, KeyPieces, Placing
  <2> QED BY <2>4, <2>5 DEF TypeInv
<1>4. CASE ~Found(s)
  <2>1. /\ text' = [text EXCEPT !["app"] = s]
        /\ size' = [size EXCEPT !["app"] = Bytes[s]]
        /\ pc' = [pc EXCEPT !["app"] = "check"]
        /\ UNCHANGED <<got, rest>>
    BY <1>4 DEF Lookup, Go
  <2> HIDE DEF s
  <2>2. TypeOK'
    BY <1>1, <1>2, <2>1 DEF TypeInv, TypeOK
  <2>3. AppAsks' /\ NetAsks'
    BY <1>1, <2>1 DEF TypeInv, TypeOK, AppAsks, NetAsks, KeyPieces, Placing, Threads
  <2> QED BY <2>2, <2>3 DEF TypeInv
<1> QED BY <1>3, <1>4

\* one that is placed,
LEMMA FillStringTypeInv ==
    ASSUME TypeInv, FillString PROVE TypeInv'
<1> DEFINE p == Piece("app")
           bytes == [i \in Cells(p) |-> p.text]
<1>1. /\ pc["app"] = "fill" /\ mem' = Filled(bytes) /\ fresh' = fresh \cup {p}
      /\ got' = [got EXCEPT !["app"] = Append(@, p)]
      /\ cache' = [cache EXCEPT ![HashOf[p.text]] = p.at]
      /\ rest' = Tail(rest) /\ pc' = [pc EXCEPT !["app"] = "lookup"]
      /\ UNCHANGED <<last, anew, clash, torn, spent, at, calls, text, size>>
  BY DEF FillString, Fill, Go
<1>2. p \in Pieces /\ p.text \in Texts /\ p.at \in Nat
  BY PieceIsTyped DEF TypeInv, Threads, Pieces
<1>3. Filled(bytes) \in [0..Size - 1 -> Texts]
  BY <1>2, FilledIsTyped DEF TypeInv
<1>4. rest # <<>> /\ Tail(rest) \in Seq(Strings)
  BY <1>1 DEF TypeInv, TypeOK, AppAsks, Placing
<1> HIDE DEF p, bytes
<1>5. got' \in [Threads -> Seq(Pieces)] /\ got'["net"] = got["net"]
  BY <1>1, <1>2, AppendedPiece DEF TypeInv, TypeOK, Threads
<1>6. cache' \in [Hashes -> Nat \cup {Nowhere}]
  BY <1>1, <1>2 DEF TypeInv, TypeOK
<1>7. TypeOK'
  BY <1>1, <1>2, <1>3, <1>4, <1>5, <1>6 DEF TypeInv, TypeOK
<1>8. AppAsks' /\ NetAsks'
  BY <1>1, <1>5 DEF TypeInv, TypeOK, AppAsks, NetAsks, KeyPieces, Placing, Threads
<1> QED BY <1>7, <1>8 DEF TypeInv

\* an answer,
LEMMA AnswerTypeInv ==
    ASSUME TypeInv, Answer PROVE TypeInv'
<1>1. /\ pc["app"] = "lookup" /\ pc' = [pc EXCEPT !["app"] = "held"]
      /\ UNCHANGED <<last, mem, cache, text, size, at, rest, got,
                     fresh, anew, clash, torn, spent, calls>>
  BY DEF Answer, Go, poolVars, history
<1> QED BY <1>1 DEF TypeInv, TypeOK, AppAsks, NetAsks, KeyPieces, Placing, Threads

\* what is copied or finalized,
LEMMA ReleaseTypeInv ==
    ASSUME TypeInv, NEW t \in Threads, Release(t) PROVE TypeInv'
<1>1. /\ pc[t] = "held" /\ pc' = [pc EXCEPT ![t] = "idle"]
      /\ got' = [got EXCEPT ![t] = <<>>]
      /\ UNCHANGED <<last, mem, cache, text, size, at, rest,
                     fresh, anew, clash, torn, spent, calls>>
  BY DEF Release, Go, poolVars, history
<1>2. TypeOK'
  BY <1>1 DEF TypeInv, TypeOK
<1>3. AppAsks' /\ NetAsks'
  <2>1. CASE t = "app"
    BY <1>1, <2>1 DEF TypeInv, TypeOK, AppAsks, NetAsks, KeyPieces, Placing, Threads
  <2>2. CASE t = "net"
    BY <1>1, <2>2 DEF TypeInv, TypeOK, AppAsks, NetAsks, KeyPieces, Placing, Threads
  <2> QED BY <2>1, <2>2 DEF Threads
<1> QED BY <1>2, <1>3 DEF TypeInv

\* and a save.
LEMMA SaveTypeInv ==
    ASSUME TypeInv, Save PROVE TypeInv'
<1>1. /\ pc["net"] = "idle" /\ pc' = [pc EXCEPT !["net"] = "check"]
      /\ calls < MaxCalls /\ calls' = calls + 1
      /\ text' = [text EXCEPT !["net"] = Key]
      /\ size' = [size EXCEPT !["net"] = Bytes[Key]]
      /\ torn' = FALSE /\ spent' = 0
      /\ UNCHANGED <<last, mem, cache, at, rest, got, fresh, anew, clash>>
  BY DEF Save, Begins, Go, poolVars
<1>2. calls' \in 0..MaxCalls /\ Bytes[Key] \in Nat /\ Key \in Texts
  BY <1>1, PoolAssumption, Numbers DEF TypeInv, TypeOK, Texts
<1>3. TypeOK'
  BY <1>1, <1>2 DEF TypeInv, TypeOK
<1>4. AppAsks' /\ NetAsks'
  BY <1>1 DEF TypeInv, TypeOK, AppAsks, NetAsks, KeyPieces, Placing, Threads
<1> QED BY <1>3, <1>4 DEF TypeInv

\* What the callback thread writes, and the pieces it holds.
NetFill == FillStream \/ FillText \/ FillKey \/ FillBuffer
LEMMA NetFillTypeInv ==
    ASSUME TypeInv, NetFill PROVE TypeInv'
<1> DEFINE p == Piece("net")
           old == Final(got["net"])
<1>1. p \in Pieces /\ got["net"] \in Seq(Pieces) /\ p.text = text["net"]
      /\ p.size = size["net"]
  BY PieceIsTyped DEF TypeInv, TypeOK, Threads, Piece
<1>2. pc["net"] = "fill" /\ Key # Payload /\ {Key, Payload} \subseteq Texts
  BY Numbers DEF NetFill, FillStream, FillText, FillKey, FillBuffer, Fill, Texts
<1>3. /\ fresh' = fresh \cup {p}
      /\ UNCHANGED <<last, cache, anew, clash, torn, spent, at, rest, calls>>
  BY DEF NetFill, FillStream, FillText, FillKey, FillBuffer, Fill
<1>4. mem' \in [0..Size - 1 -> Texts]
  <2>1. CASE FillStream
    <3> DEFINE bytes == [i \in Cells(p) |-> Key]
    <3>1. mem' = Filled(bytes)
      BY <2>1 DEF FillStream, Fill
    <3> QED BY <1>2, <3>1, FilledIsTyped DEF TypeInv
  <2>2. CASE FillText \/ FillKey
    <3> DEFINE bytes == [i \in Cells(p) |-> Copied(old, p, i)]
    <3>1. mem' = Filled(bytes)
      BY <2>2 DEF FillText, FillKey, Fill
    <3> QED BY <3>1, CopiedIsText, FilledIsTyped DEF TypeInv
  <2>3. CASE FillBuffer
    <3> DEFINE bytes == [i \in Cells(p) |->
                            IF old.text = Payload /\ i - p.at < old.size
                            THEN Copied(old, p, i) ELSE Payload]
    <3>1. mem' = Filled(bytes)
      BY <2>3 DEF FillBuffer, Fill
    <3> QED BY <1>2, <3>1, CopiedIsText, FilledIsTyped DEF TypeInv
  <2> QED BY <2>1, <2>2, <2>3 DEF NetFill
<1> HIDE DEF p
<1>5. \/ /\ text["net"] = Key /\ got["net"] = <<>>
         /\ got' = [got EXCEPT !["net"] = <<p>>]
         /\ pc' = [pc EXCEPT !["net"] = "check"] /\ UNCHANGED <<text, size>>
      \/ /\ text["net"] = Key /\ Len(got["net"]) = 1
         /\ got' = [got EXCEPT !["net"] = Append(@, p)]
         /\ pc' = [pc EXCEPT !["net"] = "check"] /\ UNCHANGED <<text, size>>
      \/ /\ text["net"] = Key /\ Len(got["net"]) = 2
         /\ got' = [got EXCEPT !["net"] = <<p>>]
         /\ pc' = [pc EXCEPT !["net"] = "check"]
         /\ text' = [text EXCEPT !["net"] = Payload]
         /\ size' = [size EXCEPT !["net"] = 1]
      \/ /\ text["net"] = Payload
         /\ got' = [got EXCEPT !["net"] = <<Head(@), p>>]
         /\ pc' = [pc EXCEPT !["net"] = "grow"] /\ UNCHANGED <<text, size>>
  BY DEF NetFill, FillStream, FillText, FillKey, FillBuffer, Go, p
<1>6. TypeOK'
  <2>1. got' \in [Threads -> Seq(Pieces)]
    <3>1. text["net"] = Payload => Head(got["net"]) \in Pieces
      BY <1>1, <1>2 DEF TypeInv, NetAsks, Placing
    <3>2. \A g \in Seq(Pieces) : [got EXCEPT !["net"] = g] \in [Threads -> Seq(Pieces)]
      BY DEF TypeInv, TypeOK
    <3>3. <<p>> \in Seq(Pieces) /\ Append(got["net"], p) \in Seq(Pieces)
      BY <1>1
    <3>4. text["net"] = Payload => <<Head(got["net"]), p>> \in Seq(Pieces)
      BY <1>1, <3>1
    <3> QED BY <1>5, <3>2, <3>3, <3>4 DEF TypeInv, TypeOK, Threads
  <2>2. pc' \in [Threads -> {"idle", "lookup", "check", "take", "advance",
                             "fill", "grow", "held"}]
    BY <1>5 DEF TypeInv, TypeOK
  <2>3. text' \in [Threads -> Texts] /\ size' \in [Threads -> Nat]
    <3>1. \/ UNCHANGED <<text, size>>
          \/ /\ text' = [text EXCEPT !["net"] = Payload]
             /\ size' = [size EXCEPT !["net"] = 1]
      BY <1>5
    <3>2. CASE UNCHANGED <<text, size>>
      BY <3>2 DEF TypeInv, TypeOK
    <3>3. CASE /\ text' = [text EXCEPT !["net"] = Payload]
               /\ size' = [size EXCEPT !["net"] = 1]
      BY <1>2, <3>3 DEF TypeInv, TypeOK
    <3> QED BY <3>1, <3>2, <3>3
  <2>4. fresh' \subseteq Pieces
    BY <1>1, <1>3 DEF TypeInv, TypeOK
  <2> QED BY <1>3, <1>4, <2>1, <2>2, <2>3, <2>4 DEF TypeInv, TypeOK
<1>7. AppAsks'
  BY <1>3, <1>5 DEF TypeInv, TypeOK, AppAsks, Placing, Threads
<1>8. NetAsks'
  <2>1. \/ /\ pc'["net"] = "check" /\ text'["net"] = Key /\ size'["net"] = Bytes[Key]
           /\ got'["net"] = <<p>>
        \/ /\ pc'["net"] = "check" /\ text'["net"] = Key /\ size'["net"] = Bytes[Key]
           /\ Len(got["net"]) = 1 /\ got'["net"] = Append(got["net"], p)
        \/ /\ pc'["net"] = "check" /\ text'["net"] = Payload /\ size'["net"] = 1
           /\ got'["net"] = <<p>>
        \/ /\ pc'["net"] = "grow" /\ text'["net"] = Payload /\ size'["net"] >= 1
           /\ got'["net"] = <<Head(got["net"]), p>>
    BY <1>2, <1>5 DEF TypeInv, TypeOK, NetAsks, Placing, Threads
  <2>2. text["net"] = Key => /\ p.text = Key /\ p.size = Bytes[Key] /\ KeyPieces
    BY <1>1, <1>2 DEF TypeInv, NetAsks, Placing
  <2>3. text'["net"] = Key => text["net"] = Key
    BY <1>2, <1>5 DEF TypeInv, TypeOK, Threads
  <2>4. text'["net"] = Key => KeyPieces'
    BY <1>1, <1>2, <2>1, <2>2, <2>3 DEF KeyPieces
  <2>5. Len(got'["net"]) \in 1..2 /\ (pc'["net"] = "grow" => Len(got'["net"]) = 2)
    <3>1. Len(<<p>>) = 1 /\ Len(<<Head(got["net"]), p>>) = 2
      OBVIOUS
    <3>2. Len(got["net"]) = 1 => Len(Append(got["net"], p)) = 2
      BY <1>1, OneMore
    <3>3. \/ pc'["net"] = "check" /\ got'["net"] = <<p>>
          \/ pc'["net"] = "check" /\ Len(got["net"]) = 1 /\ got'["net"] = Append(got["net"], p)
          \/ pc'["net"] = "grow" /\ got'["net"] = <<Head(got["net"]), p>>
      BY <2>1, Zenon
    <3>4. CASE pc'["net"] = "check" /\ got'["net"] = <<p>>
      BY <3>1, <3>4
    <3>5. CASE /\ pc'["net"] = "check" /\ Len(got["net"]) = 1
               /\ got'["net"] = Append(got["net"], p)
      BY <3>2, <3>5
    <3>6. CASE pc'["net"] = "grow" /\ got'["net"] = <<Head(got["net"]), p>>
      BY <3>1, <3>6
    <3> QED BY <3>3, <3>4, <3>5, <3>6
  <2> QED BY <2>1, <2>4, <2>5 DEF NetAsks, Placing
<1> QED BY <1>6, <1>7, <1>8 DEF TypeInv

\* The vector that grows, or is bound, preserves TypeInv.
LEMMA GrowTypeInv ==
    ASSUME TypeInv, GrowOrBind PROVE TypeInv'
<1>1. /\ pc["net"] = "grow" /\ text["net"] = Payload
      /\ size["net"] \in Nat /\ size["net"] >= 1 /\ Len(got["net"]) = 2
      /\ UNCHANGED <<last, mem, cache, text, at, rest, got,
                     fresh, anew, clash, torn, spent, calls>>
  BY DEF GrowOrBind, TypeInv, TypeOK, NetAsks, Threads, poolVars, history
<1>2. \/ /\ size' = [size EXCEPT !["net"] = 2 * size["net"]]
         /\ pc' = [pc EXCEPT !["net"] = "check"]
      \/ pc' = [pc EXCEPT !["net"] = "held"] /\ UNCHANGED size
  BY DEF GrowOrBind, Go, TypeInv, TypeOK, Threads
<1>3. TypeOK'
  <2>1. size' \in [Threads -> Nat]
    <3>1. 2 * size["net"] \in Nat
      BY <1>1
    <3> QED BY <1>2, <3>1 DEF TypeInv, TypeOK
  <2>2. pc' \in [Threads -> {"idle", "lookup", "check", "take", "advance",
                             "fill", "grow", "held"}]
    BY <1>2 DEF TypeInv, TypeOK
  <2> QED BY <1>1, <2>1, <2>2 DEF TypeInv, TypeOK
<1>4. AppAsks'
  BY <1>1, <1>2 DEF TypeInv, TypeOK, AppAsks, Placing, Threads
<1>5. NetAsks'
  BY <1>1, <1>2 DEF TypeInv, TypeOK, NetAsks, Placing, Threads
<1> QED BY <1>3, <1>4, <1>5 DEF TypeInv

\* Every step preserves TypeInv.
LEMMA NextTypeInv == TypeInv /\ [Next]_vars => TypeInv'
<1> SUFFICES ASSUME TypeInv, [Next]_vars PROVE TypeInv'
  OBVIOUS
<1>1. CASE Next
  BY <1>1, AllocateTypeInv, ReleaseTypeInv, QueryTypeInv, LookupTypeInv, FillStringTypeInv,
     AnswerTypeInv, SaveTypeInv, NetFillTypeInv, GrowTypeInv
  DEF Next, NetFill
<1>2. CASE UNCHANGED vars
  BY <1>2 DEF vars, poolVars, callVars, history, TypeInv, TypeOK, AppAsks, NetAsks, KeyPieces,
              Placing
<1> QED BY <1>1, <1>2

\* The variables are always of their types.
THEOREM TypeCorrect == Spec => []TypeOK
<1>1. TypeInv => TypeOK
  BY DEF TypeInv
<1> QED BY <1>1, InitTypeInv, NextTypeInv, PTL DEF Spec

-----------------------------------------------------------------------------
(* The kinds of steps                                                        *)

\* Nobody enters lt_allocate, gets on in it, or writes.
Quiet ==
    /\ UNCHANGED <<last, mem, at, fresh, anew, clash>>
    /\ \A t \in Threads : Inside(t) \/ Inside(t)' => pc'[t] = pc[t] /\ size'[t] = size[t]

\* The thread writes to its piece and nowhere else.
Written(t) ==
    /\ pc[t] = "fill" /\ ~Inside(t)'
    /\ DOMAIN mem' = DOMAIN mem
    /\ \A i \in DOMAIN mem : i \notin Cells(Piece(t)) => mem'[i] = mem[i]
    /\ fresh' = fresh \cup {Piece(t)}
    /\ UNCHANGED <<last, at, anew, clash, torn, spent>>
    /\ \A u \in Threads \ {t} : pc'[u] = pc[u] /\ size'[u] = size[u]

\* Writing bytes leaves the cells alone that are not among them.
LEMMA FilledElsewhere ==
    ASSUME NEW bytes, mem' = Filled(bytes)
    PROVE  /\ DOMAIN mem' = DOMAIN mem
           /\ \A i \in DOMAIN mem : i \notin DOMAIN bytes => mem'[i] = mem[i]
           /\ \A i \in DOMAIN mem : i \in DOMAIN bytes => mem'[i] = bytes[i]
BY DEF Filled

\* What the callback thread writes goes to its piece,
LEMMA NetFillIsWritten == ASSUME TypeInv, NetFill PROVE Written("net")
<1> DEFINE p == Piece("net")
<1>1. PICK bytes : DOMAIN bytes = Cells(p) /\ mem' = Filled(bytes)
  <2>1. CASE FillStream
    BY <2>1, Zenon DEF FillStream, Fill
  <2>2. CASE FillText
    BY <2>2, Zenon DEF FillText, Fill
  <2>3. CASE FillKey
    BY <2>3, Zenon DEF FillKey, Fill
  <2>4. CASE FillBuffer
    BY <2>4, Zenon DEF FillBuffer, Fill
  <2> QED BY <2>1, <2>2, <2>3, <2>4 DEF NetFill
<1>2. /\ DOMAIN mem' = DOMAIN mem
      /\ \A i \in DOMAIN mem : i \notin Cells(p) => mem'[i] = mem[i]
  BY <1>1, FilledElsewhere
<1>3. /\ pc["net"] = "fill" /\ fresh' = fresh \cup {p}
      /\ UNCHANGED <<last, at, anew, clash, torn, spent>>
  BY DEF NetFill, FillStream, FillText, FillKey, FillBuffer, Fill
<1> HIDE DEF p
<1>4. /\ pc' = [pc EXCEPT !["net"] = "check"] \/ pc' = [pc EXCEPT !["net"] = "grow"]
      /\ \/ UNCHANGED size
         \/ size' = [size EXCEPT !["net"] = 1]
  BY DEF NetFill, FillStream, FillText, FillKey, FillBuffer, Go
<1>5. /\ pc'["net"] \in {"check", "grow"}
      /\ \A u \in Threads \ {"net"} : pc'[u] = pc[u]
  BY <1>4 DEF TypeInv, TypeOK, Threads
<1>6. \A u \in Threads \ {"net"} : size'[u] = size[u]
  BY <1>4 DEF TypeInv, TypeOK, Threads
<1> QED BY <1>2, <1>3, <1>5, <1>6 DEF Written, Inside, p

\* and so does what the application writes.
LEMMA FillStringIsWritten == ASSUME TypeInv, FillString PROVE Written("app")
<1> DEFINE p == Piece("app")
           bytes == [i \in Cells(p) |-> p.text]
<1>1. DOMAIN bytes = Cells(p) /\ mem' = Filled(bytes)
  BY DEF FillString, Fill
<1>2. /\ DOMAIN mem' = DOMAIN mem
      /\ \A i \in DOMAIN mem : i \notin Cells(p) => mem'[i] = mem[i]
  BY <1>1, FilledElsewhere
<1>3. /\ pc["app"] = "fill" /\ fresh' = fresh \cup {p}
      /\ UNCHANGED <<last, at, anew, clash, torn, spent, size>>
      /\ pc' = [pc EXCEPT !["app"] = "lookup"]
  BY DEF FillString, Fill, Go
<1> HIDE DEF p
<1>4. pc'["app"] = "lookup" /\ \A u \in Threads \ {"app"} : pc'[u] = pc[u] /\ size'[u] = size[u]
  BY <1>3 DEF TypeInv, TypeOK, Threads
<1> QED BY <1>2, <1>3, <1>4 DEF Written, Inside, p

\* The other steps are quiet.
Other ==
    \/ \E t \in Threads : Release(t)
    \/ \E s1, s2 \in Strings : Query(s1, s2)
    \/ Lookup \/ Answer \/ Save \/ GrowOrBind \/ UNCHANGED vars
LEMMA OtherIsQuiet == ASSUME TypeInv, Other PROVE Quiet
<1>1. CASE \E t \in Threads : Release(t)
  BY <1>1 DEF TypeInv, TypeOK, Release, Quiet, Inside, Go, poolVars, history
<1>2. CASE \E s1, s2 \in Strings : Query(s1, s2)
  BY <1>2 DEF TypeInv, TypeOK, Query, Begins, Quiet, Inside, Go, Threads, poolVars, history
<1>3. CASE Lookup
  <2>1. pc["app"] = "lookup" /\ UNCHANGED <<last, mem, at, fresh, anew, clash>>
    BY <1>3 DEF Lookup, poolVars, history
  <2>2. UNCHANGED <<pc, size>> \/
        /\ pc' = [pc EXCEPT !["app"] = "check"]
        /\ \E n : size' = [size EXCEPT !["app"] = n]
    BY <1>3 DEF Lookup, Go
  <2>3. /\ pc'["app"] \in {"lookup", "check"}
        /\ \A u \in Threads \ {"app"} : pc'[u] = pc[u] /\ size'[u] = size[u]
    BY <2>1, <2>2 DEF TypeInv, TypeOK, Threads
  <2> QED BY <2>1, <2>3 DEF Quiet, Inside, Threads
<1>4. CASE Answer
  BY <1>4 DEF TypeInv, TypeOK, Answer, Quiet, Inside, Go, Threads, poolVars, history
<1>5. CASE Save
  BY <1>5 DEF TypeInv, TypeOK, Save, Begins, Quiet, Inside, Go, Threads, poolVars
<1>6. CASE GrowOrBind
  BY <1>6 DEF TypeInv, TypeOK, GrowOrBind, Quiet, Inside, Go, Threads, poolVars, history
<1>7. CASE UNCHANGED vars
  BY <1>7 DEF Quiet, Inside, vars, poolVars, callVars, history
<1> QED BY <1>1, <1>2, <1>3, <1>4, <1>5, <1>6, <1>7 DEF Other

\* There are no other kinds of steps.
LEMMA StepKinds ==
    ASSUME TypeInv, [Next]_vars
    PROVE  \/ Quiet
           \/ \E t \in Threads : Check(t) \/ Take(t) \/ Advance(t) \/ Written(t)
<1>1. Other \/ FillString \/ NetFill \/ \E t \in Threads : Check(t) \/ Take(t) \/ Advance(t)
  BY DEF Next, Other, NetFill
<1> QED BY <1>1, OtherIsQuiet, FillStringIsWritten, NetFillIsWritten DEF Threads

-----------------------------------------------------------------------------
(* What lt_allocate hands out                                                *)

\* Nothing is handed out at first.
LEMMA InitAllocInv == Init => AllocInv
BY Numbers DEF Init, AllocInv, OneInside, Tested, Inside, Threads

\* Every step preserves AllocInv.
LEMMA NextAllocInv ==
    ASSUME TypeInv, TypeInv', AllocInv, [Next]_vars PROVE AllocInv'
<1> SUFFICES ASSUME ~clash' PROVE /\ OneInside'
                                  /\ \A t \in Threads : Tested(t)'
                                  /\ \A p \in fresh' : p.size >= 1 /\ Behind(EndOf(p))'
  BY DEF AllocInv
<1> USE DEF Inside
<1>1. /\ last \in Nat /\ Size \in Nat /\ last' \in Nat
      /\ \A t \in Threads : size[t] \in Nat /\ at[t] \in Nat
      /\ \A p \in fresh : p.at \in Nat /\ p.size \in Nat
      /\ DOMAIN pc = Threads /\ DOMAIN at = Threads
  BY Numbers DEF TypeInv, TypeOK, Pieces
<1>2. CASE Quiet
  <2>1. ~clash
    BY <1>2 DEF Quiet
  <2> QED BY <1>2, <2>1 DEF Quiet, AllocInv, OneInside, Tested, Behind, EndOf, Threads
<1>3. ASSUME NEW t \in Threads, Check(t) PROVE AllocInv'
  <2>1. /\ ~Overlaps(t) /\ UNCHANGED <<size, at>> /\ pc' = [pc EXCEPT ![t] = "take"]
    BY <1>3 DEF Check, Go
  <2>2. \A u \in Threads \ {t} : ~Inside(u) /\ pc'[u] = pc[u]
    BY <2>1, <1>1 DEF Overlaps
  <2>3. pc'[t] = "take"
    BY <2>1, <1>1
  <2>4. OneInside'
    BY <2>2 DEF OneInside, Threads
  <2>5. CASE Overruns(size[t]) /\ last' = 0 /\ fresh' = {}
    BY <2>2, <2>3, <2>4, <2>5 DEF AllocInv, Tested
  <2>6. CASE ~Overruns(size[t]) /\ UNCHANGED <<last, fresh>> /\ ~clash
    <3>1. last + size[t] < Size
      BY <1>1, <2>6 DEF Overruns
    <3> QED BY <2>1, <2>2, <2>3, <2>4, <2>6, <3>1 DEF AllocInv, Tested, Behind, EndOf
  <2> QED BY <1>3, <2>5, <2>6 DEF Check
<1>4. ASSUME NEW t \in Threads, Take(t) PROVE AllocInv'
  <2>1. /\ pc[t] = "take" /\ pc' = [pc EXCEPT ![t] = "advance"]
        /\ at' = [at EXCEPT ![t] = last]
        /\ UNCHANGED <<last, size, fresh, clash>>
    BY <1>4 DEF Take, Go, poolVars, history
  <2>2. \A u \in Threads \ {t} : ~Inside(u) /\ pc'[u] = pc[u]
    BY <2>1, <1>1 DEF AllocInv, OneInside, Threads
  <2>3. pc'[t] = "advance" /\ at'[t] = last
    BY <2>1, <1>1
  <2>4. OneInside'
    BY <2>2 DEF OneInside, Threads
  <2> QED BY <2>1, <2>2, <2>3, <2>4 DEF AllocInv, Tested, Behind, EndOf
<1>5. ASSUME NEW t \in Threads, Advance(t) PROVE AllocInv'
  <2>1. /\ pc[t] = "advance" /\ pc' = [pc EXCEPT ![t] = "fill"]
        /\ last' = last + size[t] /\ UNCHANGED <<at, size, fresh, clash>>
    BY <1>5 DEF Advance, Beyond, Go, history
  <2>2. \A u \in Threads \ {t} : ~Inside(u) /\ pc'[u] = pc[u]
    BY <2>1, <1>1 DEF AllocInv, OneInside, Threads
  <2>3. pc'[t] = "fill"
    BY <2>1, <1>1
  <2>4. OneInside'
    BY <2>2 DEF OneInside, Threads
  <2>5. at[t] = last /\ (last + size[t] < Size \/ last = 0)
    BY <2>1 DEF AllocInv, Tested
  <2>6. \A u \in Threads : Tested(u)'
    BY <1>1, <2>1, <2>2, <2>3, <2>5 DEF Tested
  <2>7. \A p \in fresh : p.size >= 1 /\ EndOf(p) <= last
    BY <2>1 DEF AllocInv, Behind
  <2>8. \A p \in fresh' : p.size >= 1 /\ Behind(EndOf(p))'
    BY <1>1, <2>1, <2>2, <2>3, <2>5, <2>7 DEF Behind, EndOf
  <2> QED BY <2>4, <2>6, <2>8 DEF AllocInv
<1>6. ASSUME NEW t \in Threads, Written(t) PROVE AllocInv'
  <2>1. ~clash /\ ~Inside(t)' /\ pc[t] = "fill" /\ UNCHANGED <<last, at, clash>>
    BY <1>6 DEF Written
  <2>2. \A u \in Threads \ {t} : ~Inside(u) /\ ~Inside(u)'
    BY <1>6, <2>1 DEF Written, AllocInv, OneInside, Threads
  <2>3. \A u \in Threads : ~Inside(u)'
    BY <2>1, <2>2
  <2>4. Piece(t).size >= 1 /\ EndOf(Piece(t)) = last
    BY <2>1, RequestIsPositive DEF AllocInv, Tested, Piece, EndOf, Placing
  <2>5. \A p \in fresh : p.size >= 1 /\ EndOf(p) <= last
    BY <2>1 DEF AllocInv, Behind
  <2>6. \A p \in fresh' : p.size >= 1 /\ EndOf(p) <= last
    BY <1>1, <1>6, <2>4, <2>5 DEF Written
  <2> QED BY <2>1, <2>3, <2>6 DEF AllocInv, OneInside, Tested, Behind, EndOf, Threads
<1> QED BY <1>2, <1>3, <1>4, <1>5, <1>6, StepKinds DEF AllocInv

\* Pieces lie in the block, whatever their sizes and wherever the block was
\* begun anew, as long as calls do not overlap.
THEOREM PiecesStayInBlock == Spec => []InBlock
<1>1. TypeInv /\ AllocInv => InBlock
  <2> SUFFICES ASSUME TypeInv, AllocInv, ~clash, NEW t \in Threads,
                      pc[t] = "fill", size[t] <= Size
               PROVE  at[t] + size[t] <= Size
    BY DEF InBlock
  <2>1. last \in Nat /\ Size \in Nat /\ size[t] \in Nat /\ at[t] \in Nat
    BY Numbers DEF TypeInv, TypeOK
  <2> QED BY <2>1 DEF AllocInv, Tested
<1>2. TypeInv /\ AllocInv /\ [Next]_vars => AllocInv'
  BY NextTypeInv, NextAllocInv
<1> QED BY <1>1, <1>2, InitTypeInv, NextTypeInv, InitAllocInv, PTL DEF Spec

-----------------------------------------------------------------------------
(* The arena                                                                 *)

\* Where a piece lies.
Extent(p) == [at |-> p.at, size |-> p.size]

\* The pieces granted while calls have not overlapped.
LEMMA GrantedIs ==
    ASSUME ~clash
    PROVE  Granted = {Extent(p) : p \in {q \in fresh : q.size <= Size}}
BY DEF Granted, Extent

\* A piece that is written is granted, or is larger than the block.
LEMMA WrittenRefines ==
    ASSUME TypeInv, AllocInv, ~clash, NEW t \in Threads, Written(t)
    PROVE  [Alloc!Next]_Granted
<1> DEFINE p == Piece(t)
<1>1. /\ last \in Nat /\ Size \in Nat /\ Size >= 1
      /\ p.at \in Nat /\ p.size \in Nat /\ p.at = at[t] /\ p.size = size[t]
      /\ \A q \in fresh : q.at \in Nat /\ q.size \in Nat
  BY Numbers DEF TypeInv, TypeOK, Pieces, Piece
<1>2. /\ pc[t] = "fill" /\ fresh' = fresh \cup {p} /\ ~clash'
  BY DEF Written
<1>3. p.size >= 1 /\ p.at + p.size = last /\ (last < Size \/ p.at = 0)
  BY <1>1, <1>2, RequestIsPositive DEF AllocInv, Tested, Placing
<1>4. \A q \in fresh : q.size >= 1 /\ q.at + q.size <= p.at
  BY <1>1, <1>2 DEF AllocInv, Behind, EndOf
<1> HIDE DEF p
<1>5. Granted' = {Extent(q) : q \in {r \in fresh' : r.size <= Size}}
  BY <1>2 DEF Granted, Extent
<1>6. CASE p.size > Size
  <2>1. {r \in fresh' : r.size <= Size} = {r \in fresh : r.size <= Size}
    BY <1>1, <1>2, <1>6
  <2> QED BY <1>5, <2>1, GrantedIs
<1>7. CASE p.size <= Size
  <2>1. {r \in fresh' : r.size <= Size} = {r \in fresh : r.size <= Size} \cup {p}
    BY <1>2, <1>7
  <2>2. Granted' = Granted \cup {Extent(p)}
    BY <1>5, <2>1, GrantedIs
  <2>3. Extent(p) \in Alloc!Extents
    BY <1>1, <1>3, <1>7 DEF Alloc!Extents, Extent
  <2>4. Extent(p).at + Extent(p).size <= Size
    BY <1>1, <1>3, <1>7 DEF Extent
  <2>5. \A f \in Granted : Alloc!Clear(Extent(p), f)
    <3>1. SUFFICES ASSUME NEW q \in fresh PROVE Alloc!Clear(Extent(p), Extent(q))
      BY GrantedIs
    <3> QED BY <1>4 DEF Alloc!Clear, Extent
  <2> QED BY <2>2, <2>3, <2>4, <2>5 DEF Alloc!Next, Alloc!Grant
<1> QED BY <1>1, <1>6, <1>7

\* Every step grants a piece, begins the block anew or leaves the pieces alone.
LEMMA NextRefines ==
    ASSUME TypeInv, AllocInv, [Next]_vars PROVE [Alloc!Next]_Granted
<1>1. CASE clash'
  <2>1. Granted' = {}
    BY <1>1 DEF Granted
  <2> QED BY <2>1 DEF Alloc!Next, Alloc!BeginAnew
<1>2. CASE fresh' = {}
  <2>1. Granted' = {}
    BY <1>2 DEF Granted
  <2> QED BY <2>1 DEF Alloc!Next, Alloc!BeginAnew
<1>3. CASE UNCHANGED <<fresh, clash>>
  BY <1>3 DEF Granted
<1>4. ASSUME NEW t \in Threads, Written(t) PROVE [Alloc!Next]_Granted
  BY <1>1, <1>4, WrittenRefines DEF Written
<1>5. ASSUME NEW t \in Threads, Check(t) \/ Take(t) \/ Advance(t)
      PROVE  clash' \/ fresh' = {} \/ UNCHANGED <<fresh, clash>>
  <2>1. CASE Check(t)
    <3>1. CASE ~Overruns(size[t]) /\ UNCHANGED fresh /\ clash' = (clash \/ Overlaps(t))
      <4>1. CASE clash
        BY <3>1, <4>1
      <4>2. CASE Overlaps(t)
        BY <3>1, <4>2
      <4>3. CASE ~clash /\ ~Overlaps(t)
        <5>1. clash' = clash
          BY <3>1, <4>3 DEF TypeInv, TypeOK
        <5> QED BY <3>1, <5>1
      <4> QED BY <4>1, <4>2, <4>3
    <3> QED BY <2>1, <3>1 DEF Check
  <2>2. CASE Take(t) \/ Advance(t)
    BY <2>2 DEF Take, Advance, history
  <2> QED BY <1>5, <2>1, <2>2
<1> QED BY <1>1, <1>2, <1>3, <1>4, <1>5, StepKinds DEF Quiet

\* The two threads use the block as an arena while their calls do not overlap,
\* and again once it was begun anew without an overlap: what one of them is
\* given lies in the block and clear of all that both were given before.
THEOREM Refinement == Spec => ImplementsArena
<1>1. Init => Alloc!Init
  BY DEF Init, Granted, Alloc!Init
<1>2. TypeInv /\ AllocInv /\ [Next]_vars => AllocInv'
  BY NextTypeInv, NextAllocInv
<1>3. TypeInv /\ AllocInv /\ [Next]_vars => [Alloc!Next]_Granted
  BY NextRefines
<1> QED BY <1>1, <1>2, <1>3, InitTypeInv, NextTypeInv, InitAllocInv, PTL
        DEF Spec, ImplementsArena, Alloc!Spec

-----------------------------------------------------------------------------
(* The answers                                                               *)

\* Nothing is cached or answered at first.
LEMMA InitAnswersInv == Init => AnswersInv
BY Numbers DEF Init, AnswersInv, Threads

\* Before the block is begun anew, the rest of it suffices for what is asked.
LEMMA NextRoom ==
    ASSUME TypeInv, AllocInv, AnswersInv, [Next]_vars, ~anew', ~clash'
    PROVE  /\ ~anew /\ ~clash /\ last' < Size
           /\ \A t \in Threads : pc'[t] \in {"take", "advance"} => last' + size'[t] < Size
<1> USE DEF Inside
<1>1. /\ last \in Nat /\ Size \in Nat
      /\ \A t \in Threads : size[t] \in Nat
      /\ DOMAIN pc = Threads /\ DOMAIN at = Threads
  BY Numbers DEF TypeInv, TypeOK
<1>2. CASE Quiet
  BY <1>2 DEF Quiet, AnswersInv
<1>3. ASSUME NEW t \in Threads, Check(t)
      PROVE  /\ ~anew /\ ~clash /\ last' < Size
             /\ \A u \in Threads : pc'[u] \in {"take", "advance"} => last' + size'[u] < Size
  <2>1. /\ ~Overruns(size[t]) /\ UNCHANGED <<last, anew, size>> /\ ~clash
        /\ pc' = [pc EXCEPT ![t] = "take"]
    BY <1>3 DEF Check, Go
  <2> QED BY <1>1, <2>1 DEF AnswersInv, Overruns
<1>4. ASSUME NEW t \in Threads, Take(t)
      PROVE  /\ ~anew /\ ~clash /\ last' < Size
             /\ \A u \in Threads : pc'[u] \in {"take", "advance"} => last' + size'[u] < Size
  <2>1. /\ UNCHANGED <<last, anew, clash, size>> /\ pc[t] = "take"
        /\ pc' = [pc EXCEPT ![t] = "advance"]
    BY <1>4 DEF Take, Go, poolVars, history
  <2> QED BY <1>1, <2>1 DEF AnswersInv
<1>5. ASSUME NEW t \in Threads, Advance(t)
      PROVE  /\ ~anew /\ ~clash /\ last' < Size
             /\ \A u \in Threads : pc'[u] \in {"take", "advance"} => last' + size'[u] < Size
  <2>1. /\ UNCHANGED <<anew, clash, size>> /\ last' = last + size[t]
        /\ pc[t] = "advance" /\ pc' = [pc EXCEPT ![t] = "fill"]
    BY <1>5 DEF Advance, Beyond, Go, history
  <2>2. \A u \in Threads \ {t} : ~Inside(u) /\ pc'[u] = pc[u]
    BY <2>1, <1>1 DEF AllocInv, OneInside, Threads
  <2> QED BY <1>1, <2>1, <2>2 DEF AnswersInv
<1>6. ASSUME NEW t \in Threads, Written(t)
      PROVE  /\ ~anew /\ ~clash /\ last' < Size
             /\ \A u \in Threads : pc'[u] \in {"take", "advance"} => last' + size'[u] < Size
  <2>1. /\ UNCHANGED <<last, anew, clash>> /\ pc'[t] \notin {"take", "advance"}
        /\ \A u \in Threads \ {t} : pc'[u] = pc[u] /\ size'[u] = size[u]
    BY <1>6 DEF Written
  <2> QED BY <2>1 DEF AnswersInv
<1> QED BY <1>2, <1>3, <1>4, <1>5, <1>6, StepKinds

\* A string that can be answered stays where it is.
LEMMA AnswerStays ==
    ASSUME TypeInv, AllocInv, AnswersInv, [Next]_vars, ~anew', ~clash',
           NEW h, NEW n, Answers(h, n)
    PROVE  Answers(h, n)'
<1> USE DEF Inside
<1>1. /\ last \in Nat /\ Size \in Nat /\ ~anew /\ ~clash
      /\ \A t \in Threads : size[t] \in Nat /\ at[t] \in Nat
      /\ DOMAIN pc = Threads /\ DOMAIN at = Threads
  BY Numbers, NextRoom DEF TypeInv, TypeOK
<1>2. PICK s \in Strings : /\ HashOf[s] = h /\ n \in Nat /\ Behind(n + Bytes[s])
                           /\ Holds([at |-> n, size |-> Bytes[s]], s)
  BY DEF Answers
<1>3. Bytes[s] \in Nat /\ n + Bytes[s] \in Nat
  BY <1>2, Numbers
<1>4. SUFFICES Behind(n + Bytes[s])' /\ Holds([at |-> n, size |-> Bytes[s]], s)'
  BY <1>2 DEF Answers
<1> DEFINE q == [at |-> n, size |-> Bytes[s]]
<1>5. CASE Quiet
  <2>1. UNCHANGED <<last, mem, at>> /\ \A t \in Threads : pc'[t] = "fill" => pc[t] = "fill"
    BY <1>5 DEF Quiet
  <2> QED BY <1>2, <2>1 DEF Behind, Holds, Cells
<1>6. ASSUME NEW t \in Threads, Check(t) \/ Take(t)
      PROVE  Behind(n + Bytes[s])' /\ Holds(q, s)'
  <2>1. UNCHANGED <<last, mem>>
    BY <1>6 DEF Check, Take, poolVars
  <2>2. \A u \in Threads : pc'[u] = "fill" => pc[u] = "fill" /\ at'[u] = at[u]
    BY <1>1, <1>6 DEF Check, Take, Go
  <2> QED BY <1>2, <2>1, <2>2 DEF Behind, Holds, Cells
<1>7. ASSUME NEW t \in Threads, Advance(t)
      PROVE  Behind(n + Bytes[s])' /\ Holds(q, s)'
  <2>1. /\ pc[t] = "advance" /\ last' = last + size[t] /\ UNCHANGED <<mem, at>>
        /\ \A u \in Threads \ {t} : pc'[u] = pc[u]
    BY <1>1, <1>7 DEF Advance, Beyond, Go
  <2>2. at[t] = last
    BY <1>1, <2>1 DEF AllocInv, Tested
  <2> QED BY <1>1, <1>2, <1>3, <2>1, <2>2 DEF Behind, Holds, Cells
<1>8. ASSUME NEW t \in Threads, Written(t)
      PROVE  Behind(n + Bytes[s])' /\ Holds(q, s)'
  <2>1. /\ pc[t] = "fill" /\ UNCHANGED <<last, at>> /\ DOMAIN mem' = DOMAIN mem
        /\ pc'[t] # "fill" /\ \A u \in Threads \ {t} : pc'[u] = pc[u]
        /\ \A i \in DOMAIN mem : i \notin Cells(Piece(t)) => mem'[i] = mem[i]
    BY <1>8 DEF Written
  <2>2. Behind(n + Bytes[s])'
    BY <1>2, <2>1 DEF Behind
  <2>3. n + Bytes[s] <= at[t]
    BY <1>2, <2>1 DEF Behind
  <2>4. ASSUME NEW i \in Cells(q) PROVE i \in DOMAIN mem' /\ mem'[i] = s
    <3>1. i \in DOMAIN mem /\ mem[i] = s
      BY <1>2, <2>4 DEF Holds
    <3>2. i \notin Cells(Piece(t))
      BY <1>1, <1>2, <1>3, <2>3, <2>4 DEF Cells, Piece
    <3> QED BY <2>1, <3>1, <3>2
  <2>5. Holds(q, s)'
    BY <2>4 DEF Holds, Cells
  <2> QED BY <2>2, <2>5
<1> QED BY <1>5, <1>6, <1>7, <1>8, StepKinds

\* A string that is placed can be answered.
LEMMA PlacedAnswers ==
    ASSUME TypeInv, AllocInv, AnswersInv, FillString, ~anew, ~clash
    PROVE  Answers(HashOf[text["app"]], at["app"])'
<1> DEFINE p == Piece("app")
           s == text["app"]
           bytes == [i \in Cells(p) |-> p.text]
<1>1. /\ pc["app"] = "fill" /\ mem' = Filled(bytes) /\ pc'["app"] = "lookup"
      /\ UNCHANGED <<last, text, at>> /\ pc'["net"] = pc["net"]
  BY DEF FillString, Fill, Go, TypeInv, TypeOK, Threads
<1>2. s \in Strings /\ size["app"] = Bytes[s] /\ at["app"] \in Nat /\ Bytes[s] \in Nat
  BY <1>1, Numbers DEF TypeInv, TypeOK, AppAsks, Placing, Threads
<1>3. at["app"] + Bytes[s] = last /\ last < Size /\ last \in Nat /\ Size \in Nat
  BY <1>1, <1>2, Numbers DEF AllocInv, AnswersInv, Tested, TypeInv, TypeOK, Threads
<1>4. pc["net"] # "fill"
  BY <1>1 DEF AllocInv, OneInside, Inside
<1>5. Behind(at["app"] + Bytes[s])'
  BY <1>1, <1>3, <1>4 DEF Behind, Threads
<1>6. DOMAIN mem = 0..Size - 1
  BY DEF TypeInv, TypeOK
<1>7. ASSUME NEW i \in Cells([at |-> at["app"], size |-> Bytes[s]])
      PROVE  i \in DOMAIN mem' /\ mem'[i] = s
  <2>1. i \in Cells(p) /\ i \in DOMAIN mem
    BY <1>2, <1>3, <1>6, <1>7 DEF Cells, Piece
  <2>2. DOMAIN mem' = DOMAIN mem /\ mem'[i] = bytes[i]
    BY <1>1, <2>1, FilledElsewhere
  <2> QED BY <2>1, <2>2 DEF Piece
<1>8. Holds([at |-> at["app"], size |-> Bytes[s]], s)'
  BY <1>1, <1>7 DEF Holds, Cells
<1> QED BY <1>1, <1>2, <1>5, <1>8 DEF Answers

\* Who changes the cache and the application's pieces.
LEMMA AnswerKinds ==
    ASSUME TypeInv, [Next]_vars
    PROVE  \/ Lookup \/ FillString
           \/ UNCHANGED cache /\ (got'["app"] = got["app"] \/ got'["app"] = <<>>)
<1>1. ASSUME NEW t \in Threads, Check(t) \/ Take(t) \/ Advance(t)
      PROVE  UNCHANGED <<cache, got>>
  BY <1>1 DEF Check, Take, Advance, poolVars
<1>2. ASSUME NEW t \in Threads, Release(t)
      PROVE  UNCHANGED cache /\ (got'["app"] = got["app"] \/ got'["app"] = <<>>)
  BY <1>2 DEF Release, poolVars, TypeInv, TypeOK, Threads
<1>3. CASE \/ \E s1, s2 \in Strings : Query(s1, s2)
           \/ Answer \/ Save \/ GrowOrBind \/ UNCHANGED vars
  BY <1>3 DEF Query, Answer, Save, GrowOrBind, vars, poolVars, callVars
<1>4. CASE NetFill
  <2>1. UNCHANGED cache /\ \E g : got' = [got EXCEPT !["net"] = g]
    BY <1>4 DEF NetFill, FillStream, FillText, FillKey, FillBuffer
  <2> QED BY <2>1 DEF TypeInv, TypeOK, Threads
<1> QED BY <1>1, <1>2, <1>3, <1>4 DEF Next, NetFill

\* Every step preserves AnswersInv.
LEMMA NextAnswersInv ==
    ASSUME TypeInv, TypeInv', AllocInv, AnswersInv, [Next]_vars PROVE AnswersInv'
<1> SUFFICES ASSUME ~anew', ~clash'
             PROVE  /\ \A h \in Hashes : cache'[h] # Nowhere => Answers(h, cache[h])'
                    /\ \A i \in 1..Len(got'["app"]) :
                          Answers(HashOf[got["app"][i].text], got["app"][i].at)'
  BY NextRoom DEF AnswersInv
<1>1. /\ ~anew /\ ~clash
      /\ \A h \in Hashes : cache[h] # Nowhere => Answers(h, cache[h])
      /\ \A i \in 1..Len(got["app"]) : Answers(HashOf[got["app"][i].text], got["app"][i].at)
  BY NextRoom DEF AnswersInv
<1>2. \A h, n : Answers(h, n) => Answers(h, n)'
  BY AnswerStays
<1>3. got["app"] \in Seq(Pieces)
  BY DEF TypeInv, TypeOK, Threads
<1>4. CASE UNCHANGED cache /\ (got'["app"] = got["app"] \/ got'["app"] = <<>>)
  <2>1. ASSUME NEW h \in Hashes, cache'[h] # Nowhere PROVE Answers(h, cache[h])'
    <3>1. Answers(h, cache[h]) /\ cache' = cache
      BY <1>1, <1>4, <2>1
    <3>2. \A n : n = cache[h] /\ Answers(h, n) => Answers(h, n)'
      BY <1>2
    <3> QED BY <3>1, <3>2 DEF Answers
  <2>2. ASSUME NEW i \in 1..Len(got'["app"])
        PROVE  Answers(HashOf[got["app"][i].text], got["app"][i].at)'
    <3>1. got'["app"] = got["app"] /\ i \in 1..Len(got["app"])
      BY <1>4, <2>2
    <3>2. \A h, n : /\ h = HashOf[got["app"][i].text] /\ n = got["app"][i].at
                    => Answers(h, n)'
      BY <1>1, <1>2, <3>1
    <3> QED BY <3>1, <3>2 DEF Answers
  <2> QED BY <2>1, <2>2
<1>5. ASSUME NEW p \in Pieces, got'["app"] = Append(got["app"], p),
             Answers(HashOf[p.text], p.at)', NEW i \in 1..Len(got'["app"])
      PROVE  Answers(HashOf[got["app"][i].text], got["app"][i].at)'
  <2>1. /\ Len(got'["app"]) = Len(got["app"]) + 1 /\ Len(got["app"]) \in Nat
        /\ got'["app"][Len(got["app"]) + 1] = p
        /\ \A j \in 1..Len(got["app"]) : got'["app"][j] = got["app"][j]
    BY <1>3, <1>5, Appended
  <2>2. CASE i \in 1..Len(got["app"])
    <3>1. \A h, n : /\ h = HashOf[got["app"][i].text] /\ n = got["app"][i].at
                    => Answers(h, n)'
      BY <1>1, <1>2, <2>2
    <3> QED BY <2>1, <2>2, <3>1 DEF Answers
  <2>3. CASE i = Len(got["app"]) + 1
    BY <1>5, <2>1, <2>3 DEF Answers
  <2> QED BY <1>5, <2>1, <2>2, <2>3
<1>6. CASE FillString
  <2>1. PICK p : p = Piece("app")
    OBVIOUS
  <2>2. /\ got'["app"] = Append(got["app"], p)
        /\ cache' = [cache EXCEPT ![HashOf[p.text]] = p.at]
        /\ UNCHANGED <<text, at>> /\ p \in Pieces
        /\ p.text = text["app"] /\ p.at = at["app"]
    BY <1>6, <2>1, PieceIsTyped DEF FillString, Fill, Piece, TypeInv, TypeOK, Threads
  <2>3. Answers(HashOf[text["app"]], at["app"])'
    BY <1>1, <1>6, PlacedAnswers
  <2>4. Answers(HashOf[p.text], p.at)'
    BY <2>2, <2>3 DEF Answers
  <2>5. ASSUME NEW h \in Hashes, cache'[h] # Nowhere PROVE Answers(h, cache[h])'
    <3>1. CASE h = HashOf[p.text]
      <4>1. cache'[h] = p.at
        BY <2>2, <3>1 DEF TypeInv, TypeOK
      <4> QED BY <2>4, <3>1, <4>1 DEF Answers
    <3>2. CASE h # HashOf[p.text]
      <4>1. cache'[h] = cache[h]
        BY <2>2, <3>2 DEF TypeInv, TypeOK
      <4>2. \A n : n = cache[h] => Answers(h, n)'
        BY <1>1, <1>2, <2>5, <4>1
      <4> QED BY <4>1, <4>2 DEF Answers
    <3> QED BY <3>1, <3>2
  <2> QED BY <1>5, <2>2, <2>4, <2>5
<1>7. CASE Lookup
  <2>1. CASE ~Found(Head(rest))
    <3>1. UNCHANGED <<cache, got>>
      BY <1>7, <2>1 DEF Lookup, poolVars
    <3> QED BY <1>4, <3>1
  <2>2. CASE Found(Head(rest))
    <3>1. PICK s, h, n : s = Head(rest) /\ h = HashOf[s] /\ n = cache[h]
      OBVIOUS
    <3>2. s \in Strings /\ h \in Hashes
      BY <1>7, <3>1 DEF Lookup, TypeInv, TypeOK, Hashes
    <3>3. n # Nowhere /\ n \in Nat /\ cache' = cache
      BY <1>7, <2>2, <3>1, <3>2 DEF Lookup, Found, TypeInv, TypeOK, poolVars
    <3>4. PICK p : p = [text |-> s, at |-> n, size |-> Bytes[s]]
      OBVIOUS
    <3>5. p \in Pieces /\ p.text = s /\ p.at = n
      BY <3>2, <3>3, <3>4, Numbers DEF Pieces, Texts
    <3>6. got'["app"] = Append(got["app"], p)
      BY <1>7, <2>2, <3>1, <3>4 DEF Lookup, TypeInv, TypeOK, Threads
    <3>7. \A g \in Hashes : \A m : m = cache[g] /\ m # Nowhere => Answers(g, m)'
      BY <1>1, <1>2
    <3>8. Answers(h, n)'
      BY <3>1, <3>2, <3>3, <3>7
    <3>9. Answers(HashOf[p.text], p.at)'
      BY <3>1, <3>5, <3>8 DEF Answers
    <3>10. ASSUME NEW g \in Hashes, cache'[g] # Nowhere PROVE Answers(g, cache[g])'
      BY <3>3, <3>7, <3>10 DEF Answers
    <3> QED BY <1>5, <3>5, <3>6, <3>9, <3>10
  <2> QED BY <2>1, <2>2
<1> QED BY <1>4, <1>6, <1>7, AnswerKinds

\* Until the block is begun anew, and calls have not overlapped, an answer is
\* whole and has the hash that was asked for, whatever is saved meanwhile.
THEOREM AnswersAreRightAtFirst == Spec => []AnswersRightUntilAnew
<1>1. AnswersInv => AnswersRightUntilAnew
  BY DEF AnswersInv, AnswersRightUntilAnew, Answers
<1>2. TypeInv /\ AllocInv /\ [Next]_vars => AllocInv'
  BY NextTypeInv, NextAllocInv
<1>3. TypeInv /\ AllocInv /\ AnswersInv /\ [Next]_vars => AnswersInv'
  BY NextTypeInv, NextAnswersInv
<1> QED BY <1>1, <1>2, <1>3, InitTypeInv, NextTypeInv, InitAllocInv, InitAnswersInv, PTL
        DEF Spec

-----------------------------------------------------------------------------
(* The arguments of a save                                                   *)

\* A save that has begun, whose calls were not overlapped and did not ask for
\* more than half the block.
Safe == Started /\ ~torn /\ 2 * spent <= Size

\* Who changes what the save holds.
LEMMA SaveKinds ==
    ASSUME TypeInv, [Next]_vars
    PROVE  NetFill \/ got'["net"] = got["net"] \/ got'["net"] = <<>>
<1>1. ASSUME NEW t \in Threads, Check(t) \/ Take(t) \/ Advance(t)
      PROVE  UNCHANGED got
  BY <1>1 DEF Check, Take, Advance
<1>2. ASSUME NEW t \in Threads, Release(t)
      PROVE  got'["net"] = got["net"] \/ got'["net"] = <<>>
  BY <1>2 DEF Release, TypeInv, TypeOK, Threads
<1>3. CASE \/ \E s1, s2 \in Strings : Query(s1, s2)
           \/ Answer \/ Save \/ GrowOrBind \/ UNCHANGED vars
  BY <1>3 DEF Query, Answer, Save, GrowOrBind, vars, callVars
<1>4. CASE Lookup \/ FillString
  <2>1. UNCHANGED got \/ \E g : got' = [got EXCEPT !["app"] = g]
    BY <1>4 DEF Lookup, FillString
  <2> QED BY <2>1 DEF TypeInv, TypeOK, Threads
<1> QED BY <1>1, <1>2, <1>3, <1>4 DEF Next, NetFill

\* Half of less.
LEMMA TwiceLess ==
    ASSUME NEW m \in Nat, NEW n \in Nat, NEW k \in Nat, m <= n, 2 * n <= k
    PROVE  2 * m <= k
OBVIOUS

\* One and two.
LEMMA InOwnRange == ASSUME NEW n \in 1..2 PROVE n \in 1..n /\ 1 \in 1..n
OBVIOUS

\* The step that starts a save asks for its first piece; every other step of a
\* safe save is one of a safe save before.
LEMMA SafeBefore ==
    ASSUME TypeInv, TypeInv', [Next]_vars, Safe'
    PROVE  \/ Safe /\ spent <= spent'
           \/ Check("net") /\ got["net"] = <<>>
<1>1. spent \in Nat /\ spent' \in Nat /\ Size \in Nat /\ torn \in BOOLEAN /\ \A t \in Threads : size[t] \in Nat
  BY Numbers DEF TypeInv, TypeOK
<1>2. CASE Save
  <2>1. pc'["net"] = "check" /\ got'["net"] = <<>>
    BY <1>2 DEF Save, Begins, Go, TypeInv, TypeOK, NetAsks, Threads
  <2> QED BY <2>1 DEF Safe, Started
<1>3. CASE ~Save
  <2>1. spent <= spent' /\ (torn => torn')
    <3>1. ASSUME NEW t \in Threads, Check(t) PROVE spent <= spent' /\ (torn => torn')
      <4>1. spent' = spent + size[t] /\ (torn => torn')
        BY <3>1 DEF Check
      <4> QED BY <1>1, <4>1
    <3>2. CASE ~ \E t \in Threads : Check(t)
      <4>1. CASE Quiet \/ \E t \in Threads : Take(t) \/ Advance(t) \/ Written(t)
        <5>1. CASE \E t \in Threads : Take(t) \/ Advance(t) \/ Written(t)
          BY <1>1, <5>1 DEF Take, Advance, Written, history
        <5>2. CASE FillString \/ NetFill
          BY <1>1, <5>2, FillStringIsWritten, NetFillIsWritten DEF Written
        <5>3. CASE \/ \E t \in Threads : Release(t)
                   \/ \E s1, s2 \in Strings : Query(s1, s2)
                   \/ Lookup \/ Answer \/ GrowOrBind \/ UNCHANGED vars
          BY <1>1, <5>3 DEF Release, Query, Lookup, Answer, GrowOrBind, vars, history
        <5> QED BY <1>3, <3>2, <5>1, <5>2, <5>3 DEF Next, NetFill
      <4> QED BY <3>2, <4>1, StepKinds
    <3> QED BY <3>1, <3>2
  <2>2. Started \/ (Check("net") /\ got["net"] = <<>>)
    <3>1. CASE pc["net"] = "idle"
      <4>1. pc'["net"] = "idle"
        <5>1. ASSUME NEW t \in Threads, Check(t) \/ Take(t) \/ Advance(t) \/ Release(t)
              PROVE  pc'["net"] = "idle"
          BY <3>1, <5>1 DEF Check, Take, Advance, Release, Go, TypeInv, TypeOK, Threads
        <5>2. CASE \/ \E s1, s2 \in Strings : Query(s1, s2)
                   \/ Answer \/ FillString \/ UNCHANGED vars
          BY <3>1, <5>2 DEF Query, Answer, FillString, Go, vars, callVars,
                            TypeInv, TypeOK, Threads
        <5>3. CASE Lookup
          BY <3>1, <5>3 DEF Lookup, Go, TypeInv, TypeOK, Threads
        <5>4. CASE NetFill \/ GrowOrBind
          BY <3>1, <5>4, NetFillIsWritten DEF Written, GrowOrBind
        <5> QED BY <1>3, <5>1, <5>2, <5>3, <5>4 DEF Next, NetFill
      <4> QED BY <4>1 DEF Safe, Started
    <3>2. CASE pc["net"] = "check" /\ got["net"] = <<>> /\ ~Check("net")
      <4>1. pc'["net"] = "check" /\ got'["net"] = got["net"]
        <5>1. ASSUME NEW t \in Threads, Check(t) \/ Take(t) \/ Advance(t) \/ Release(t)
              PROVE  pc'["net"] = "check" /\ got'["net"] = got["net"]
          <6>1. t = "app"
            BY <3>2, <5>1 DEF Take, Advance, Release, Threads
          <6> QED BY <3>2, <5>1, <6>1 DEF Check, Take, Advance, Release, Go, TypeInv, TypeOK, Threads
        <5>2. CASE \/ \E s1, s2 \in Strings : Query(s1, s2)
                   \/ Answer \/ FillString \/ UNCHANGED vars
          BY <3>2, <5>2 DEF Query, Answer, FillString, Go, vars, callVars,
                            TypeInv, TypeOK, Threads
        <5>3. CASE Lookup
          BY <3>2, <5>3 DEF Lookup, Go, TypeInv, TypeOK, Threads
        <5>4. CASE NetFill \/ GrowOrBind
          BY <3>2, <5>4, NetFillIsWritten DEF Written, GrowOrBind
        <5> QED BY <1>3, <5>1, <5>2, <5>3, <5>4 DEF Next, NetFill
      <4> QED BY <3>2, <4>1 DEF Safe, Started
    <3> QED BY <3>1, <3>2 DEF Started, Check
  <2>3. ~torn
    BY <2>1, Zenon DEF Safe
  <2>4. 2 * spent <= Size
    <3>1. 2 * spent' <= Size /\ spent <= spent'
      BY <2>1, Zenon DEF Safe
    <3>2. spent \in Nat /\ spent' \in Nat /\ Size \in Nat
      BY <1>1
    <3> QED BY <3>1, <3>2, TwiceLess
  <2> QED BY <2>1, <2>2, <2>3, <2>4, Zenon DEF Safe
<1> QED BY <1>2, <1>3

\* No save has started at first.
LEMMA InitSaveInv == Init => SaveInv
BY DEF Init, SaveInv, Started, Threads

\* One thread at a time is inside lt_allocate, and counted.
Orderly ==
    /\ OneInside
    /\ \A t \in Threads : Tested(t)
    /\ \A t \in Threads : Inside(t) => size[t] <= spent

\* A step of a safe save leaves one thread inside at most, and counted.
LEMMA NextOrderly ==
    ASSUME TypeInv, TypeInv', SaveInv, [Next]_vars, Safe' PROVE Orderly'
<1> USE DEF Inside
<1>1. /\ last \in Nat /\ Size \in Nat /\ spent \in Nat /\ spent' \in Nat
      /\ \A t \in Threads : size[t] \in Nat /\ at[t] \in Nat
      /\ DOMAIN pc = Threads /\ DOMAIN at = Threads
  BY Numbers DEF TypeInv, TypeOK
<1>2. ASSUME NEW t \in Threads, Check(t) PROVE Orderly'
  <2>1. /\ ~Overlaps(t) /\ UNCHANGED <<size, at>> /\ pc' = [pc EXCEPT ![t] = "take"]
        /\ spent' = spent + size[t]
    BY <1>2 DEF Check, Go, Safe
  <2>2. \A u \in Threads \ {t} : ~Inside(u) /\ pc'[u] = pc[u]
    BY <2>1, <1>1 DEF Overlaps
  <2>3. pc'[t] = "take"
    BY <2>1, <1>1
  <2>4. OneInside'
    BY <2>2 DEF OneInside, Threads
  <2>5. last' = 0 \/ (last' = last /\ last + size[t] < Size)
    BY <1>1, <1>2 DEF Check, Overruns
  <2> QED BY <1>1, <2>1, <2>2, <2>3, <2>4, <2>5 DEF Orderly, Tested
<1>3. CASE Safe /\ spent <= spent' /\ Quiet
  <2>1. Orderly
    BY <1>3 DEF Safe, SaveInv, Orderly
  <2> QED BY <1>1, <1>3, <2>1 DEF Orderly, OneInside, Tested, Quiet, Threads
<1>4. ASSUME NEW t \in Threads, Safe, Take(t) \/ Advance(t) \/ Written(t) PROVE Orderly'
  <2>1. Orderly /\ UNCHANGED spent
    BY <1>4 DEF Safe, SaveInv, Orderly, Take, Advance, Written, history
  <2>2. pc[t] \in {"take", "advance", "fill"}
    BY <1>4 DEF Take, Advance, Written
  <2>3. \A u \in Threads \ {t} : ~Inside(u) /\ pc'[u] = pc[u]
    BY <1>1, <1>4, <2>1, <2>2 DEF Orderly, OneInside, Take, Advance, Written, Go, Threads
  <2>4. OneInside'
    BY <2>3 DEF OneInside, Threads
  <2>5. CASE Take(t)
    <3>1. /\ pc'[t] = "advance" /\ at'[t] = last /\ UNCHANGED <<last, size>> /\ pc[t] = "take"
      BY <1>1, <2>5 DEF Take, Go, poolVars
    <3> QED BY <2>1, <2>3, <2>4, <3>1 DEF Orderly, Tested
  <2>6. CASE Advance(t)
    <3>1. /\ pc'[t] = "fill" /\ last' = last + size[t] /\ UNCHANGED <<at, size>>
          /\ pc[t] = "advance"
      BY <1>1, <2>6 DEF Advance, Beyond, Go
    <3>2. at[t] = last /\ (last + size[t] < Size \/ last = 0)
      BY <2>1, <3>1 DEF Orderly, Tested
    <3> QED BY <1>1, <2>1, <2>3, <2>4, <3>1, <3>2 DEF Orderly, Tested
  <2>7. CASE Written(t)
    BY <2>1, <2>3, <2>4, <2>7 DEF Orderly, Tested, Written
  <2> QED BY <1>4, <2>5, <2>6, <2>7
<1> QED BY <1>2, <1>3, <1>4, SafeBefore, StepKinds DEF Threads

\* A piece the save holds is not written again.
LEMMA KeptStays ==
    ASSUME TypeInv, TypeInv', SaveInv, [Next]_vars, Safe, Safe', spent <= spent',
           NEW p \in Pieces, Kept(p)
    PROVE  Kept(p)'
<1> USE DEF Inside
<1>1. /\ last \in Nat /\ last' \in Nat /\ Size \in Nat /\ spent \in Nat /\ spent' \in Nat
      /\ \A t \in Threads : size[t] \in Nat /\ at[t] \in Nat
      /\ p.at \in Nat /\ p.size \in Nat
      /\ DOMAIN pc = Threads /\ DOMAIN at = Threads
  BY Numbers DEF TypeInv, TypeOK, Pieces
<1>2. Orderly
  BY DEF Safe, SaveInv, Orderly
<1>3. Top \in Nat
  BY <1>1 DEF Top, Claimed, Threads
<1>4. CASE Quiet
  <2>1. UNCHANGED <<last, mem, at>> /\ \A t \in Threads : pc'[t] = "fill" => pc[t] = "fill"
    BY <1>4 DEF Quiet
  <2>2. Top' = Top
    <3>1. UNCHANGED <<Claimed("app"), Claimed("net")>>
      BY <1>4 DEF Quiet, Claimed, Threads
    <3> QED BY <2>1, <3>1 DEF Top
  <2> QED BY <1>1, <1>3, <2>1, <2>2 DEF Kept, Behind, Intact, Holds, Cells, EndOf
<1>5. ASSUME NEW t \in Threads, Check(t) PROVE Kept(p)'
  <2>1. /\ pc[t] = "check" /\ ~Overlaps(t) /\ UNCHANGED <<mem, size, at>>
        /\ pc' = [pc EXCEPT ![t] = "take"] /\ spent' = spent + size[t]
    BY <1>5 DEF Check, Go, Safe
  <2>2. \A u \in Threads \ {t} : ~Inside(u) /\ pc'[u] = pc[u]
    BY <2>1, <1>1 DEF Overlaps
  <2>3. Top = last /\ Top' = last' + size[t] /\ \A u \in Threads : pc'[u] # "fill"
    BY <1>1, <2>1, <2>2 DEF Top, Claimed, Threads
  <2>4. CASE ~Overruns(size[t]) /\ last' = last
    BY <1>1, <2>1, <2>3, <2>4 DEF Kept, Behind, Intact, Holds, Cells, EndOf
  <2>5. CASE last + size[t] >= Size /\ last' = 0
    BY <1>1, <2>1, <2>3, <2>5 DEF Kept, Behind, Intact, Holds, Cells, EndOf
  <2> QED BY <1>5, <2>4, <2>5 DEF Check, Overruns
<1>6. ASSUME NEW t \in Threads, Take(t) PROVE Kept(p)'
  <2>1. /\ UNCHANGED <<last, mem, size, spent>> /\ pc[t] = "take"
        /\ pc'[t] = "advance" /\ at'[t] = last
        /\ \A u \in Threads \ {t} : pc'[u] = pc[u] /\ at'[u] = at[u]
    BY <1>1, <1>6 DEF Take, Go, poolVars, history
  <2>2. Top' = Top
    BY <2>1 DEF Top, Claimed, Threads
  <2> QED BY <1>1, <2>1, <2>2 DEF Kept, Behind, Intact, Holds, Cells, EndOf
<1>7. ASSUME NEW t \in Threads, Advance(t) PROVE Kept(p)'
  <2>1. /\ last' = last + size[t] /\ UNCHANGED <<mem, size, spent, at>> /\ pc[t] = "advance"
        /\ pc'[t] = "fill" /\ \A u \in Threads \ {t} : pc'[u] = pc[u]
    BY <1>1, <1>7 DEF Advance, Beyond, Go, history
  <2>2. at[t] = last /\ \A u \in Threads \ {t} : ~Inside(u)
    BY <1>2, <2>1 DEF Orderly, OneInside, Tested, Threads
  <2>3. Top' = Top
    BY <1>1, <2>1, <2>2 DEF Top, Claimed, Threads
  <2> QED BY <1>1, <2>1, <2>2, <2>3 DEF Kept, Behind, Intact, Holds, Cells, EndOf
<1>8. ASSUME NEW t \in Threads, Written(t) PROVE Kept(p)'
  <2>1. /\ pc[t] = "fill" /\ UNCHANGED <<last, at, spent>> /\ ~Inside(t)'
        /\ DOMAIN mem' = DOMAIN mem
        /\ \A i \in DOMAIN mem : i \notin Cells(Piece(t)) => mem'[i] = mem[i]
        /\ \A u \in Threads \ {t} : pc'[u] = pc[u]
    BY <1>8 DEF Written
  <2>2. /\ at[t] + size[t] = last
        /\ \A u \in Threads \ {t} : ~Inside(u)
    BY <1>2, <2>1 DEF Orderly, OneInside, Tested, Threads
  <2>3. Top = last /\ Top' = last
    BY <1>1, <2>1, <2>2 DEF Top, Claimed, Threads
  <2>4. EndOf(p) <= at[t] \/ last <= p.at
    BY <1>1, <2>1, <2>3 DEF Kept, Behind, EndOf, Safe
  <2>5. ASSUME NEW i \in Cells(p) PROVE i \in DOMAIN mem' /\ mem'[i] = p.text
    <3>1. i \in DOMAIN mem /\ mem[i] = p.text
      BY <2>5 DEF Kept, Intact, Holds
    <3>2. i \notin Cells(Piece(t))
      BY <1>1, <2>2, <2>4, <2>5 DEF Cells, Piece, EndOf
    <3> QED BY <2>1, <3>1, <3>2
  <2>6. Intact(p)'
    BY <2>5 DEF Intact, Holds, Cells
  <2> QED BY <2>1, <2>3, <2>6 DEF Kept, Behind, EndOf
<1> QED BY <1>4, <1>5, <1>6, <1>7, <1>8, StepKinds

\* A piece the save is given holds what it is for.
LEMMA NewPieceIsKept ==
    ASSUME TypeInv, TypeInv', SaveInv, NetFill, Safe,
           NEW p \in Pieces, p = Piece("net")
    PROVE  Kept(p)'
<1> USE DEF Inside
<1> DEFINE old == Final(got["net"])
<1>1. /\ last \in Nat /\ Size \in Nat /\ spent \in Nat
      /\ size["net"] \in Nat /\ at["net"] \in Nat /\ size["net"] >= 1
      /\ p.text = text["net"] /\ p.at = at["net"] /\ p.size = size["net"]
      /\ DOMAIN mem = 0..Size - 1
  BY Numbers, NetFillIsWritten, RequestIsPositive
  DEF TypeInv, TypeOK, Piece, Written, Placing, Threads
<1>2. Orderly /\ pc["net"] = "fill" /\ UNCHANGED <<last, at, spent>> /\ Key # Payload
  BY NetFillIsWritten, Numbers DEF Safe, SaveInv, Orderly, Written
<1>3. /\ at["net"] + size["net"] = last /\ (last < Size \/ at["net"] = 0)
      /\ size["net"] <= spent /\ pc["app"] \notin {"take", "advance", "fill"}
  BY <1>2 DEF Orderly, OneInside, Tested, Threads
<1>4. EndOf(p) <= Size /\ EndOf(p) = last
  BY <1>1, <1>3 DEF EndOf, Safe
<1>5. /\ pc'["app"] = pc["app"] /\ pc'["net"] \notin {"take", "advance", "fill"}
  BY NetFillIsWritten DEF Written, Threads
<1>6. Top' = last
  BY <1>1, <1>2, <1>3, <1>5 DEF Top, Claimed
<1>7. Behind(EndOf(p))' /\ Top' <= p.at + spent'
  BY <1>1, <1>2, <1>3, <1>4, <1>5, <1>6 DEF Behind, Threads
<1>8. \A i \in Cells(p) : i \in DOMAIN mem
  BY <1>1, <1>4 DEF Cells, EndOf
<1>9. ASSUME got["net"] # <<>>, NEW i \in Cells(p), i - p.at < old.size
      PROVE  Copied(old, p, i) = old.text
  <2>1. got["net"] \in Seq(Pieces) /\ Len(got["net"]) \in 1..Len(got["net"])
    BY <1>9 DEF TypeInv, TypeOK, Threads
  <2>2. Kept(old) /\ old \in Pieces
    BY <2>1 DEF Final, Safe, SaveInv
  <2>3. old.at \in Nat /\ old.size \in Nat
    BY <2>2 DEF Pieces
  <2> HIDE DEF old
  <2>4. Top = last
    BY <1>1, <1>2, <1>3 DEF Top, Claimed
  <2>5. EndOf(old) <= at["net"] \/ last <= old.at
    BY <1>1, <1>2, <2>2, <2>3, <2>4 DEF Kept, Behind, EndOf, Safe, Threads
  <2>6. Cells(old) \cap Cells(p) = {}
    BY <1>1, <1>3, <2>3, <2>5 DEF Cells, EndOf
  <2>7. old.at + (i - p.at) \in Cells(old)
    BY <1>1, <1>9, <2>3 DEF Cells
  <2>8. old.at + (i - p.at) \in DOMAIN mem /\ mem[old.at + (i - p.at)] = old.text
    BY <2>2, <2>7 DEF Kept, Intact, Holds
  <2> QED BY <2>6, <2>8 DEF Copied, Byte
<1>10. ASSUME NEW i \in Cells(p) PROVE mem'[i] = p.text
  <2>1. CASE FillStream
    <3> DEFINE bytes == [j \in Cells(p) |-> Key]
    <3>1. mem' = Filled(bytes) /\ text["net"] = Key
      BY <2>1 DEF FillStream, Fill
    <3>2. mem'[i] = bytes[i]
      BY <1>8, <1>10, <3>1, FilledElsewhere
    <3> QED BY <1>1, <1>10, <3>1, <3>2
  <2>2. CASE FillText \/ FillKey
    <3> DEFINE bytes == [j \in Cells(p) |-> Copied(old, p, j)]
    <3>1. mem' = Filled(bytes) /\ text["net"] = Key /\ Len(got["net"]) \in 1..2
      BY <2>2 DEF FillText, FillKey, Fill
    <3>2. mem'[i] = bytes[i]
      BY <1>8, <1>10, <3>1, FilledElsewhere
    <3>3. got["net"] # <<>> /\ old.text = Key /\ old.size = size["net"]
      <4>1. got["net"] \in Seq(Pieces) /\ Len(got["net"]) \in 1..Len(got["net"])
        <5>1. got["net"] \in Seq(Pieces)
          BY DEF TypeInv, TypeOK, Threads
        <5> QED BY <3>1, <5>1, InOwnRange
      <4>2. KeyPieces /\ size["net"] = Bytes[Key]
        BY <1>2, <3>1 DEF TypeInv, NetAsks, Placing
      <4> QED BY <3>1, <4>1, <4>2 DEF KeyPieces, Final
    <3>4. i - p.at < size["net"]
      BY <1>1, <1>10 DEF Cells
    <3> HIDE DEF old
    <3> QED BY <1>1, <1>9, <1>10, <3>1, <3>2, <3>3, <3>4
  <2>3. CASE FillBuffer
    <3> DEFINE bytes == [j \in Cells(p) |->
                            IF old.text = Payload /\ j - p.at < old.size
                            THEN Copied(old, p, j) ELSE Payload]
    <3>1. mem' = Filled(bytes) /\ text["net"] = Payload
      BY <2>3 DEF FillBuffer, Fill
    <3>2. mem'[i] = bytes[i]
      BY <1>8, <1>10, <3>1, FilledElsewhere
    <3>3. got["net"] # <<>>
      BY <1>2, <3>1 DEF TypeInv, NetAsks, Placing
    <3> HIDE DEF old
    <3>4. bytes[i] = Payload
      BY <1>9, <1>10, <3>3
    <3> QED BY <1>1, <3>1, <3>2, <3>4
  <2> QED BY <2>1, <2>2, <2>3 DEF NetFill
<1>11. Intact(p)'
  <2>1. DOMAIN mem' = DOMAIN mem
    BY NetFillIsWritten DEF Written
  <2> QED BY <1>8, <1>10, <2>1 DEF Intact, Holds, Cells
<1> QED BY <1>1, <1>4, <1>7, <1>11 DEF Kept, EndOf

\* Every step preserves SaveInv.
LEMMA NextSaveInv ==
    ASSUME TypeInv, TypeInv', SaveInv, [Next]_vars PROVE SaveInv'
<1> SUFFICES ASSUME Safe' PROVE /\ Orderly'
                                /\ \A i \in 1..Len(got'["net"]) : Kept(got["net"][i])'
  BY DEF Safe, SaveInv, Orderly
<1>1. Orderly'
  BY NextOrderly
<1>2. got["net"] \in Seq(Pieces) /\ got'["net"] \in Seq(Pieces)
  BY DEF TypeInv, TypeOK, Threads
<1>3. CASE Check("net") /\ got["net"] = <<>>
  <2>1. got'["net"] = <<>>
    BY <1>3 DEF Check
  <2> QED BY <1>1, <2>1
<1>4. CASE Safe /\ spent <= spent'
  <2>1. ASSUME NEW i \in 1..Len(got["net"]) PROVE Kept(got["net"][i])
    BY <1>4, <2>1 DEF Safe, SaveInv
  <2>2. \A p \in Pieces : Kept(p) => Kept(p)'
    BY <1>4, KeptStays
  <2>3. ASSUME NEW i \in 1..Len(got'["net"]), NEW p \in Pieces, Kept(p)', p = got'["net"][i]
        PROVE  Kept(got["net"][i])'
    BY <2>3 DEF Kept, Behind, Intact, Holds, Cells, EndOf
  <2>4. CASE got'["net"] = got["net"] \/ got'["net"] = <<>>
    <3>1. ASSUME NEW i \in 1..Len(got'["net"]) PROVE Kept(got["net"][i])'
      <4>1. PICK p \in Pieces : p = got["net"][i] /\ p = got'["net"][i] /\ i \in 1..Len(got["net"])
        BY <1>2, <2>4, <3>1
      <4> QED BY <2>1, <2>2, <2>3, <4>1
    <3> QED BY <1>1, <3>1
  <2>5. CASE NetFill
    <3>1. PICK p \in Pieces : p = Piece("net")
      BY PieceIsTyped DEF TypeInv, Threads
    <3>2. Kept(p)'
      BY <1>4, <2>5, <3>1, NewPieceIsKept
    <3>3. ASSUME NEW i \in 1..Len(got'["net"])
          PROVE  got'["net"][i] = p \/ \E j \in 1..Len(got["net"]) : got'["net"][i] = got["net"][j]
      <4>1. CASE FillStream \/ FillKey
        <5>1. got'["net"] = <<p>>
          BY <3>1, <4>1 DEF FillStream, FillKey, TypeInv, TypeOK, Threads
        <5> QED BY <3>3, <5>1
      <4>2. CASE FillText
        <5>1. got'["net"] = Append(got["net"], p) /\ Len(got["net"]) = 1
          BY <3>1, <4>2 DEF FillText, TypeInv, TypeOK, Threads
        <5>2. Len(got'["net"]) = 2 /\ got'["net"][1] = got["net"][1] /\ got'["net"][2] = p
          BY <1>2, <5>1, OneMore
        <5> QED BY <3>3, <5>1, <5>2
      <4>3. CASE FillBuffer
        <5>1. got'["net"] = <<Head(got["net"]), p>>
          BY <3>1, <4>3 DEF FillBuffer, TypeInv, TypeOK, Threads
        <5>2. Len(got["net"]) \in 1..2
          BY <4>3, NetFillIsWritten, Numbers DEF FillBuffer, Fill, TypeInv, NetAsks, Placing
        <5>3. Head(got["net"]) = got["net"][1] /\ 1 \in 1..Len(got["net"])
          <6>1. 1 \in 1..Len(got["net"])
            BY <5>2, InOwnRange
          <6> QED BY <1>2, <6>1
        <5> QED BY <3>3, <5>1, <5>3
      <4> QED BY <2>5, <4>1, <4>2, <4>3 DEF NetFill
    <3>4. ASSUME NEW i \in 1..Len(got'["net"]) PROVE Kept(got["net"][i])'
      <4>1. CASE got'["net"][i] = p
        BY <2>3, <3>2, <3>4, <4>1
      <4>2. ASSUME NEW j \in 1..Len(got["net"]), got'["net"][i] = got["net"][j]
            PROVE  Kept(got["net"][i])'
        <5>1. PICK q \in Pieces : q = got["net"][j]
          BY <1>2, <4>2
        <5> QED BY <2>1, <2>2, <2>3, <3>4, <4>2, <5>1
      <4> QED BY <3>3, <3>4, <4>1, <4>2
    <3> QED BY <1>1, <3>4
  <2> QED BY <2>4, <2>5, SaveKinds
<1> QED BY <1>3, <1>4, SafeBefore

\* The key and the data that are bound to a statement stay as they are, whatever
\* the application asks for meanwhile and wherever the block is begun anew, if
\* calls do not overlap and no more than half the block is asked for.
THEOREM BoundArgumentsStay == Spec => []StaticArgumentsStay
<1>1. SaveInv => StaticArgumentsStay
  BY DEF SaveInv, StaticArgumentsStay, Started, Kept, BoundIsIntact
<1>2. TypeInv /\ SaveInv /\ [Next]_vars => SaveInv'
  BY NextTypeInv, NextSaveInv
<1> QED BY <1>1, <1>2, InitTypeInv, NextTypeInv, InitSaveInv, PTL DEF Spec

=============================================================================
