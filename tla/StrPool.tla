------------------------------- MODULE StrPool -------------------------------
(* The memory that strings live in (memory.cpp, str.cpp).  lt_allocate cuts  *)
(* pieces off one block, from the beginning again when the rest is too       *)
(* small, and never asks whether a piece is still in use.  Two threads call  *)
(* it, with no lock:                                                         *)
(*   app  lt_query_torrent and lt_query_file ask lt_cached_str for two       *)
(*        strings and hand their addresses to the application, which copies  *)
(*        them before its next call;                                         *)
(*   net  lt_update_resume_data has the hash written out, encodes the resume *)
(*        data into a vector that doubles as it grows, and binds the address *)
(*        of both to a statement, uncopied, until the statement is finalized.*)
EXTENDS Integers, Sequences

CONSTANTS
    Strings,   \* the names and paths of torrents and files
    Key,       \* a hash as lt_hash_str writes it
    Payload,   \* resume data, encoded
    Junk,      \* what memory holds otherwise
    Bytes,     \* the length of each string and of the key, with its NUL
    HashOf,    \* boost::hash of each string
    Size,      \* MEM_BLOCK_SIZE
    MaxCap,    \* bound: capacity the vector grows to
    MaxCalls   \* bound: calls of the two threads together

Nowhere == -1
Hashes  == {HashOf[s] : s \in Strings}
Texts   == Strings \cup {Key, Payload, Junk}
Threads == {"app", "net"}

ASSUME PoolAssumption ==
    /\ Size \in Nat \ {0} /\ MaxCap \in Nat /\ MaxCalls \in Nat
    /\ Key # Payload
    /\ Bytes \in [Strings \cup {Key} -> Nat \ {0}]

VARIABLES
    last,    \* g_mem_block_last, as an offset
    mem,     \* the block: the text whose byte each cell holds
    cache,   \* g_str_cache: an offset, or Nowhere, for each hash
    pc,      \* of each thread: see TypeOK
    text,    \* of each thread: the text it is about to place
    size,    \* of each thread: the n of lt_allocate
    at,      \* of each thread: the r of lt_allocate
    rest,    \* app: strings of the query still to place
    got,     \* of each thread: the pieces it holds an address of
    fresh,   \* history: pieces filled since the block was last begun anew
    anew,    \* history: the block was begun anew at least once
    clash,   \* history: calls overlapped since the block was last begun anew
    torn,    \* history: calls overlapped since the last save began
    spent,   \* history: bytes asked for, by either thread, since it began
    calls

poolVars == <<last, mem, cache>>
callVars == <<pc, text, size, at, rest, got>>
history  == <<fresh, anew, clash, torn, spent>>
vars == <<poolVars, callVars, history, calls>>

Pieces == [text : Texts, at : Nat, size : Nat]

TypeOK ==
    /\ last \in Nat
    /\ mem \in [0..Size - 1 -> Texts]
    /\ cache \in [Hashes -> Nat \cup {Nowhere}]
    /\ pc \in [Threads -> {"idle", "lookup", "check", "take", "advance",
                           "fill", "grow", "held"}]
    /\ text \in [Threads -> Texts]
    /\ size \in [Threads -> Nat]
    /\ at \in [Threads -> Nat]
    /\ rest \in Seq(Strings)
    /\ got \in [Threads -> Seq(Pieces)]
    /\ fresh \subseteq Pieces
    /\ anew \in BOOLEAN /\ clash \in BOOLEAN /\ torn \in BOOLEAN
    /\ spent \in Nat
    /\ calls \in 0..MaxCalls

Init ==
    /\ last = 0
    /\ mem = [i \in 0..Size - 1 |-> Junk]
    /\ cache = [h \in Hashes |-> Nowhere]
    /\ pc = [t \in Threads |-> "idle"]
    /\ text = [t \in Threads |-> Junk]
    /\ size = [t \in Threads |-> 0]
    /\ at = [t \in Threads |-> 0]
    /\ rest = <<>>
    /\ got = [t \in Threads |-> <<>>]
    /\ fresh = {} /\ anew = FALSE /\ clash = FALSE /\ torn = FALSE
    /\ spent = 0 /\ calls = 0

Cells(p) == p.at..(p.at + p.size - 1)
Holds(p, s) == \A i \in Cells(p) : i \in DOMAIN mem /\ mem[i] = s
Intact(p) == Holds(p, p.text)
Final(s) == s[Len(s)]

Go(t, where) == pc' = [pc EXCEPT ![t] = where]

-----------------------------------------------------------------------------
(* lt_allocate: three statements on a shared pointer.                        *)

\* The thread is between the test of lt_allocate and the end of its writing.
Inside(t) == pc[t] \in {"take", "advance", "fill"}
Overlaps(t) == \E u \in Threads \ {t} : Inside(u)

TooLate(n)  == last >= Size          \* variant: the request is left out
Overruns(n) == last + n >= Size

Check(t) ==
    /\ pc[t] = "check"
    /\ \/ /\ Overruns(size[t])
          /\ last' = 0
          /\ fresh' = {} /\ anew' = TRUE
          /\ clash' = Overlaps(t)
       \/ /\ ~Overruns(size[t])
          /\ clash' = (clash \/ Overlaps(t))
          /\ UNCHANGED <<last, fresh, anew>>
    /\ torn' = (torn \/ Overlaps(t))
    /\ spent' = spent + size[t]
    /\ Go(t, "take")
    /\ UNCHANGED <<mem, cache, text, size, at, rest, got, calls>>

Take(t) ==
    /\ pc[t] = "take"
    /\ at' = [at EXCEPT ![t] = last]
    /\ Go(t, "advance")
    /\ UNCHANGED <<poolVars, text, size, rest, got, history, calls>>

WithoutNul(n) == last + n - 1        \* variant: strlen bytes, not one more
Beyond(n)     == last + n

Advance(t) ==
    /\ pc[t] = "advance"
    /\ last' = Beyond(size[t])
    /\ Go(t, "fill")
    /\ UNCHANGED <<mem, cache, text, size, at, rest, got, history, calls>>

\* The piece the thread was given for its text.
Piece(t) == [text |-> text[t], at |-> at[t], size |-> size[t]]

\* What the block holds after bytes, a function of offsets, are written.  A
\* write past the block leaves the model's cells alone.
Filled(bytes) == [i \in DOMAIN mem |->
                     IF i \in DOMAIN bytes THEN bytes[i] ELSE mem[i]]

\* A byte at a place of the block, or of what lies behind it.
Byte(i) == IF i \in DOMAIN mem THEN mem[i] ELSE Junk

\* What memcpy puts into the i-th cell when p is copied from old: nothing to
\* rely on where the two overlap.
Copied(old, p, i) ==
    IF Cells(old) \cap Cells(p) = {} THEN Byte(old.at + (i - p.at)) ELSE Junk

\* The thread writes bytes to its piece.
Fill(t, bytes) ==
    /\ pc[t] = "fill"
    /\ mem' = Filled(bytes)
    /\ fresh' = fresh \cup {Piece(t)}
    /\ UNCHANGED <<last, anew, clash, torn, spent, at, calls>>

-----------------------------------------------------------------------------
(* app: two calls of _lt_cached_str                                          *)

Begins(t) == /\ pc[t] = "idle" /\ calls < MaxCalls
             /\ calls' = calls + 1

Query(s1, s2) ==
    /\ Begins("app")
    /\ rest' = <<s1, s2>>
    /\ Go("app", "lookup")
    /\ UNCHANGED <<poolVars, text, size, at, got, history>>

Anything(s) == TRUE                  \* variant: operator[] without find
Found(s)    == cache[HashOf[s]] # Nowhere

\* A string whose hash is known is not placed again.
Lookup ==
    /\ pc["app"] = "lookup" /\ rest # <<>>
    /\ LET s == Head(rest)
       IN \/ /\ Found(s)
             /\ got' = [got EXCEPT !["app"] = Append(@,
                           [text |-> s, at |-> cache[HashOf[s]], size |-> Bytes[s]])]
             /\ rest' = Tail(rest)
             /\ UNCHANGED <<pc, text, size>>
          \/ /\ ~Found(s)
             /\ text' = [text EXCEPT !["app"] = s]
             /\ size' = [size EXCEPT !["app"] = Bytes[s]]
             /\ Go("app", "check")
             /\ UNCHANGED <<got, rest>>
    /\ UNCHANGED <<poolVars, at, history, calls>>

\* lt_strdup copies the text, then its address goes into the cache.
FillString ==
    LET p == Piece("app")
    IN /\ Fill("app", [i \in Cells(p) |-> p.text])
       /\ got' = [got EXCEPT !["app"] = Append(@, p)]
       /\ cache' = [cache EXCEPT ![HashOf[p.text]] = p.at]
       /\ rest' = Tail(rest)
       /\ Go("app", "lookup")
       /\ UNCHANGED <<text, size>>

Answer ==
    /\ pc["app"] = "lookup" /\ rest = <<>>
    /\ Go("app", "held")
    /\ UNCHANGED <<poolVars, text, size, at, rest, got, history, calls>>

-----------------------------------------------------------------------------
(* net: lt_update_resume_data                                                *)

Save ==
    /\ Begins("net")
    /\ text' = [text EXCEPT !["net"] = Key]
    /\ size' = [size EXCEPT !["net"] = Bytes[Key]]
    /\ Go("net", "check")
    /\ torn' = FALSE /\ spent' = 0
    /\ UNCHANGED <<poolVars, at, rest, got, fresh, anew, clash>>

\* lt_cached_str writes the hash to a stream, whose memory is the pool's too.
FillStream ==
    /\ text["net"] = Key /\ got["net"] = <<>>
    /\ Fill("net", [i \in Cells(Piece("net")) |-> Key])
    /\ got' = [got EXCEPT !["net"] = <<Piece("net")>>]
    /\ Go("net", "check")
    /\ UNCHANGED <<cache, text, size, rest>>

\* str() of the stream makes a string of it, in a piece of its own.
FillText ==
    /\ text["net"] = Key /\ Len(got["net"]) = 1
    /\ LET p == Piece("net")
       IN /\ Fill("net", [i \in Cells(p) |-> Copied(Final(got["net"]), p, i)])
          /\ got' = [got EXCEPT !["net"] = Append(@, p)]
    /\ Go("net", "check")
    /\ UNCHANGED <<cache, text, size, rest>>

\* lt_strdup copies that string, and the copy stays where it is.
FillKey ==
    /\ text["net"] = Key /\ Len(got["net"]) = 2
    /\ LET p == Piece("net")
       IN /\ Fill("net", [i \in Cells(p) |-> Copied(Final(got["net"]), p, i)])
          /\ got' = [got EXCEPT !["net"] = <<p>>]
    /\ text' = [text EXCEPT !["net"] = Payload]
    /\ size' = [size EXCEPT !["net"] = 1]
    /\ Go("net", "check")
    /\ UNCHANGED <<cache, rest>>

\* The vector moves: what it has is copied over, and bytes are added until it
\* is full again.
FillBuffer ==
    /\ text["net"] = Payload
    /\ LET p   == Piece("net")
           old == Final(got["net"])
       IN /\ Fill("net", [i \in Cells(p) |->
                        IF old.text = Payload /\ i - p.at < old.size
                        THEN Copied(old, p, i) ELSE Payload])
          /\ got' = [got EXCEPT !["net"] = <<Head(@), p>>]
    /\ Go("net", "grow")
    /\ UNCHANGED <<cache, text, size, rest>>

\* bencode has more to write, or is through.
GrowOrBind ==
    /\ pc["net"] = "grow"
    /\ \/ /\ 2 * size["net"] <= MaxCap
          /\ size' = [size EXCEPT !["net"] = 2 * @]
          /\ Go("net", "check")
       \/ /\ Go("net", "held")
          /\ UNCHANGED size
    /\ UNCHANGED <<poolVars, text, at, rest, got, history, calls>>

-----------------------------------------------------------------------------
\* The application has copied its strings, or the statement is finalized.
Release(t) ==
    /\ pc[t] = "held"
    /\ got' = [got EXCEPT ![t] = <<>>]
    /\ Go(t, "idle")
    /\ UNCHANGED <<poolVars, text, size, at, rest, history, calls>>

Next ==
    \/ \E t \in Threads : Check(t) \/ Take(t) \/ Advance(t) \/ Release(t)
    \/ \E s1, s2 \in Strings : Query(s1, s2)
    \/ Lookup \/ FillString \/ Answer
    \/ Save \/ FillStream \/ FillText \/ FillKey \/ FillBuffer \/ GrowOrBind

Spec == Init /\ [][Next]_vars

-----------------------------------------------------------------------------
(* Properties                                                                *)

\* While calls of the two threads do not overlap, no piece reaches past the end
\* of the block, wherever the last one ended, but for one that is larger than
\* the block; and the one after it is in the block again.
InBlock == ~clash => \A t \in Threads : pc[t] = "fill" /\ size[t] <= Size
                                            => at[t] + size[t] <= Size

\* The two threads use the block as an arena, turn by turn: what either is
\* given lies in the block and clear of all that both were given before, until
\* the whole block is begun anew, and nothing else takes pieces back.  Calls
\* that overlap forfeit this until the block is begun anew, and no longer.
Granted == IF clash THEN {}
           ELSE {[at |-> p.at, size |-> p.size] : p \in {q \in fresh : q.size <= Size}}
Alloc   == INSTANCE Arena WITH live <- Granted
ImplementsArena == Alloc!Spec

\* sqlite3.h has a SQLITE_STATIC argument stay as it is until the statement is
\* finalized.  The key and the data bound by lt_update_resume_data do, whatever
\* the application asks of the pool meanwhile and even when the block is begun
\* anew under the save, if no calls overlap and if both threads together ask
\* for no more than half the block from the save's beginning on.
BoundIsIntact == \A i \in 1..Len(got["net"]) : Intact(got["net"][i])
StaticArgumentsStay ==
    pc["net"] = "held" /\ ~torn /\ 2 * spent <= Size => BoundIsIntact

\* The same without the two conditions, which nothing in the code sees to.
BoundArgumentsValid == pc["net"] = "held" => BoundIsIntact

\* Until the block is begun anew for the first time, and calls have not
\* overlapped, each string that lt_query_torrent and lt_query_file answer is
\* whole and has the hash of the one asked for, whether it was cached by an
\* earlier query or placed by this one, and whatever was saved meanwhile.
AnswersRightUntilAnew ==
    ~anew /\ ~clash /\ pc["app"] = "held" =>
        \A i \in 1..Len(got["app"]) : \E s \in Strings :
            /\ HashOf[s] = HashOf[got["app"][i].text]
            /\ Holds([at |-> got["app"][i].at, size |-> Bytes[s]], s)

\* memory.cpp says that beginning the block anew invalidates the string cache:
\* an answer has the strings that were asked for, at least where no save ever
\* takes memory besides.
NothingSaved == text["net"] = Junk
AnswersAreRight ==
    NothingSaved /\ pc["app"] = "held" =>
        \A i \in 1..Len(got["app"]) : Intact(got["app"][i])
=============================================================================
