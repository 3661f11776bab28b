------------------------- MODULE DataMessages_proofs -------------------------
(***************************************************************************)
(* What convertData and ReturnDataLua make of a table (LuaThread.cpp), for *)
(* values of any size and nesting and any number of trips.                 *)
(*                                                                         *)
(* The proof needs no induction over values: read and made relate every    *)
(* table to what was made of it, and an entry that is a table is in the    *)
(* relation before the table that holds it.                                *)
(***************************************************************************)
EXTENDS DataMessages, SequenceTheorems, TLAPS

Firsts(R)  == {r[1] : r \in R}
Seconds(R) == {r[2] : r \in R}
IsPair(p)  == p = <<p[1], p[2]>>

(* m is what convertData gives for the key and for the value of the entry  *)
(* e, if R has the tables read; w is what ReturnDataLua gives for m, if M  *)
(* has the tables made.                                                    *)
KeyRead(R, e, m) == IF IsTable(e[1]) THEN <<e[2], m>> \in R ELSE m = Message(e[1])
ValRead(R, e, m) == IF IsTable(e[2]) THEN <<e[2], m>> \in R ELSE m = Message(e[2])
Makes(M, m, w)   == IF m.type = "table" THEN <<m, w>> \in M ELSE w = m

(* What a call for a table has done when it has visited the entries es of  *)
(* the table and holds the entries ds of the copy.                         *)
ReadSoFar(R, es, ds) ==
  /\ \A d \in ds : IsPair(d) /\ \E e \in es : Passes(e) /\ KeyRead(R, e, d[1]) /\ ValRead(R, e, d[2])
  /\ \A e \in es : ~Unreadable(e) /\ (IsTable(e[2]) => e[2] \in Firsts(R))
  /\ \A e \in es : Passes(e) => \E d \in ds : KeyRead(R, e, d[1]) /\ ValRead(R, e, d[2])

MadeSoFar(M, es, ds) ==
  /\ \A d \in ds : IsPair(d) /\ d[1] # NaN /\ \E e \in es : Makes(M, e[1], d[1]) /\ Makes(M, e[2], d[2])
  /\ \A e \in es : e[1] # NaN /\ (e[2].type = "table" => e[2] \in Firsts(M))
  /\ \A e \in es : \E d \in ds : Makes(M, e[1], d[1])
  /\ \A d, e \in ds : d[1] = e[1] => d = e

ReadInv(R) ==
  \A r \in R : /\ IsPair(r) /\ r[1].type = "table" /\ r[2] = Table(r[2].entries)
               /\ ReadSoFar(R, r[1].entries, r[2].entries)

MadeInv(R, M) ==
  \A r \in M : /\ IsPair(r) /\ r[1].type = "table" /\ r[2] = Table(r[2].entries)
               /\ r[1] \in Seconds(R)
               /\ MadeSoFar(M, r[1].entries, r[2].entries)

(* What convertData leaves as it is: a value that is no table, ...         *)
Clean(x) == x.type \in {"boolean", "number", "string"} /\ Message(x) = x

(* ... and the tables of a set that have such keys, each once, and as      *)
(* values such values and tables of the set.                               *)
CleanSet(C) ==
  \A t \in C :
    /\ t = Table(t.entries)
    /\ \A e \in t.entries : /\ IsPair(e) /\ Clean(e[1])
                            /\ IF IsTable(e[2]) THEN e[2] \in C ELSE Clean(e[2])
    /\ \A d, e \in t.entries : d[1] = e[1] => d = e

Keeps(R) == \A C \in SUBSET Firsts(R) : CleanSet(C) => \A r \in R : r[1] \in C => r[2] = r[1]

(* What has been received, if M has the tables made.                       *)
Good(M, x) == IF x.type = "table" THEN x \in Seconds(M) ELSE Clean(x)

(* The calls under way: dir says whether they send or get, v is what the   *)
(* outermost is for.                                                       *)
Call(dir, R, M, f) ==
  /\ f = [of |-> f.of, todo |-> f.todo, stage |-> f.stage, at |-> f.at, key |-> f.key, done |-> f.done]
  /\ f.of.type = "table" /\ f.todo \subseteq f.of.entries
  /\ f.stage \in {"next", "key", "value"}
  /\ f.stage # "next" => f.at \in f.todo
  /\ dir = "send" => /\ ReadSoFar(R, f.of.entries \ f.todo, f.done)
                     /\ f.stage = "value" => KeyRead(R, f.at, f.key)
  /\ dir = "get" => /\ MadeSoFar(M, f.of.entries \ f.todo, f.done)
                    /\ f.stage = "value" => Makes(M, f.at[1], f.key)

Inside(dir, f, t) ==
  /\ f.stage # "next" /\ t.type = "table"
  /\ dir = "send" => t = f.at[2] /\ (f.stage = "key" => IsTable(f.at[1]))
  /\ dir = "get"  => t = IF f.stage = "key" THEN f.at[1] ELSE f.at[2]

Stack(dir, R, M, v, cs) ==
  /\ cs \in Seq(ToSet(cs))
  /\ cs # <<>> => cs[1].of = v
  /\ \A i \in 1..Len(cs) : Call(dir, R, M, cs[i])
  /\ \A i \in 1..(Len(cs) - 1) : Inside(dir, cs[i], cs[i + 1].of)

(* What is returned to the innermost call, or to Send_Data or Get_Data.    *)
Returned(dir, R, M, v, cs, m) ==
  /\ m # Pending /\ cs = <<>> =>
       /\ dir = "send" => IF IsTable(v) THEN <<v, m>> \in R ELSE m = Message(v)
       /\ dir = "get"  => Makes(M, v, m)
  /\ m # Pending /\ cs # <<>> =>
       /\ Last(cs).stage # "next"
       /\ dir = "send" => IF Last(cs).stage = "key" THEN KeyRead(R, Last(cs).at, m) ELSE ValRead(R, Last(cs).at, m)
       /\ dir = "get"  => Makes(M, IF Last(cs).stage = "key" THEN Last(cs).at[1] ELSE Last(cs).at[2], m)

(* The tables sent whose messages the calls that get are for.              *)
Origins(R, M, v, trips, cs) ==
  \E g \in [1..Len(cs) -> Firsts(R)] :
    /\ cs # <<>> => g[1] = v
    /\ \A i \in 1..Len(cs) : <<g[i], cs[i].of>> \in R /\ (trips > 1 => g[i] \in Seconds(M))
    /\ \A i \in 1..(Len(cs) - 1) : \E e \in g[i].entries : Passes(e) /\ g[i + 1] = e[2]

dirNow  == IF answer \in {"sending", "undefined"} THEN "send" ELSE "get"
callFor == IF dirNow = "send" THEN Last(sent) ELSE message

CallsInv ==
  /\ Stack(dirNow, read, made, callFor, calls)
  /\ Returned(dirNow, read, made, callFor, calls, returned)
  /\ answer \in {"none", "true", "false"} => calls = <<>> /\ returned = Pending
  /\ answer \in {"getting", "error"} => Origins(read, made, Last(sent), Len(sent), calls)
  /\ dirNow = "send" /\ Len(sent) > 1 => \A i \in 1..Len(calls) : calls[i].of \in Seconds(made)
  /\ answer = "undefined" => calls # <<>> /\ Top.stage # "next" /\ Unreadable(Top.at)
  /\ answer = "error" => calls # <<>> /\ Top.stage = "value" /\ Top.key = NaN

TripsInv ==
  /\ sent \in Seq(ToSet(sent))
  /\ answer # "none" => sent # <<>>
  /\ sent # <<>> => Last(sent).type # "self"
  /\ answer = "none" => value.type # "self"
  /\ Len(sent) > 1 => Good(made, Last(sent))
  /\ message # None => IF IsTable(Last(sent)) THEN <<Last(sent), message>> \in read ELSE message = Message(Last(sent))
  /\ answer = "none" /\ sent # <<>> => CopyOf(Last(sent), value) /\ Good(made, value)
  /\ answer = "false" => ~Sendable(Last(sent))

(* An entry that is a table is read, and made, before the table that holds *)
(* it: what read and made relate, they relate entry by entry.              *)
IInv ==
  /\ TypeOK
  /\ ReadInv(read) /\ Keeps(read)
  /\ MadeInv(read, made) /\ Keeps(made)
  /\ CallsInv
  /\ TripsInv

-----------------------------------------------------------------------------
(* The message of what is no table is no table, is None just for what      *)
(* cannot be sent, and is sent on as it is.                                *)
LEMMA Scalars ==
  ASSUME NEW v
  PROVE  /\ Message(v).type \in {"none", "boolean", "number", "string"} /\ Message(v) # Pending
         /\ ~IsTable(v) => (Message(v) = None <=> ~Sendable(v))
         /\ ~IsTable(v) /\ Sendable(v) => Clean(Message(v)) /\ Plain(v) = Message(v)
         /\ Clean(v) => ~IsTable(v) /\ Sendable(v) /\ v.type # "table"
<1> USE DEF Message, None, Pending, Num, Str, Value, Clean, Sendable, Plain, IsTable
<1>1. CASE v.type = "number"
  BY <1>1 DEF IsNumber, ToNumber
<1>2. CASE v.type = "boolean"
  BY <1>2 DEF IsNumber, ToNumber
<1>3. CASE v.type = "string" /\ v.is \in DOMAIN NumberOf
  BY <1>3 DEF IsNumber, ToNumber
<1>4. CASE v.type = "string" /\ v.is \notin DOMAIN NumberOf
  BY <1>4 DEF IsNumber, ToNumber, NumberOf, Kept
<1>5. CASE v.type \notin {"boolean", "number", "string"}
  BY <1>5 DEF IsNumber, ToNumber
<1> QED BY <1>1, <1>2, <1>3, <1>4, <1>5

(* What Append and Front make of the calls under way.                      *)
LEMMA Stacks ==
  ASSUME NEW cs, cs \in Seq(ToSet(cs)), NEW f
  PROVE  /\ Len(cs) \in Nat /\ (cs = <<>> <=> Len(cs) = 0)
         /\ \A k \in 1..Len(cs) : cs[k] \in ToSet(cs)
         /\ LET a == Append(cs, f)
            IN /\ a \in Seq(ToSet(a)) /\ Len(a) = Len(cs) + 1 /\ a # <<>>
               /\ Last(a) = f /\ a[Len(cs) + 1] = f
               /\ \A k \in 1..Len(cs) : a[k] = cs[k]
         /\ cs # <<>> =>
              /\ Len(cs) >= 1 /\ Last(cs) = cs[Len(cs)]
              /\ LET b == Front(cs)
                 IN /\ b \in Seq(ToSet(b)) /\ Len(b) = Len(cs) - 1
                    /\ \A k \in 1..(Len(cs) - 1) : b[k] = cs[k]
              /\ LET c == Append(Front(cs), f)
                 IN /\ c \in Seq(ToSet(c)) /\ Len(c) = Len(cs) /\ c # <<>>
                    /\ Last(c) = f /\ c[Len(cs)] = f
                    /\ \A k \in 1..(Len(cs) - 1) : c[k] = cs[k]
<1>1. ASSUME NEW S, NEW s \in Seq(S)
      PROVE  s \in Seq(ToSet(s)) /\ Len(s) \in Nat /\ (s = <<>> <=> Len(s) = 0) /\ (\A k \in 1..Len(s) : s[k] \in ToSet(s))
  BY <1>1 DEF ToSet
<1>2. ASSUME NEW S, NEW s \in Seq(S)
      PROVE  LET a == Append(s, f)
             IN /\ a \in Seq(ToSet(a)) /\ Len(a) = Len(s) + 1 /\ a # <<>>
                /\ Last(a) = f /\ a[Len(s) + 1] = f
                /\ \A k \in 1..Len(s) : a[k] = s[k]
  <2> DEFINE a == Append(s, f)
  <2>1. s \in Seq(S \cup {f}) /\ f \in S \cup {f}
    OBVIOUS
  <2>2. a \in Seq(S \cup {f}) /\ Len(a) = Len(s) + 1 /\ a[Len(s) + 1] = f /\ \A k \in 1..Len(s) : a[k] = s[k]
    BY <2>1, AppendProperties
  <2>3. Last(a) = f
    BY <2>2 DEF Last
  <2> HIDE DEF a
  <2>4. a \in Seq(ToSet(a)) /\ a # <<>>
    BY <2>2, <1>1
  <2> QED BY <2>2, <2>3, <2>4 DEF a
<1>3. ASSUME cs # <<>>
      PROVE  LET b == Front(cs)
             IN /\ Len(cs) >= 1 /\ b \in Seq(ToSet(cs)) /\ Len(b) = Len(cs) - 1
                /\ \A k \in 1..(Len(cs) - 1) : b[k] = cs[k]
  <2>1. /\ Len(cs) - 1 \in Int /\ Len(cs) >= 1
        /\ \A i \in 1..(Len(cs) - 1) : cs[i] \in ToSet(cs)
    BY <1>1, <1>3
  <2> DEFINE b == Front(cs)
             n == Len(cs) - 1
  <2>2. /\ b \in Seq(ToSet(cs))
        /\ Len(b) = IF 1 <= n THEN n - 1 + 1 ELSE 0
        /\ \A i \in 1..(n - 1 + 1) : b[i] = cs[1 + i - 1]
    BY <2>1, SubSeqProperties DEF Front
  <2>3. n \in Nat /\ n - 1 + 1 = n
    BY <2>1, <1>1
  <2>4. \A i \in 1..n : 1 + i - 1 = i
    BY <2>3
  <2> HIDE DEF b, n
  <2>5. Len(b) = n /\ \A i \in 1..n : b[i] = cs[i]
    BY <2>2, <2>3, <2>4
  <2> QED BY <2>1, <2>2, <2>5 DEF b, n
<1>4. cs # <<>> => LET b == Front(cs)
                   IN b \in Seq(ToSet(b)) /\ Len(b) + 1 = Len(cs) /\ \A k \in 1..Len(b) : b[k] = cs[k]
  BY <1>1, <1>3
<1> QED BY <1>1, <1>2, <1>3, <1>4 DEF Last

(* What has been read or made stays so.                                    *)
LEMMA Grows ==
  ASSUME NEW R, NEW S, R \subseteq S
  PROVE  /\ Firsts(R) \subseteq Firsts(S) /\ Seconds(R) \subseteq Seconds(S)
         /\ \A e, m : (KeyRead(R, e, m) => KeyRead(S, e, m)) /\ (ValRead(R, e, m) => ValRead(S, e, m))
         /\ \A m, w : Makes(R, m, w) => Makes(S, m, w)
         /\ \A es, ds : ReadSoFar(R, es, ds) => ReadSoFar(S, es, ds)
         /\ \A es, ds : MadeSoFar(R, es, ds) => MadeSoFar(S, es, ds)
<1>1. Firsts(R) \subseteq Firsts(S) /\ Seconds(R) \subseteq Seconds(S)
  BY DEF Firsts, Seconds
<1>2. \A e, m : (KeyRead(R, e, m) => KeyRead(S, e, m)) /\ (ValRead(R, e, m) => ValRead(S, e, m))
  BY DEF KeyRead, ValRead
<1>3. \A m, w : Makes(R, m, w) => Makes(S, m, w)
  BY DEF Makes
<1>4. \A es, ds : ReadSoFar(R, es, ds) => ReadSoFar(S, es, ds)
  BY <1>1, <1>2, Zenon DEF ReadSoFar
<1>5. \A es, ds : MadeSoFar(R, es, ds) => MadeSoFar(S, es, ds)
  BY <1>1, <1>3, Zenon DEF MadeSoFar
<1> QED BY <1>1, <1>2, <1>3, <1>4, <1>5

(* A table that was received has each key once, and in it only clean       *)
(* values and tables that were received; a key is a table only if its      *)
(* value is.                                                               *)
LEMMA Received ==
  ASSUME NEW R, NEW M, ReadInv(R), MadeInv(R, M), NEW w \in Seconds(M)
  PROVE  /\ w = Table(w.entries) /\ w.type = "table"
         /\ \A d \in w.entries : /\ IsPair(d) /\ d[1] # NaN /\ Good(M, d[1]) /\ Good(M, d[2])
                                 /\ d[1].type = "table" => d[2].type = "table"
         /\ \A d, e \in w.entries : d[1] = e[1] => d = e
<1>1. PICK q \in M : w = q[2]
  BY DEF Seconds
<1>2. q[2] = Table(q[2].entries) /\ q[1] \in Seconds(R) /\ MadeSoFar(M, q[1].entries, w.entries)
  BY <1>1 DEF MadeInv
<1>3. PICK r \in R : q[1] = r[2]
  BY <1>2 DEF Seconds
<1>4. ReadSoFar(R, r[1].entries, q[1].entries)
  BY <1>3 DEF ReadInv
<1>5. \A es : Table(es).type = "table"
  BY DEF Table
<1>6. /\ \A p \in R : p[1].type = "table" /\ p[2].type = "table"
      /\ \A p \in M : p[2].type = "table"
  BY <1>5 DEF ReadInv, MadeInv
<1>7. ASSUME NEW d \in w.entries
      PROVE  /\ IsPair(d) /\ d[1] # NaN /\ Good(M, d[1]) /\ Good(M, d[2])
             /\ d[1].type = "table" => d[2].type = "table"
  <2>1. PICK p \in q[1].entries : Makes(M, p[1], d[1]) /\ Makes(M, p[2], d[2])
    BY <1>2 DEF MadeSoFar
  <2>2. PICK e \in r[1].entries : Passes(e) /\ KeyRead(R, e, p[1]) /\ ValRead(R, e, p[2])
    BY <1>4 DEF ReadSoFar
  <2>3. IF IsTable(e[1]) THEN <<e[2], p[1]>> \in R /\ p[1].type = "table" ELSE Clean(p[1]) /\ p[1].type # "table"
    BY <2>2, <1>6, Scalars DEF KeyRead, Passes
  <2>4. IF IsTable(e[2]) THEN p[2].type = "table" ELSE Clean(p[2]) /\ p[2].type # "table"
    BY <2>2, <1>6, Scalars DEF ValRead, Passes
  <2>5. IF p[1].type = "table" THEN d[1] \in Seconds(M) /\ d[1].type = "table" ELSE d[1] = p[1]
    BY <2>1, <1>6 DEF Makes, Seconds
  <2>6. IF p[2].type = "table" THEN d[2] \in Seconds(M) /\ d[2].type = "table" ELSE d[2] = p[2]
    BY <2>1, <1>6 DEF Makes, Seconds
  <2>7. IsTable(e[1]) => IsTable(e[2])
    BY <2>2, <1>6 DEF IsTable, KeyRead
  <2>8. IsPair(d) /\ d[1] # NaN
    BY <1>2 DEF MadeSoFar
  <2> QED BY <2>3, <2>4, <2>5, <2>6, <2>7, <2>8 DEF Good
<1>8. \A d, e \in w.entries : d[1] = e[1] => d = e
  BY <1>2 DEF MadeSoFar
<1> QED BY <1>1, <1>2, <1>7, <1>8 DEF Table

(* A call goes on, begins and ends.                                        *)
LEMMA StackSteps ==
  ASSUME NEW dir \in {"send", "get"}, NEW R, NEW M, NEW v, NEW cs, Stack(dir, R, M, v, cs)
  PROVE  /\ \A f : cs # <<>> /\ Call(dir, R, M, f) /\ f.of = Last(cs).of
                     => Stack(dir, R, M, v, Append(Front(cs), f))
         /\ \A t : t.type = "table" /\ (IF cs = <<>> THEN t = v ELSE Inside(dir, Last(cs), t))
                     => Stack(dir, R, M, v, Append(cs, CallFor(t)))
         /\ cs # <<>> => /\ Stack(dir, R, M, v, Front(cs))
                         /\ IF Front(cs) = <<>> THEN Last(cs).of = v ELSE Inside(dir, Last(Front(cs)), Last(cs).of)
<1>1. cs \in Seq(ToSet(cs)) /\ Len(cs) \in Nat
  BY Stacks DEF Stack
<1>2. ASSUME NEW f, cs # <<>>, Call(dir, R, M, f), f.of = Last(cs).of
      PROVE  Stack(dir, R, M, v, Append(Front(cs), f))
  <2> DEFINE c == Append(Front(cs), f)
  <2>1. /\ c \in Seq(ToSet(c)) /\ Len(c) = Len(cs) /\ c # <<>> /\ Len(cs) >= 1
        /\ c[Len(cs)] = f /\ Last(cs) = cs[Len(cs)]
        /\ \A k \in 1..(Len(cs) - 1) : c[k] = cs[k]
    BY <1>1, <1>2, Stacks
  <2> HIDE DEF c
  <2>2. \A k \in 1..Len(cs) : c[k].of = cs[k].of
    BY <2>1, <1>1, <1>2
  <2>3. \A k \in 1..Len(c) : Call(dir, R, M, c[k])
    BY <2>1, <1>1, <1>2 DEF Stack
  <2>4. \A k \in 1..(Len(c) - 1) : Inside(dir, c[k], c[k + 1].of)
    BY <2>1, <2>2, <1>1 DEF Stack
  <2>5. c[1].of = v
    BY <2>1, <2>2, <1>1, <1>2 DEF Stack
  <2> QED BY <2>1, <2>3, <2>4, <2>5 DEF Stack, c
<1>3. ASSUME NEW t, t.type = "table", IF cs = <<>> THEN t = v ELSE Inside(dir, Last(cs), t)
      PROVE  Stack(dir, R, M, v, Append(cs, CallFor(t)))
  <2> DEFINE c == Append(cs, CallFor(t))
  <2>1. /\ c \in Seq(ToSet(c)) /\ Len(c) = Len(cs) + 1 /\ c # <<>>
        /\ c[Len(cs) + 1] = CallFor(t)
        /\ \A k \in 1..Len(cs) : c[k] = cs[k]
        /\ cs = <<>> <=> Len(cs) = 0
        /\ cs # <<>> => Last(cs) = cs[Len(cs)]
    BY <1>1, Stacks
  <2>2. CallFor(t).of = t /\ Call(dir, R, M, CallFor(t))
    BY <1>3 DEF CallFor, Call, ReadSoFar, MadeSoFar
  <2> HIDE DEF c
  <2>3. \A k \in 1..Len(c) : Call(dir, R, M, c[k])
    BY <2>1, <2>2, <1>1 DEF Stack
  <2>4. ASSUME NEW k \in 1..(Len(c) - 1)
        PROVE  Inside(dir, c[k], c[k + 1].of)
    <3>1. CASE k = Len(cs)
      <4>1. cs # <<>> /\ c[k] = Last(cs) /\ c[k + 1] = CallFor(t)
        BY <3>1, <2>1, <1>1
      <4> QED BY <4>1, <2>2, <1>3
    <3>2. CASE k # Len(cs)
      <4>1. k \in 1..(Len(cs) - 1) /\ c[k] = cs[k] /\ c[k + 1] = cs[k + 1]
        BY <3>2, <2>1, <1>1
      <4> QED BY <4>1 DEF Stack
    <3> QED BY <3>1, <3>2
  <2>5. c[1].of = v
    <3>1. CASE cs = <<>>
      BY <3>1, <2>1, <2>2, <1>3
    <3>2. CASE cs # <<>>
      BY <3>2, <2>1, <1>1 DEF Stack
    <3> QED BY <3>1, <3>2
  <2> QED BY <2>1, <2>3, <2>4, <2>5 DEF Stack, c
<1>4. ASSUME cs # <<>>
      PROVE  /\ Stack(dir, R, M, v, Front(cs))
             /\ IF Front(cs) = <<>> THEN Last(cs).of = v ELSE Inside(dir, Last(Front(cs)), Last(cs).of)
  <2> DEFINE b == Front(cs)
  <2>1. /\ b \in Seq(ToSet(b)) /\ Len(b) = Len(cs) - 1 /\ Len(cs) >= 1
        /\ Last(cs) = cs[Len(cs)]
        /\ \A k \in 1..(Len(cs) - 1) : b[k] = cs[k]
    BY <1>1, <1>4, Stacks
  <2>2. (b = <<>> <=> Len(b) = 0) /\ (b # <<>> => Last(b) = b[Len(b)])
    BY <2>1, Stacks
  <2> HIDE DEF b
  <2>3. \A k \in 1..Len(b) : Call(dir, R, M, b[k])
    BY <2>1, <1>1 DEF Stack
  <2>4. \A k \in 1..(Len(b) - 1) : Inside(dir, b[k], b[k + 1].of)
    <3> TAKE k \in 1..(Len(b) - 1)
    <3>1. k \in 1..(Len(cs) - 1) /\ b[k] = cs[k] /\ b[k + 1] = cs[k + 1]
      BY <2>1, <1>1
    <3> QED BY <3>1 DEF Stack
  <2>5. b # <<>> => b[1].of = v
    BY <2>1, <2>2, <1>1, <1>4 DEF Stack
  <2>6. CASE b = <<>>
    <3>1. Len(cs) = 1
      BY <2>1, <2>2, <2>6, <1>1
    <3>2. Last(cs).of = v
      BY <3>1, <2>1, <1>4 DEF Stack
    <3> QED BY <3>2, <2>1, <2>3, <2>4, <2>5, <2>6 DEF Stack, b
  <2>7. CASE b # <<>>
    <3>1. Len(cs) - 1 \in 1..(Len(cs) - 1) /\ Last(b) = cs[Len(cs) - 1] /\ Len(cs) - 1 + 1 = Len(cs)
      BY <2>1, <2>2, <2>7, <1>1
    <3>2. Inside(dir, Last(b), Last(cs).of)
      BY <3>1, <2>1 DEF Stack
    <3> QED BY <3>2, <2>1, <2>3, <2>4, <2>5, <2>7 DEF Stack, b
  <2> QED BY <2>6, <2>7
<1> QED BY <1>2, <1>3, <1>4

(* A copy of a table was made from the message that was read from it.      *)
LEMMA Copies ==
  ASSUME ReadInv(read), MadeInv(read, made)
  PROVE  /\ \A t, m, w : <<t, m>> \in read /\ <<m, w>> \in made => <<t, w>> \in Copied
         /\ \A c \in Copied : IsPair(c) /\ \E m : <<c[1], m>> \in read /\ <<m, c[2]>> \in made
<1>1. ASSUME NEW t, NEW m, NEW w, <<t, m>> \in read, <<m, w>> \in made
      PROVE  <<t, w>> \in Copied
  <2> DEFINE p == <<<<t, m>>, <<m, w>>>>
  <2>1. p \in read \X made /\ p[1][2] = p[2][1] /\ p[1][1] = t /\ p[2][2] = w
    BY <1>1
  <2> QED BY <2>1 DEF Copied
<1>2. ASSUME NEW c \in Copied
      PROVE  IsPair(c) /\ \E m : <<c[1], m>> \in read /\ <<m, c[2]>> \in made
  <2>1. PICK p \in read \X made : p[1][2] = p[2][1] /\ c = <<p[1][1], p[2][2]>>
    BY DEF Copied
  <2>2. p[1] \in read /\ p[2] \in made
    BY <2>1
  <2>3. IsPair(p[1]) /\ IsPair(p[2])
    BY <2>2 DEF ReadInv, MadeInv
  <2>4. <<c[1], p[1][2]>> \in read /\ <<p[1][2], c[2]>> \in made
    BY <2>1, <2>2, <2>3 DEF IsPair
  <2> QED BY <2>1, <2>4 DEF IsPair
<1> QED BY <1>1, <1>2

(* The invariant is inductive: a call that goes on, begins, or returns     *)
(* leaves what IInv says of the calls under way and of the tables that     *)
(* have been read and made.                                                *)
THEOREM Invariance == Spec => []IInv

(* A call that has read all entries of its table adds a table that has     *)
(* been read, which is a clean one only if it was.                         *)
<1>reading. ASSUME NEW R, ReadInv(R), Keeps(R),
                   NEW t, t.type = "table", NEW ds, ReadSoFar(R, t.entries, ds)
            PROVE  ReadInv(R \cup {<<t, Table(ds)>>}) /\ Keeps(R \cup {<<t, Table(ds)>>})
  <2> USE <1>reading
  <2> DEFINE S == R \cup {<<t, Table(ds)>>}
  <2>1. Table(ds).entries = ds
    BY DEF Table
  <2>2. ReadInv(S)
    <3>1. \A es, cs : ReadSoFar(R, es, cs) => ReadSoFar(S, es, cs)
      BY Grows
    <3>2. ASSUME NEW r \in S
          PROVE  /\ IsPair(r) /\ r[1].type = "table" /\ r[2] = Table(r[2].entries)
                 /\ ReadSoFar(R, r[1].entries, r[2].entries)
      BY <2>1 DEF ReadInv, IsPair
    <3> HIDE DEF S
    <3> QED BY <3>1, <3>2 DEF ReadInv
  <2>3. Keeps(S)
    <3> SUFFICES ASSUME NEW C \in SUBSET Firsts(S), CleanSet(C), NEW r \in S, r[1] \in C
                 PROVE  r[2] = r[1]
      BY DEF Keeps
    <3> DEFINE D == C \cap Firsts(R)
    <3>1. CleanSet(D)
      <4>1. \A u \in D : \A e \in u.entries : IsTable(e[2]) => e[2] \in Firsts(R)
        BY DEF ReadInv, ReadSoFar, Firsts
      <4> QED BY <4>1 DEF CleanSet
    <3>2. \A q \in R : q[1] \in C => q[2] = q[1]
      BY <3>1 DEF Keeps, Firsts
    <3>3. CASE r \in R
      BY <3>2, <3>3
    <3>4. CASE r = <<t, Table(ds)>>
      <4>1. t \in C /\ t = Table(t.entries)
        BY <3>4 DEF CleanSet
      <4>2. ASSUME NEW e \in t.entries, NEW d, IsPair(d), KeyRead(R, e, d[1]), ValRead(R, e, d[2])
            PROVE  d = e
        <5>1. IsPair(e) /\ Clean(e[1]) /\ (IF IsTable(e[2]) THEN e[2] \in C ELSE Clean(e[2]))
          BY <4>1 DEF CleanSet
        <5>2. d[1] = e[1]
          BY <4>2, <5>1, Scalars DEF KeyRead, Clean
        <5>3. d[2] = e[2]
          <6>1. CASE IsTable(e[2])
            BY <4>2, <5>1, <6>1, <3>2 DEF ValRead
          <6>2. CASE ~IsTable(e[2])
            BY <4>2, <5>1, <6>2 DEF ValRead, Clean
          <6> QED BY <6>1, <6>2
        <5> QED BY <4>2, <5>1, <5>2, <5>3 DEF IsPair
      <4>3. ds \subseteq t.entries
        BY <4>2 DEF ReadSoFar
      <4>4. ASSUME NEW e \in t.entries
            PROVE  e \in ds
        <5>1. Passes(e)
          BY <4>1, Scalars DEF CleanSet, Passes, Sendable
        <5>2. PICK d \in ds : KeyRead(R, e, d[1]) /\ ValRead(R, e, d[2])
          BY <5>1 DEF ReadSoFar
        <5> QED BY <5>2, <4>2 DEF ReadSoFar
      <4>5. ds = t.entries
        BY <4>3, <4>4
      <4> QED BY <3>4, <4>1, <4>5
    <3> QED BY <3>3, <3>4
  <2> QED BY <2>2, <2>3

(* The same for a call that has made its table.                            *)
<1>making. ASSUME NEW R, NEW M, MadeInv(R, M), Keeps(M),
                  NEW t, t.type = "table", t \in Seconds(R), NEW ds, MadeSoFar(M, t.entries, ds)
           PROVE  MadeInv(R, M \cup {<<t, Table(ds)>>}) /\ Keeps(M \cup {<<t, Table(ds)>>})
  <2> USE <1>making
  <2> DEFINE S == M \cup {<<t, Table(ds)>>}
  <2>1. Table(ds).entries = ds
    BY DEF Table
  <2>2. MadeInv(R, S)
    <3>1. \A es, cs : MadeSoFar(M, es, cs) => MadeSoFar(S, es, cs)
      BY Grows
    <3>2. ASSUME NEW r \in S
          PROVE  /\ IsPair(r) /\ r[1].type = "table" /\ r[2] = Table(r[2].entries)
                 /\ r[1] \in Seconds(R)
                 /\ MadeSoFar(M, r[1].entries, r[2].entries)
      BY <2>1 DEF MadeInv, IsPair
    <3> HIDE DEF S
    <3> QED BY <3>1, <3>2 DEF MadeInv
  <2>3. Keeps(S)
    <3> SUFFICES ASSUME NEW C \in SUBSET Firsts(S), CleanSet(C), NEW r \in S, r[1] \in C
                 PROVE  r[2] = r[1]
      BY DEF Keeps
    <3> DEFINE D == C \cap Firsts(M)
    <3>1. \A u \in C : u.type = "table"
      BY DEF CleanSet, Table
    <3>2. CleanSet(D)
      <4>1. \A u \in D : \A e \in u.entries : e[2].type = "table" => e[2] \in Firsts(M)
        BY DEF MadeInv, MadeSoFar, Firsts
      <4> QED BY <4>1, <3>1 DEF CleanSet
    <3>3. \A q \in M : q[1] \in C => q[2] = q[1]
      BY <3>2 DEF Keeps, Firsts
    <3>4. CASE r \in M
      BY <3>3, <3>4
    <3>5. CASE r = <<t, Table(ds)>>
      <4>1. t \in C /\ t = Table(t.entries)
        BY <3>5 DEF CleanSet
      <4>2. ASSUME NEW e \in t.entries
            PROVE  /\ IsPair(e)
                   /\ \A w : Makes(M, e[1], w) => w = e[1]
                   /\ \A w : Makes(M, e[2], w) => w = e[2]
        <5>1. IsPair(e) /\ Clean(e[1]) /\ (IF IsTable(e[2]) THEN e[2] \in C ELSE Clean(e[2]))
          BY <4>1 DEF CleanSet
        <5>2. \A w : Makes(M, e[1], w) => w = e[1]
          BY <5>1, Scalars DEF Makes
        <5>3. \A w : Makes(M, e[2], w) => w = e[2]
          BY <5>1, <3>3, Scalars DEF Makes
        <5> QED BY <5>1, <5>2, <5>3
      <4>3. ASSUME NEW d \in ds
            PROVE  d \in t.entries
        <5>1. PICK e \in t.entries : Makes(M, e[1], d[1]) /\ Makes(M, e[2], d[2])
          BY DEF MadeSoFar
        <5>2. d[1] = e[1] /\ d[2] = e[2] /\ IsPair(e) /\ IsPair(d)
          BY <5>1, <4>2 DEF MadeSoFar
        <5> QED BY <5>2 DEF IsPair
      <4>4. ASSUME NEW e \in t.entries
            PROVE  e \in ds
        <5>1. PICK d \in ds : Makes(M, e[1], d[1])
          BY DEF MadeSoFar
        <5>2. d \in t.entries /\ d[1] = e[1]
          BY <5>1, <4>2, <4>3
        <5> QED BY <5>2, <4>1 DEF CleanSet
      <4>5. ds = t.entries
        BY <4>3, <4>4
      <4> QED BY <3>5, <4>1, <4>5
    <3> QED BY <3>4, <3>5
  <2> QED BY <2>2, <2>3

(* The call that gets goes on, ends, and begins one for a table in its own *)
(* table: the table that it comes from is the value of an entry.           *)
<1>way. ASSUME NEW R, NEW M, ReadInv(R), MadeInv(R, M), NEW u,
               NEW v, NEW trips, NEW cs, Stack("get", R, M, u, cs), Origins(R, M, v, trips, cs)
        PROVE  /\ cs # <<>> => /\ Origins(R, M, v, trips, Front(cs))
                               /\ \A f : f.of = Last(cs).of => Origins(R, M, v, trips, Append(Front(cs), f))
               /\ \A t : (IF cs = <<>> THEN <<v, t>> \in R /\ (trips > 1 => v \in Seconds(M)) ELSE Inside("get", Last(cs), t))
                           => Origins(R, M, v, trips, Append(cs, CallFor(t)))
  <2> USE <1>way
  <2>1. cs \in Seq(ToSet(cs)) /\ Len(cs) \in Nat
    BY Stacks DEF Stack
  <2>2. PICK g \in [1..Len(cs) -> Firsts(R)] :
          /\ cs # <<>> => g[1] = v
          /\ \A i \in 1..Len(cs) : <<g[i], cs[i].of>> \in R /\ (trips > 1 => g[i] \in Seconds(M))
          /\ \A i \in 1..(Len(cs) - 1) : \E e \in g[i].entries : Passes(e) /\ g[i + 1] = e[2]
    BY DEF Origins
  <2>3. ASSUME NEW c, c \in Seq(ToSet(c)), Len(c) <= Len(cs), cs # <<>>,
               \A k \in 1..Len(c) : c[k].of = cs[k].of
        PROVE  Origins(R, M, v, trips, c)
    <3> DEFINE n == Len(c)
               h == [i \in 1..n |-> g[i]]
    <3>1. n \in Nat /\ (c = <<>> <=> n = 0)
      BY <2>3, Stacks
    <3>2. \A i \in 1..n : i \in 1..Len(cs)
      BY <2>1, <2>3, <3>1
    <3>3. \A i \in 1..(n - 1) : i \in 1..(Len(cs) - 1) /\ i \in 1..n /\ i + 1 \in 1..n
      BY <2>1, <2>3, <3>1
    <3>4. h \in [1..n -> Firsts(R)] /\ \A i \in 1..n : h[i] = g[i]
      BY <3>2, <2>2
    <3> HIDE DEF h
    <3>5. \A i \in 1..n : <<h[i], c[i].of>> \in R /\ (trips > 1 => h[i] \in Seconds(M))
      BY <3>2, <3>4, <2>2, <2>3
    <3>6. \A i \in 1..(n - 1) : \E e \in h[i].entries : Passes(e) /\ h[i + 1] = e[2]
      BY <3>3, <3>4, <2>2
    <3>7. c # <<>> => h[1] = v
      BY <3>1, <3>4, <2>2, <2>3
    <3> QED BY <3>4, <3>5, <3>6, <3>7 DEF Origins
  <2>4. ASSUME cs # <<>>
        PROVE  Origins(R, M, v, trips, Front(cs))
    <3>1. /\ Front(cs) \in Seq(ToSet(Front(cs))) /\ Len(Front(cs)) = Len(cs) - 1
          /\ \A k \in 1..(Len(cs) - 1) : Front(cs)[k] = cs[k]
      BY <2>1, <2>4, Stacks
    <3> QED BY <3>1, <2>1, <2>3, <2>4
  <2>5. ASSUME cs # <<>>, NEW f, f.of = Last(cs).of
        PROVE  Origins(R, M, v, trips, Append(Front(cs), f))
    <3> DEFINE c == Append(Front(cs), f)
    <3>1. /\ c \in Seq(ToSet(c)) /\ Len(c) = Len(cs) /\ c[Len(cs)] = f /\ Last(cs) = cs[Len(cs)]
          /\ \A k \in 1..(Len(cs) - 1) : c[k] = cs[k]
      BY <2>1, <2>5, Stacks
    <3> HIDE DEF c
    <3>2. \A k \in 1..Len(c) : c[k].of = cs[k].of
      BY <3>1, <2>1, <2>5
    <3>3. Origins(R, M, v, trips, c)
      BY <3>1, <3>2, <2>1, <2>3, <2>5
    <3> QED BY <3>3 DEF c
  <2>6. ASSUME NEW t, NEW x, <<x, t>> \in R, trips > 1 => x \in Seconds(M),
               IF cs = <<>> THEN x = v ELSE \E e \in g[Len(cs)].entries : Passes(e) /\ x = e[2]
        PROVE  Origins(R, M, v, trips, Append(cs, CallFor(t)))
    <3> DEFINE c == Append(cs, CallFor(t))
               n == Len(cs)
               h == [i \in 1..(n + 1) |-> IF i <= n THEN g[i] ELSE x]
    <3>1. /\ Len(c) = n + 1 /\ c[n + 1] = CallFor(t) /\ \A k \in 1..n : c[k] = cs[k]
          /\ (cs = <<>> <=> n = 0) /\ n \in Nat
      BY <2>1, Stacks
    <3>2. CallFor(t).of = t /\ x \in Firsts(R)
      BY <2>6 DEF CallFor, Firsts
    <3>3. h \in [1..(n + 1) -> Firsts(R)] /\ h[n + 1] = x /\ \A i \in 1..n : h[i] = g[i]
      BY <3>1, <3>2, <2>2
    <3>4. \A i \in 1..(n + 1) : i = n + 1 \/ i \in 1..n
      BY <3>1
    <3>5. \A i \in 1..n : i = n \/ (i \in 1..(n - 1) /\ i + 1 \in 1..n)
      BY <3>1
    <3>6. n + 1 - 1 = n
      BY <3>1
    <3> HIDE DEF h, c
    <3>7. \A i \in 1..(n + 1) : <<h[i], c[i].of>> \in R /\ (trips > 1 => h[i] \in Seconds(M))
      BY <3>1, <3>2, <3>3, <3>4, <2>2, <2>6
    <3>8. ASSUME NEW i \in 1..n
          PROVE  \E e \in h[i].entries : Passes(e) /\ h[i + 1] = e[2]
      <4>1. CASE i = n
        <5>1. n # 0 /\ cs # <<>>
          BY <4>1, <3>1
        <5> QED BY <5>1, <4>1, <3>3, <2>6
      <4>2. CASE i \in 1..(n - 1) /\ i + 1 \in 1..n
        BY <4>2, <3>3, <2>2
      <4> QED BY <4>1, <4>2, <3>5
    <3>9. h[1] = v
      <4>1. CASE cs = <<>>
        BY <4>1, <3>1, <3>3, <2>6
      <4>2. CASE cs # <<>>
        BY <4>2, <3>1, <3>3, <2>2
      <4> QED BY <4>1, <4>2
    <3>10. Origins(R, M, v, trips, c)
      BY <3>1, <3>3, <3>6, <3>7, <3>8, <3>9 DEF Origins
    <3> QED BY <3>10 DEF c
  <2>7. ASSUME cs # <<>>, NEW t, Inside("get", Last(cs), t)
        PROVE  \E e \in g[Len(cs)].entries :
                 /\ Passes(e) /\ <<e[2], t>> \in R /\ (trips > 1 => e[2] \in Seconds(M))
    <3> DEFINE f == Last(cs)
               n == Len(cs)
    <3>1. f = cs[n] /\ n \in 1..Len(cs)
      BY <2>1, <2>7, Stacks
    <3>2. f.at \in f.of.entries /\ t.type = "table" /\ (t = f.at[1] \/ t = f.at[2])
      <4>1. Call("get", R, M, f)
        BY <3>1 DEF Stack
      <4> HIDE DEF f
      <4>2. Inside("get", f, t)
        BY <2>7 DEF f
      <4> QED BY <4>1, <4>2 DEF Call, Inside
    <3>3. <<g[n], f.of>> \in R /\ (trips > 1 => g[n] \in Seconds(M))
      BY <3>1, <2>2
    <3> HIDE DEF f, n
    <3>4. ReadSoFar(R, g[n].entries, f.of.entries)
      BY <3>3 DEF ReadInv
    <3>5. PICK e \in g[n].entries : Passes(e) /\ KeyRead(R, e, f.at[1]) /\ ValRead(R, e, f.at[2])
      BY <3>2, <3>4 DEF ReadSoFar
    <3>6. \A x : Message(x).type # "table"
      BY Scalars
    <3>7. <<e[2], t>> \in R
      BY <3>2, <3>5, <3>6 DEF KeyRead, ValRead
    <3>8. e[2].type = "table"
      BY <3>7 DEF ReadInv
    <3>9. trips > 1 => e[2] \in Seconds(M)
      BY <3>3, <3>8, Received DEF Good
    <3> QED BY <3>5, <3>7, <3>9 DEF n
  <2>8. ASSUME NEW t, IF cs = <<>> THEN <<v, t>> \in R /\ (trips > 1 => v \in Seconds(M)) ELSE Inside("get", Last(cs), t)
        PROVE  Origins(R, M, v, trips, Append(cs, CallFor(t)))
    <3>1. CASE cs = <<>>
      BY <3>1, <2>6, <2>8
    <3>2. CASE cs # <<>>
      BY <3>2, <2>6, <2>7, <2>8
    <3> QED BY <3>1, <3>2
  <2>9. \A f : cs # <<>> /\ f.of = Last(cs).of => Origins(R, M, v, trips, Append(Front(cs), f))
    BY <2>5
  <2>10. \A t : (IF cs = <<>> THEN <<v, t>> \in R /\ (trips > 1 => v \in Seconds(M)) ELSE Inside("get", Last(cs), t))
                  => Origins(R, M, v, trips, Append(cs, CallFor(t)))
    BY <2>8
  <2> QED BY <2>4, <2>9, <2>10
<1> USE DataMessagesAssumption
<1>1. Init => IInv
  <2> SUFFICES ASSUME Init
               PROVE  IInv
    OBVIOUS
  <2> USE DEF Init
  <2>1. TypeOK
    BY DEF TypeOK, None, Value
  <2>2. ReadInv(read) /\ Keeps(read) /\ MadeInv(read, made) /\ Keeps(made)
    BY DEF ReadInv, MadeInv, Keeps
  <2>3. CallsInv
    BY DEF CallsInv, Stack, Returned, dirNow, ToSet
  <2>4. TripsInv
    BY DEF TripsInv, ToSet
  <2> QED BY <2>1, <2>2, <2>3, <2>4 DEF IInv
<1>2. ASSUME IInv, [Next]_vars
      PROVE  IInv'
  <2> USE <1>2
  <2>a. /\ ReadInv(read) /\ Keeps(read) /\ MadeInv(read, made) /\ Keeps(made)
        /\ calls \in Seq(ToSet(calls)) /\ sent \in Seq(ToSet(sent))
        /\ Stack(dirNow, read, made, callFor, calls)
        /\ Returned(dirNow, read, made, callFor, calls, returned)
    BY DEF IInv, CallsInv, TripsInv, Stack
  <2>b. /\ \A p \in read : p[1].type = "table" /\ p[2].type = "table"
        /\ \A p \in made : p[1].type = "table" /\ p[2].type = "table"
    <3>1. \A es : Table(es).type = "table"
      BY DEF Table
    <3> QED BY <3>1, <2>a DEF ReadInv, MadeInv
  <2>c. \A dir, R, M, v, cs :
          Stack(dir, R, M, v, cs) => \A i \in 1..Len(cs) : cs[i].stage \in {"next", "key", "value"} /\ cs[i].of.type = "table"
    <3> TAKE dir, R, M, v, cs
    <3>1. ASSUME Stack(dir, R, M, v, cs), NEW i \in 1..Len(cs)
          PROVE  cs[i].stage \in {"next", "key", "value"} /\ cs[i].of.type = "table"
      <4>1. Call(dir, R, M, cs[i])
        BY <3>1 DEF Stack
      <4> QED BY <4>1 DEF Call
    <3> QED BY <3>1
  <2>d. dirNow \in {"send", "get"}
    BY DEF dirNow
  <2>e. calls # <<>> => /\ Len(calls) \in 1..Len(calls) /\ Top = calls[Len(calls)] 
                        /\ Call(dirNow, read, made, Top)
    <3>1. calls # <<>> => Len(calls) \in 1..Len(calls) /\ Top = calls[Len(calls)]
      BY <2>a, Stacks DEF Top
    <3>2. \A i \in 1..Len(calls) : Call(dirNow, read, made, calls[i])
      BY <2>a DEF Stack
    <3> QED BY <3>1, <3>2
  <2>g. calls # <<>> =>
          /\ Top \in [of : {Top.of}, todo : {Top.todo}, stage : {Top.stage}, at : {Top.at}, key : {Top.key}, done : {Top.done}]
          /\ Top.todo \subseteq Top.of.entries /\ (Top.stage # "next" => Top.at \in Top.todo)
    <3> DEFINE f == Top
    <3>1. calls # <<>> => Call(dirNow, read, made, f)
      BY <2>e
    <3> HIDE DEF f
    <3>2. calls # <<>> =>
            /\ f \in [of : {f.of}, todo : {f.todo}, stage : {f.stage}, at : {f.at}, key : {f.key}, done : {f.done}]
            /\ f.todo \subseteq f.of.entries /\ (f.stage # "next" => f.at \in f.todo)
      BY <3>1 DEF Call
    <3> QED BY <3>2 DEF f
  <2>f. ASSUME calls # <<>>, NEW f, f.of = Top.of
        PROVE  /\ Len(Above(f)) = Len(calls) /\ Above(f) # <<>> /\ Last(Above(f)) = f
               /\ \A i \in 1..Len(Above(f)) : Above(f)[i].of = calls[i].of
    <3> DEFINE c == Append(Front(calls), f)
    <3>1. /\ Len(c) = Len(calls) /\ Len(calls) \in Nat /\ c # <<>> /\ Last(c) = f /\ c[Len(calls)] = f
          /\ \A i \in 1..(Len(calls) - 1) : c[i] = calls[i]
      <4>1. calls \in Seq(ToSet(calls))
        BY <2>a
      <4> QED BY <4>1, <2>f, Stacks
    <3> HIDE DEF c
    <3>2. \A i \in 1..Len(c) : c[i].of = calls[i].of
      BY <3>1, <2>e, <2>f
    <3> QED BY <3>1, <3>2 DEF c, Above
  (* A call goes on, with the calls around it as they are.                 *)
  <2>1. ASSUME answer \in {"sending", "getting"}, calls # <<>>, 
               NEW f, Call(dirNow, read, made, f), f.of = Top.of, calls' = Above(f),
               Returned(dirNow, read, made, callFor, Above(f), returned'),
               UNCHANGED <<value, message, answer, sent, read, made>>
        PROVE  IInv'
    <3> USE <2>1
    <3>1. Stack(dirNow, read, made, callFor, calls')
      BY <2>a, <2>d, StackSteps DEF Above, Top
    <3>2. TypeOK'
      BY <3>1, <2>c DEF IInv, TypeOK
    <3>3. ASSUME answer = "getting"
          PROVE  Origins(read, made, Last(sent), Len(sent), calls')
      <4>1. Stack("get", read, made, callFor, calls) /\ Origins(read, made, Last(sent), Len(sent), calls)
        BY <3>3, <2>a DEF IInv, CallsInv, dirNow
      <4> QED BY <4>1, <2>a, <1>way DEF Above, Top
    <3>4. dirNow = "send" /\ Len(sent) > 1 => \A i \in 1..Len(calls') : calls'[i].of \in Seconds(made)
      BY <2>f, <2>1 DEF IInv, CallsInv
    <3>5. CallsInv'
      BY <3>1, <3>3, <3>4 DEF CallsInv, dirNow, callFor
    <3>6. TripsInv'
      BY DEF IInv, TripsInv
    <3> QED BY <2>a, <3>2, <3>5, <3>6 DEF IInv
  (* A call begins for the key or the value of the entry it is at.         *)
  <2>2. ASSUME answer \in {"sending", "getting"}, calls # <<>>,
               NEW f, Call(dirNow, read, made, f), f.of = Top.of, f.stage \in {"key", "value"},
               NEW x, x = IF f.stage = "key" THEN f.at[1] ELSE f.at[2],
               Calls(x, f.at[2], Above(f)),
               UNCHANGED <<value, message, sent, read, made>>
        PROVE  IInv'
    <3> USE <2>2
    <3> DEFINE c == Above(f)
    <3>a. c # <<>> /\ Last(c) = f /\ Len(c) = Len(calls) /\ \A i \in 1..Len(c) : c[i].of = calls[i].of
      BY <2>f
    <3>b. Stack(dirNow, read, made, callFor, c)
      BY <2>a, <2>d, StackSteps DEF Above, Top
    <3>c. f.at \in f.of.entries
      BY DEF Call
    <3>1. CASE answer = "sending" /\ ~IsTable(x)
      <4>1. calls' = c /\ returned' = Message(x) /\ answer' = answer
        BY <3>1 DEF Calls, convertData, Returns
      <4>2. Returned("send", read, made, callFor, c, Message(x))
        BY <3>a, <3>1 DEF Returned, KeyRead, ValRead
      <4> QED BY <4>1, <4>2, <3>1, <2>1 DEF dirNow
    <3>2. CASE answer = "getting" /\ x.type # "table"
      <4>1. calls' = c /\ returned' = x /\ answer' = answer
        BY <3>2 DEF Calls, ReturnDataLua, Returns
      <4>2. Returned("get", read, made, callFor, c, x)
        BY <3>a, <3>2 DEF Returned, Makes
      <4> QED BY <4>1, <4>2, <3>2, <2>1 DEF dirNow
    <3>3. ASSUME returned' = Pending, NEW t, t.type = "table", Inside(dirNow, f, t),
                 calls' = Append(c, CallFor(t)), answer' = answer,
                 answer = "sending" => t = f.at[2]
          PROVE  IInv'
      <4> USE <3>3
      <4>1. Stack(dirNow, read, made, callFor, calls')
        BY <3>a, <3>b, <2>d, StackSteps
      <4>2. TypeOK'
        BY <4>1, <2>c DEF IInv, TypeOK
      <4>3. ASSUME answer = "getting"
            PROVE  Origins(read, made, Last(sent), Len(sent), calls')
        <5>1. Stack("get", read, made, callFor, calls) /\ Origins(read, made, Last(sent), Len(sent), calls)
          BY <4>3, <2>a DEF IInv, CallsInv, dirNow
        <5>2. Origins(read, made, Last(sent), Len(sent), c)
          BY <5>1, <2>a, <1>way DEF Above, Top
        <5>3. Stack("get", read, made, callFor, c) /\ Inside("get", f, t)
          BY <4>3, <3>b DEF dirNow
        <5> HIDE DEF c
        <5> QED BY <5>2, <5>3, <3>a, <2>a, <1>way
      <4>4. ASSUME answer = "sending", Len(sent) > 1, NEW i \in 1..Len(calls')
            PROVE  calls'[i].of \in Seconds(made)
        <5>1. \A k \in 1..Len(calls) : calls[k].of \in Seconds(made)
          BY <4>4 DEF IInv, CallsInv, dirNow
        <5>2. t \in Seconds(made)
          <6>1. f.of \in Seconds(made)
            BY <5>1, <2>e
          <6> QED BY <6>1, <3>c, <4>4, <2>a, Received DEF Good
        <5>3. /\ c \in Seq(ToSet(c)) /\ CallFor(t).of = t
          BY <3>b DEF Stack, CallFor
        <5>4. /\ Len(c) \in Nat /\ Len(calls') = Len(c) + 1
              /\ calls'[Len(c) + 1] = CallFor(t) /\ \A k \in 1..Len(c) : calls'[k] = c[k]
          BY <5>3, Stacks
        <5> HIDE DEF c
        <5>5. i = Len(c) + 1 \/ i \in 1..Len(c)
          BY <5>4
        <5> QED BY <5>1, <5>2, <5>3, <5>4, <5>5, <3>a
      <4>5. Returned(dirNow, read, made, callFor, calls', Pending)
        BY DEF Returned
      <4>6. CallsInv'
        BY <4>1, <4>3, <4>4, <4>5 DEF CallsInv, dirNow, callFor
      <4>7. TripsInv'
        BY DEF IInv, TripsInv
      <4> QED BY <2>a, <4>2, <4>6, <4>7 DEF IInv
    <3>4. CASE answer = "sending" /\ IsTable(x) /\ f.at[2].type = "table"
      <4>1. calls' = Append(c, CallFor(f.at[2])) /\ returned' = Pending /\ answer' = answer
        BY <3>4 DEF Calls, convertData, Waits, TableRead
      <4>2. Inside("send", f, f.at[2])
        BY <3>4 DEF Inside, IsTable
      <4> QED BY <4>1, <4>2, <3>3, <3>4 DEF dirNow
    <3>5. CASE answer = "getting" /\ x.type = "table"
      <4>1. calls' = Append(c, CallFor(x)) /\ returned' = Pending /\ answer' = answer
        BY <3>5 DEF Calls, ReturnDataLua, Waits
      <4>2. Inside("get", f, x)
        BY <3>5 DEF Inside
      <4> QED BY <4>1, <4>2, <3>3, <3>5 DEF dirNow
    <3>6. CASE answer = "sending" /\ IsTable(x) /\ f.at[2].type # "table"
      <4> USE <3>6
      <4>1. calls' = c /\ returned' = Pending /\ answer' = "undefined"
        BY DEF Calls, convertData, Waits, TableRead
      <4>2. TypeOK'
        BY <4>1, <3>b, <2>c DEF IInv, TypeOK
      <4>3. Stack("send", read, made, Last(sent), calls')
        BY <4>1, <3>b DEF dirNow, callFor
      <4>4. Len(sent) > 1 => \A i \in 1..Len(calls') : calls'[i].of \in Seconds(made)
        BY <4>1, <3>a DEF IInv, CallsInv, dirNow
      <4>5. Unreadable(f.at)
        BY DEF Unreadable, IsTable
      <4>6. Returned("send", read, made, Last(sent), calls', Pending)
        BY DEF Returned
      <4>7. calls' # <<>> /\ Top' = f
        BY <4>1, <3>a DEF Top
      <4>8. CallsInv'
        BY <4>1, <4>3, <4>4, <4>5, <4>6, <4>7 DEF CallsInv, dirNow, callFor
      <4>9. TripsInv'
        BY <4>1 DEF IInv, TripsInv
      <4> QED BY <2>a, <4>2, <4>8, <4>9 DEF IInv
    <3> QED BY <3>1, <3>2, <3>4, <3>5, <3>6
  <2>3. CASE NextEntry
    <3>1. PICK e \in Top.todo : Calls(e[1], e[2], Above([Top EXCEPT !.stage = "key", !.at = e]))
      BY <2>3 DEF NextEntry
    <3> DEFINE f == [Top EXCEPT !.stage = "key", !.at = e]
    <3>2. calls # <<>> /\ Top.stage = "next" /\ answer \in {"sending", "getting"}
      BY <2>3, <3>1 DEF NextEntry, Calls
    <3>3. f = [of |-> Top.of, todo |-> Top.todo, stage |-> "key", at |-> e, key |-> Top.key, done |-> Top.done]
      <4>1. f \in [of : {Top.of}, todo : {Top.todo}, stage : {"key"}, at : {e}, key : {Top.key}, done : {Top.done}]
        BY <3>2, <2>g
      <4> HIDE DEF f
      <4> QED BY <4>1
    <3> HIDE DEF f
    <3>4. Call(dirNow, read, made, f) /\ f.of = Top.of /\ f.stage = "key" /\ f.at = e
      BY <3>2, <3>3, <2>e DEF Call
    <3> QED BY <3>1, <3>2, <3>4, <2>2, <2>3 DEF NextEntry, f
  <2>4. CASE KeyDone
    <3> DEFINE f == [Top EXCEPT !.stage = "value", !.key = returned]
    <3>1. calls # <<>> /\ Top.stage = "key" /\ returned # Pending /\ answer \in {"sending", "getting"}
      BY <2>4 DEF KeyDone, Calls
    <3>2. f = [of |-> Top.of, todo |-> Top.todo, stage |-> "value", at |-> Top.at, key |-> returned, done |-> Top.done]
      <4>1. f \in [of : {Top.of}, todo : {Top.todo}, stage : {"value"}, at : {Top.at}, key : {returned}, done : {Top.done}]
        BY <3>1, <2>g
      <4> HIDE DEF f
      <4> QED BY <4>1
    <3>3. Calls(Top.at[2], Top.at[2], Above(f))
      BY <2>4 DEF KeyDone
    <3> HIDE DEF f
    <3>4. /\ dirNow = "send" => KeyRead(read, Top.at, returned)
          /\ dirNow = "get" => Makes(made, Top.at[1], returned)
      BY <3>1, <2>a DEF Returned, Top
    <3>5. Call(dirNow, read, made, f) /\ f.of = Top.of /\ f.stage = "value" /\ f.at = Top.at
      BY <3>1, <3>2, <3>4, <2>e DEF Call
    <3> QED BY <3>1, <3>3, <3>5, <2>2, <2>4 DEF KeyDone
  (* The entry goes into the copy.                                         *)
  <2>5. ASSUME answer \in {"sending", "getting"}, NEW ds, EntryDone(ds),
               answer = "sending" => ReadSoFar(read, (Top.of.entries \ Top.todo) \cup {Top.at}, ds),
               answer = "getting" => MadeSoFar(made, (Top.of.entries \ Top.todo) \cup {Top.at}, ds)
        PROVE  IInv'
    <3> DEFINE f == [Top EXCEPT !.stage = "next", !.todo = @ \ {Top.at}, !.done = ds]
    <3>1. calls # <<>> /\ Top.stage = "value" /\ calls' = Above(f) /\ returned' = Pending
      BY <2>5 DEF EntryDone, Waits
    <3>2. f = [of |-> Top.of, todo |-> Top.todo \ {Top.at}, stage |-> "next", at |-> Top.at, key |-> Top.key, done |-> ds]
      <4>1. f \in [of : {Top.of}, todo : {Top.todo \ {Top.at}}, stage : {"next"}, at : {Top.at}, key : {Top.key}, done : {ds}]
        BY <3>1, <2>g
      <4> HIDE DEF f
      <4> QED BY <4>1
    <3> HIDE DEF f
    <3>3. Top.of.entries \ (Top.todo \ {Top.at}) = (Top.of.entries \ Top.todo) \cup {Top.at}
      BY <3>1, <2>g
    <3>4. Call(dirNow, read, made, f) /\ f.of = Top.of
      BY <3>1, <3>2, <3>3, <2>e, <2>5 DEF Call, dirNow
    <3>5. Returned(dirNow, read, made, callFor, Above(f), Pending)
      BY DEF Returned
    <3> QED BY <3>1, <3>4, <3>5, <2>1, <2>5 DEF EntryDone
  <2>6. CASE MapEntry
    <3> DEFINE ds == IF None \in {Top.key, returned} THEN Top.done ELSE Top.done \cup {<<Top.key, returned>>}
               es == Top.of.entries \ Top.todo
               e  == Top.at
    <3>1. EntryDone(ds) /\ answer = "sending" /\ calls # <<>> /\ Top.stage = "value" /\ returned # Pending
      BY <2>6 DEF MapEntry, EntryDone
    <3>2. ReadSoFar(read, es, Top.done) /\ KeyRead(read, e, Top.key)
      BY <3>1, <2>e DEF Call, dirNow
    <3>3. ValRead(read, e, returned)
      BY <3>1, <2>a DEF Returned, Top, dirNow
    <3> HIDE DEF e, es
    <3>4. ~Unreadable(e) /\ (IsTable(e[2]) => e[2] \in Firsts(read))
      <4>1. IsTable(e[2]) => e[2].type = "table" /\ e[2] \in Firsts(read)
        BY <3>3, <2>b DEF ValRead, Firsts
      <4>2. IsTable(e[1]) => e[2].type = "table"
        BY <3>2, <2>b DEF KeyRead
      <4> QED BY <4>1, <4>2 DEF Unreadable, IsTable
    <3>5. Passes(e) <=> None \notin {Top.key, returned}
      <4>1. None.type = "none"
        BY DEF None, Value
      <4>2. Sendable(e[1]) <=> Top.key # None
        BY <4>1, <3>2, <2>b, Scalars DEF KeyRead, Sendable
      <4>3. Sendable(e[2]) <=> returned # None
        BY <4>1, <3>3, <2>b, Scalars DEF ValRead, Sendable
      <4> QED BY <4>2, <4>3 DEF Passes
    <3>6. ReadSoFar(read, es \cup {e}, ds)
      <4>1. \A d \in ds : IsPair(d) /\ \E p \in es \cup {e} : Passes(p) /\ KeyRead(read, p, d[1]) /\ ValRead(read, p, d[2])
        BY <3>2, <3>3, <3>5 DEF ReadSoFar, IsPair
      <4>2. \A p \in es \cup {e} : Passes(p) => \E d \in ds : KeyRead(read, p, d[1]) /\ ValRead(read, p, d[2])
        <5> TAKE p \in es \cup {e}
        <5>1. CASE p \in es
          BY <5>1, <3>2 DEF ReadSoFar
        <5>2. CASE p = e /\ Passes(e)
          <6>1. <<Top.key, returned>> \in ds
            BY <5>2, <3>5
          <6> QED BY <5>2, <6>1, <3>2, <3>3
        <5> QED BY <5>1, <5>2
      <4> HIDE DEF ds
      <4>3. \A p \in es \cup {e} : ~Unreadable(p) /\ (IsTable(p[2]) => p[2] \in Firsts(read))
        BY <3>2, <3>4 DEF ReadSoFar
      <4> QED BY <4>1, <4>2, <4>3 DEF ReadSoFar
    <3> QED BY <3>1, <3>6, <2>5 DEF es, e
  <2>7. CASE SetEntry
    <3> DEFINE d0 == <<Top.key, returned>>
               ds == {d \in Top.done : d[1] # Top.key} \cup {d0}
               es == Top.of.entries \ Top.todo
               e  == Top.at
    <3>1. EntryDone(ds) /\ answer = "getting" /\ calls # <<>> /\ Top.stage = "value" /\ returned # Pending /\ Top.key # NaN
      BY <2>7 DEF SetEntry, EntryDone, Entry
    <3>2. MadeSoFar(made, es, Top.done) /\ Makes(made, e[1], Top.key)
      BY <3>1, <2>e DEF Call, dirNow
    <3>3. Makes(made, e[2], returned)
      BY <3>1, <2>a DEF Returned, Top, dirNow
    <3> HIDE DEF e, es
    <3>4. e[1] # NaN /\ (e[2].type = "table" => e[2] \in Firsts(made))
      <4>1. NaN.type = "number"
        BY DEF NaN, Num, Value
      <4> QED BY <4>1, <3>1, <3>2, <3>3 DEF Makes, Firsts
    <3>5. MadeSoFar(made, es \cup {e}, ds)
      <4>1. d0 \in ds /\ d0[1] = Top.key /\ d0[2] = returned /\ IsPair(d0) /\ \A d \in Top.done : d \in ds \/ d[1] = d0[1]
        BY DEF IsPair
      <4>2. \A d \in ds : d = d0 \/ (d \in Top.done /\ d[1] # d0[1])
        OBVIOUS
      <4> HIDE DEF ds, d0
      <4>3. \A d \in ds : IsPair(d) /\ d[1] # NaN /\ \E p \in es \cup {e} : Makes(made, p[1], d[1]) /\ Makes(made, p[2], d[2])
        BY <4>1, <4>2, <3>1, <3>2, <3>3 DEF MadeSoFar
      <4>4. \A p \in es \cup {e} : \E d \in ds : Makes(made, p[1], d[1])
        <5> TAKE p \in es \cup {e}
        <5>1. CASE p \in es
          <6>1. PICK d \in Top.done : Makes(made, p[1], d[1])
            BY <5>1, <3>2 DEF MadeSoFar
          <6> QED BY <6>1, <4>1
        <5>2. CASE p = e
          BY <5>2, <4>1, <3>2
        <5> QED BY <5>1, <5>2
      <4>5. \A p \in es \cup {e} : p[1] # NaN /\ (p[2].type = "table" => p[2] \in Firsts(made))
        BY <3>2, <3>4 DEF MadeSoFar
      <4>6. \A c, d \in ds : c[1] = d[1] => c = d
        BY <4>2, <3>2 DEF MadeSoFar
      <4> QED BY <4>3, <4>4, <4>5, <4>6 DEF MadeSoFar
    <3> QED BY <3>1, <3>5, <2>5 DEF es, e
  <2>8. CASE SetFails
    <3>1. /\ answer = "getting" /\ calls # <<>> /\ Top.stage = "value" /\ Top.key = NaN /\ answer' = "error"
          /\ UNCHANGED <<value, message, calls, returned, sent, read, made>>
      BY <2>8 DEF SetFails
    <3>2. TypeOK'
      BY <3>1 DEF IInv, TypeOK
    <3>3. CallsInv'
      BY <3>1 DEF IInv, CallsInv, dirNow, callFor, Top
    <3>4. TripsInv'
      BY <3>1 DEF IInv, TripsInv
    <3> QED BY <3>1, <3>2, <3>3, <3>4, <2>a DEF IInv
  (* A table has been read, or made, and is returned.                      *)
  <2>9. CASE TableDone /\ answer = "sending"
    <3> DEFINE t == Top.of
               w == Table(Top.done)
               S == read \cup {<<t, w>>}
    <3>1. /\ calls # <<>> /\ Top.todo = {} /\ returned' = w /\ calls' = Front(calls)
          /\ read' = S /\ UNCHANGED <<value, message, answer, sent, made>>
      BY <2>9 DEF TableDone, Returns
    <3>2. t.type = "table" /\ ReadSoFar(read, t.entries, Top.done)
      <4>1. t.entries \ {} = t.entries
        OBVIOUS
      <4> QED BY <4>1, <3>1, <2>e, <2>9 DEF Call, dirNow
    <3>3. ReadInv(S) /\ Keeps(S)
      BY <3>2, <2>a, <1>reading
    <3>4. read \subseteq S /\ <<t, w>> \in S
      OBVIOUS
    <3> HIDE DEF S, w, t
    <3>5. MadeInv(S, made)
      <4>1. Seconds(read) \subseteq Seconds(S)
        BY <3>4, Grows
      <4> QED BY <4>1, <2>a DEF MadeInv
    <3>6. Stack("send", S, made, Last(sent), calls)
      <4>1. Stack("send", read, made, Last(sent), calls)
        BY <2>a, <2>9 DEF dirNow, callFor
      <4>2. ASSUME NEW f, Call("send", read, made, f)
            PROVE  Call("send", S, made, f)
        BY <4>2, <3>4, Grows DEF Call
      <4> QED BY <4>1, <4>2 DEF Stack
    <3>7. /\ Stack("send", S, made, Last(sent), calls')
          /\ IF calls' = <<>> THEN t = Last(sent) ELSE Inside("send", Last(calls'), t)
      BY <3>1, <3>6, StackSteps DEF t, Top
    <3>8. Returned("send", S, made, Last(sent), calls', w)
      BY <3>2, <3>4, <3>7 DEF Returned, Inside, KeyRead, ValRead, IsTable
    <3>9. Len(sent) > 1 => \A i \in 1..Len(calls') : calls'[i].of \in Seconds(made)
      <4>1. Len(calls') = Len(calls) - 1 /\ Len(calls) \in Nat /\ \A k \in 1..(Len(calls) - 1) : calls'[k] = calls[k]
        BY <3>1, <2>a, Stacks
      <4> QED BY <4>1, <2>9 DEF IInv, CallsInv, dirNow
    <3>10. CallsInv'
      BY <3>1, <3>7, <3>8, <3>9, <2>9 DEF CallsInv, dirNow, callFor
    <3>11. TypeOK'
      BY <3>1, <3>7, <2>c DEF IInv, TypeOK
    <3>12. TripsInv'
      BY <3>1, <2>9 DEF IInv, TypeOK, TripsInv
    <3> QED BY <3>1, <3>3, <3>5, <3>10, <3>11, <3>12, <2>a DEF IInv
  <2>10. CASE TableDone /\ answer = "getting"
    <3> DEFINE t == Top.of
               w == Table(Top.done)
               S == made \cup {<<t, w>>}
    <3>1. /\ calls # <<>> /\ Top.todo = {} /\ returned' = w /\ calls' = Front(calls)
          /\ made' = S /\ UNCHANGED <<value, message, answer, sent, read>>
      BY <2>10 DEF TableDone, Returns
    <3>2. t.type = "table" /\ MadeSoFar(made, t.entries, Top.done)
      <4>1. t.entries \ {} = t.entries
        OBVIOUS
      <4> QED BY <4>1, <3>1, <2>e, <2>10 DEF Call, dirNow
    <3>a. /\ Stack("get", read, made, message, calls)
          /\ Origins(read, made, Last(sent), Len(sent), calls)
      BY <2>a, <2>10 DEF IInv, CallsInv, dirNow, callFor
    <3>3. t \in Seconds(read)
      <4>1. \A i \in 1..Len(calls) : \E x : <<x, calls[i].of>> \in read
        BY <3>a DEF Origins
      <4>2. PICK x : <<x, t>> \in read
        BY <4>1, <3>1, <2>e
      <4> QED BY <4>2 DEF Seconds
    <3>4. MadeInv(read, S) /\ Keeps(S)
      BY <3>2, <3>3, <2>a, <1>making
    <3>5. made \subseteq S /\ <<t, w>> \in S
      OBVIOUS
    <3> HIDE DEF S, w, t
    <3>b. Seconds(made) \subseteq Seconds(S)
      BY <3>5, Grows
    <3>6. Stack("get", read, S, message, calls)
      <4>1. ASSUME NEW f, Call("get", read, made, f)
            PROVE  Call("get", read, S, f)
        BY <4>1, <3>5, Grows DEF Call
      <4> QED BY <3>a, <4>1 DEF Stack
    <3>7. /\ Stack("get", read, S, message, calls')
          /\ IF calls' = <<>> THEN t = message ELSE Inside("get", Last(calls'), t)
      BY <3>1, <3>6, StackSteps DEF t, Top
    <3>8. Returned("get", read, S, message, calls', w)
      BY <3>2, <3>5, <3>7 DEF Returned, Inside, Makes
    <3>9. Origins(read, S, Last(sent), Len(sent), calls')
      <4>1. Origins(read, made, Last(sent), Len(sent), calls')
        BY <3>1, <3>a, <2>a, <1>way
      <4> QED BY <4>1, <3>b DEF Origins
    <3>10. CallsInv'
      BY <3>1, <3>7, <3>8, <3>9, <2>10 DEF CallsInv, dirNow, callFor
    <3>11. TypeOK'
      BY <3>1, <3>7, <2>c DEF IInv, TypeOK
    <3>12. TripsInv'
      <4>1. \A x : Good(made, x) => Good(S, x)
        BY <3>b DEF Good
      <4> QED BY <4>1, <3>1, <2>10 DEF IInv, TripsInv
    <3> QED BY <3>1, <3>4, <3>10, <3>11, <3>12, <2>a DEF IInv
  <2>11. CASE Lua_Send_Data
    <3>1. /\ answer = "none" /\ Len(sent) < MaxTrips /\ convertData(value, value, <<>>)
          /\ sent' = Append(sent, value) /\ UNCHANGED <<value, message, read, made>>
      BY <2>11 DEF Lua_Send_Data
    <3>2. calls = <<>> /\ value.type # "self" /\ (sent # <<>> => Good(made, value)) /\ message = None
      BY <3>1 DEF IInv, TypeOK, CallsInv, TripsInv
    <3>3. /\ Len(sent) \in Nat /\ (sent = <<>> <=> Len(sent) = 0)
          /\ sent' \in Seq(ToSet(sent')) /\ Len(sent') = Len(sent) + 1 /\ sent' # <<>> /\ Last(sent') = value
      BY <3>1, <2>a, Stacks
    <3>4. Len(sent') > 1 => Good(made, value)
      BY <3>2, <3>3
    <3>5. answer' = "sending"
      BY <3>1, <3>2 DEF convertData, TableRead, IsTable
    <3>6. Stack("send", read, made, value, <<>>)
      BY DEF Stack, ToSet
    <3>7. /\ Stack("send", read, made, value, calls')
          /\ Returned("send", read, made, value, calls', returned')
          /\ Len(sent') > 1 => \A i \in 1..Len(calls') : calls'[i].of \in Seconds(made)
      <4>1. CASE ~IsTable(value)
        <5>1. calls' = <<>> /\ returned' = Message(value)
          BY <4>1, <3>1, <3>2 DEF convertData, Returns
        <5> QED BY <5>1, <4>1, <3>6 DEF Returned
      <4>2. CASE IsTable(value)
        <5>1. value.type = "table"
          BY <4>2, <3>2 DEF IsTable
        <5>2. calls' = Append(<<>>, CallFor(value)) /\ returned' = Pending
          BY <4>2, <5>1, <3>1, <3>2 DEF convertData, Waits, TableRead
        <5>3. Stack("send", read, made, value, calls')
          BY <5>1, <5>2, <3>6, StackSteps
        <5>4. Len(calls') = 1 /\ calls'[1].of = value
          BY <5>2 DEF CallFor
        <5>5. Returned("send", read, made, value, calls', Pending)
          BY DEF Returned
        <5> QED BY <5>1, <5>2, <5>3, <5>4, <5>5, <3>4 DEF Good
      <4> QED BY <4>1, <4>2
    <3>8. CallsInv'
      BY <3>1, <3>3, <3>5, <3>7 DEF CallsInv, dirNow, callFor
    <3>9. TypeOK'
      BY <3>1, <3>2, <3>3, <3>5, <3>7, <2>c DEF IInv, TypeOK
    <3>10. TripsInv'
      BY <3>1, <3>2, <3>3, <3>4, <3>5 DEF TripsInv
    <3> QED BY <3>1, <3>8, <3>9, <3>10, <2>a DEF IInv
  <2>12. CASE SendDone
    <3>1. /\ answer = "sending" /\ calls = <<>> /\ returned # Pending /\ message' = returned /\ returned' = Pending
          /\ answer' = IF returned = None THEN "false" ELSE "true"
          /\ UNCHANGED <<value, calls, sent, read, made>>
      BY <2>12 DEF SendDone, Waits
    <3>2. IF IsTable(Last(sent)) THEN <<Last(sent), returned>> \in read ELSE returned = Message(Last(sent))
      BY <3>1, <2>a DEF Returned, dirNow, callFor
    <3>3. returned.type \in {"none", "boolean", "number", "string", "table"}
      BY <3>2, <2>b, Scalars
    <3>4. returned = None => ~Sendable(Last(sent))
      BY <3>2, <2>b, Scalars DEF None, Value
    <3>5. TypeOK'
      BY <3>1, <3>3 DEF IInv, TypeOK
    <3>6. CallsInv'
      BY <3>1 DEF CallsInv, Stack, Returned, dirNow, callFor, ToSet
    <3>7. TripsInv'
      BY <3>1, <3>2, <3>4 DEF IInv, TripsInv
    <3> QED BY <3>1, <3>5, <3>6, <3>7, <2>a DEF IInv
  <2>13. CASE Lua_Get_Data
    <3>1. answer = "true" /\ ReturnDataLua(message, <<>>) /\ UNCHANGED <<value, message, sent, read, made>>
      BY <2>13 DEF Lua_Get_Data
    <3>2. /\ calls = <<>> /\ message # None
          /\ IF IsTable(Last(sent)) THEN <<Last(sent), message>> \in read ELSE message = Message(Last(sent))
          /\ Len(sent) > 1 => Good(made, Last(sent))
      BY <3>1 DEF IInv, TypeOK, CallsInv, TripsInv
    <3>3. answer' = "getting"
      BY <3>1 DEF ReturnDataLua
    <3>4. Stack("get", read, made, message, <<>>)
      BY DEF Stack, ToSet
    <3>5. Origins(read, made, Last(sent), Len(sent), <<>>)
      <4>1. [i \in 1..0 |-> i] \in [1..Len(<<>>) -> Firsts(read)]
        OBVIOUS
      <4>2. Len(<<>>) = 0 /\ 1..0 = {} /\ 1..(0 - 1) = {}
        OBVIOUS
      <4> QED BY <4>1, <4>2 DEF Origins
    <3>6. /\ Stack("get", read, made, message, calls')
          /\ Returned("get", read, made, message, calls', returned')
          /\ Origins(read, made, Last(sent), Len(sent), calls')
      <4>1. CASE message.type # "table"
        <5>1. calls' = <<>> /\ returned' = message
          BY <4>1, <3>1 DEF ReturnDataLua, Returns
        <5> QED BY <5>1, <4>1, <3>4, <3>5 DEF Returned, Makes
      <4>2. CASE message.type = "table"
        <5>1. calls' = Append(<<>>, CallFor(message)) /\ returned' = Pending
          BY <4>2, <3>1 DEF ReturnDataLua, Waits
        <5>2. <<Last(sent), message>> \in read /\ (Len(sent) > 1 => Last(sent) \in Seconds(made))
          <6>1. <<Last(sent), message>> \in read
            BY <4>2, <3>2, Scalars
          <6>2. Last(sent).type = "table"
            BY <6>1, <2>b
          <6> QED BY <6>1, <6>2, <3>2 DEF Good
        <5>3. Stack("get", read, made, message, calls')
          BY <4>2, <5>1, <3>4, StackSteps
        <5>4. Origins(read, made, Last(sent), Len(sent), calls')
          BY <5>1, <5>2, <3>4, <3>5, <2>a, <1>way
        <5>5. Returned("get", read, made, message, calls', Pending)
          BY DEF Returned
        <5> QED BY <5>1, <5>3, <5>4, <5>5
      <4> QED BY <4>1, <4>2
    <3>7. CallsInv'
      BY <3>1, <3>3, <3>6 DEF CallsInv, dirNow, callFor
    <3>8. TypeOK'
      BY <3>1, <3>3, <3>6, <2>c DEF IInv, TypeOK
    <3>9. TripsInv'
      BY <3>1, <3>3 DEF IInv, TripsInv
    <3> QED BY <3>1, <3>7, <3>8, <3>9, <2>a DEF IInv
  <2>14. CASE GetDone
    <3>1. /\ answer = "getting" /\ calls = <<>> /\ returned # Pending
          /\ value' = returned /\ message' = None /\ answer' = "none" /\ returned' = Pending
          /\ UNCHANGED <<calls, sent, read, made>>
      BY <2>14 DEF GetDone, Waits
    <3>2. Makes(made, message, returned) /\ message # None /\ sent # <<>>
      BY <3>1, <2>a DEF Returned, dirNow, callFor, IInv, TypeOK, TripsInv
    <3>3. IF IsTable(Last(sent)) THEN <<Last(sent), message>> \in read ELSE message = Message(Last(sent))
      BY <3>2 DEF IInv, TripsInv
    <3>4. CopyOf(Last(sent), returned)
      <4>1. CASE IsTable(Last(sent))
        BY <4>1, <3>2, <3>3, <2>a, <2>b, Copies DEF CopyOf, Makes
      <4>2. CASE ~IsTable(Last(sent))
        BY <4>2, <3>2, <3>3, Scalars DEF CopyOf, Makes
      <4> QED BY <4>1, <4>2
    <3>5. Good(made, returned) /\ returned.type # "self"
      <4>1. CASE message.type = "table"
        BY <4>1, <3>2, <2>b DEF Makes, Good, Seconds
      <4>2. CASE message.type # "table"
        <5>1. returned = Message(Last(sent)) /\ ~IsTable(Last(sent))
          BY <4>2, <3>2, <3>3, <2>b DEF Makes
        <5> QED BY <5>1, <3>2, <3>3, Scalars DEF Good, Clean
      <4> QED BY <4>1, <4>2
    <3>6. TypeOK'
      BY <3>1 DEF IInv, TypeOK, None, Value
    <3>7. CallsInv'
      BY <3>1 DEF CallsInv, Stack, Returned, dirNow, callFor, ToSet
    <3>8. TripsInv'
      BY <3>1, <3>2, <3>4, <3>5 DEF IInv, TripsInv, CopyOf, Copied
    <3> QED BY <3>1, <3>6, <3>7, <3>8, <2>a DEF IInv
  <2>15. CASE UNCHANGED vars
    BY <2>15 DEF vars, IInv, TypeOK, CallsInv, TripsInv, dirNow, callFor, Top, CopyOf, Copied
  <2>16. TableDone => answer \in {"sending", "getting"}
    BY DEF TableDone
  <2> QED BY <2>3, <2>4, <2>6, <2>7, <2>8, <2>9, <2>10, <2>11, <2>12, <2>13, <2>14, <2>15, <2>16 DEF Next
<1> QED BY <1>1, <1>2, PTL DEF Spec

(* The answers and what they come with; a table is under way in every      *)
(* call.                                                                   *)
THEOREM TypeCorrect == Spec => []TypeOK
<1>1. IInv => TypeOK
  BY DEF IInv
<1> QED BY <1>1, Invariance, PTL

(* What is received is a copy, entry by entry, of what was sent            *)
(* (LuaThread.cpp:316-357, 515-544).                                       *)
THEOREM CopiesArrive == Spec => []Arrives
<1>1. ASSUME IInv
      PROVE  Arrives
  <2>a. ReadInv(read) /\ MadeInv(read, made)
    BY <1>1 DEF IInv
  <2>b. /\ \A p \in read : p[1].type = "table" /\ p[2].type = "table"
        /\ \A p \in made : p[2].type = "table"
    <3>1. \A es : Table(es).type = "table"
      BY DEF Table
    <3> QED BY <3>1, <2>a DEF ReadInv, MadeInv
  <2>1. answer = "none" /\ sent # <<>> => CopyOf(Last(sent), value)
    BY <1>1 DEF IInv, TripsInv
  <2>2. ASSUME NEW c \in Copied
        PROVE  /\ c[2].type = "table"
               /\ \A d \in c[2].entries : \E e \in c[1].entries : Passes(e) /\ KeyOf(e, d[1]) /\ CopyOf(e[2], d[2])
               /\ \A e \in c[1].entries : Passes(e) => \E d \in c[2].entries : KeyOf(e, d[1])
               /\ \A d, e \in c[2].entries : d[1] = e[1] => d = e
    <3>1. PICK m : <<c[1], m>> \in read /\ <<m, c[2]>> \in made
      BY <2>a, Copies
    <3>2. ReadSoFar(read, c[1].entries, m.entries) /\ MadeSoFar(made, m.entries, c[2].entries)
      BY <3>1, <2>a DEF ReadInv, MadeInv
    <3>3. ASSUME NEW e, Passes(e), NEW m1, KeyRead(read, e, m1), NEW w1, Makes(made, m1, w1)
          PROVE  KeyOf(e, w1)
      <4>1. CASE IsTable(e[1])
        <5>1. <<e[2], m1>> \in read /\ <<m1, w1>> \in made
          BY <4>1, <3>3, <2>b DEF KeyRead, Makes
        <5>2. IsTable(e[2])
          BY <5>1, <2>b DEF IsTable
        <5> QED BY <4>1, <5>1, <5>2, <2>a, Copies DEF KeyOf, CopyOf
      <4>2. CASE ~IsTable(e[1])
        BY <4>2, <3>3, Scalars DEF KeyRead, Makes, KeyOf, Passes
      <4> QED BY <4>1, <4>2
    <3>4. ASSUME NEW e, Passes(e), NEW m2, ValRead(read, e, m2), NEW w2, Makes(made, m2, w2)
          PROVE  CopyOf(e[2], w2)
      <4>1. CASE IsTable(e[2])
        <5>1. <<e[2], m2>> \in read /\ <<m2, w2>> \in made
          BY <4>1, <3>4, <2>b DEF ValRead, Makes
        <5> QED BY <4>1, <5>1, <2>a, Copies DEF CopyOf
      <4>2. CASE ~IsTable(e[2])
        BY <4>2, <3>4, Scalars DEF ValRead, Makes, CopyOf, Passes
      <4> QED BY <4>1, <4>2
    <3>5. ASSUME NEW d \in c[2].entries
          PROVE  \E e \in c[1].entries : Passes(e) /\ KeyOf(e, d[1]) /\ CopyOf(e[2], d[2])
      <4>1. PICK p \in m.entries : Makes(made, p[1], d[1]) /\ Makes(made, p[2], d[2])
        BY <3>2 DEF MadeSoFar
      <4>2. PICK e \in c[1].entries : Passes(e) /\ KeyRead(read, e, p[1]) /\ ValRead(read, e, p[2])
        BY <3>2 DEF ReadSoFar
      <4> QED BY <4>1, <4>2, <3>3, <3>4
    <3>6. ASSUME NEW e \in c[1].entries, Passes(e)
          PROVE  \E d \in c[2].entries : KeyOf(e, d[1])
      <4>1. PICK p \in m.entries : KeyRead(read, e, p[1])
        BY <3>2, <3>6 DEF ReadSoFar
      <4>2. PICK d \in c[2].entries : Makes(made, p[1], d[1])
        BY <3>2 DEF MadeSoFar
      <4> QED BY <4>1, <4>2, <3>3, <3>6
    <3> QED BY <3>1, <3>2, <3>5, <3>6, <2>b DEF MadeSoFar
  <2> QED BY <2>1, <2>2 DEF Arrives
<1> QED BY <1>1, Invariance, PTL

(* What was received once can be sent on, and arrives as it is unless a    *)
(* key in it is a table (LuaThread.cpp:316-357, 515-544).                  *)
THEOREM RelaysSame == Spec => []RelayedUnchanged
<1>1. ASSUME IInv, Len(sent) > 1
      PROVE  /\ answer \notin {"false", "undefined", "error"}
             /\ answer = "none" /\ NoTableKey(Last(sent)) => value = Last(sent)
  <2> USE <1>1
  <2>a. /\ ReadInv(read) /\ MadeInv(read, made) /\ Keeps(read) /\ Keeps(made)
        /\ calls \in Seq(ToSet(calls)) /\ Good(made, Last(sent))
        /\ Stack(dirNow, read, made, callFor, calls)
    BY DEF IInv, CallsInv, TripsInv, Stack
  <2>b. \A es : Table(es).type = "table"
    BY DEF Table
  <2>c. calls # <<>> => Len(calls) \in 1..Len(calls) /\ Top = calls[Len(calls)]
    BY <2>a, Stacks DEF Top
  <2>d. calls # <<>> /\ Top.stage # "next" => Top.at \in Top.of.entries
    <3>1. \A i \in 1..Len(calls) : Call(dirNow, read, made, calls[i])
      BY <2>a DEF Stack
    <3>2. calls # <<>> => Call(dirNow, read, made, Top)
      BY <3>1, <2>c
    <3> QED BY <3>2 DEF Call
  <2>1. answer # "false"
    <3>1. Sendable(Last(sent))
      BY <2>a, <2>b, Received, Scalars DEF Good, Sendable, IsTable
    <3> QED BY <3>1 DEF IInv, TripsInv
  <2>2. answer # "undefined"
    <3> SUFFICES ASSUME answer = "undefined"
                 PROVE  FALSE
      OBVIOUS
    <3>1. calls # <<>> /\ Top.stage # "next" /\ Unreadable(Top.at)
      BY DEF IInv, CallsInv
    <3>2. Top.of \in Seconds(made)
      BY <3>1, <2>c DEF IInv, CallsInv, dirNow
    <3>3. /\ Good(made, Top.at[1]) /\ Good(made, Top.at[2])
          /\ Top.at[1].type = "table" => Top.at[2].type = "table"
      BY <3>1, <3>2, <2>a, <2>d, Received
    <3> QED BY <3>1, <3>3 DEF Unreadable, Good, Clean, IsTable
  <2>3. answer # "error"
    <3> SUFFICES ASSUME answer = "error"
                 PROVE  FALSE
      OBVIOUS
    <3>1. calls # <<>> /\ Top.stage = "value" /\ Top.key = NaN /\ dirNow = "get"
      BY DEF IInv, CallsInv, dirNow
    <3>2. Origins(read, made, Last(sent), Len(sent), calls)
      BY DEF IInv, CallsInv
    <3>3. \A i \in 1..Len(calls) : \E x \in Seconds(made) : <<x, calls[i].of>> \in read
      BY <3>2 DEF Origins
    <3>4. PICK x \in Seconds(made) : <<x, Top.of>> \in read
      BY <3>1, <3>3, <2>c
    <3>5. ReadSoFar(read, x.entries, Top.of.entries)
      BY <3>4, <2>a DEF ReadInv
    <3>6. PICK e \in x.entries : KeyRead(read, e, Top.at[1])
      BY <3>1, <3>5, <2>d DEF ReadSoFar
    <3>7. Makes(made, Top.at[1], NaN)
      <4>1. \A i \in 1..Len(calls) : Call("get", read, made, calls[i])
        BY <3>1, <2>a DEF Stack
      <4>2. Call("get", read, made, Top)
        BY <3>1, <4>1, <2>c
      <4> QED BY <4>2, <3>1 DEF Call
    <3>8. NaN.type = "number"
      BY DEF NaN, Num, Value
    <3>9. /\ \A p \in made : p[2].type = "table"
          /\ \A p \in read : p[2].type = "table"
      BY <2>a, <2>b DEF MadeInv, ReadInv
    <3>10. Top.at[1] = NaN
      BY <3>7, <3>8, <3>9 DEF Makes
    <3>11. Message(e[1]) = NaN /\ ~IsTable(e[1])
      BY <3>6, <3>8, <3>9, <3>10 DEF KeyRead
    <3>12. Good(made, e[1]) /\ e[1] # NaN
      BY <2>a, Received
    <3> QED BY <3>11, <3>12 DEF Good, Clean, IsTable
  <2>4. ASSUME answer = "none", NoTableKey(Last(sent))
        PROVE  value = Last(sent)
    <3> DEFINE v == Last(sent)
    <3>1. CopyOf(v, value)
      <4>1. sent # <<>>
        OBVIOUS
      <4> QED BY <4>1, <2>4 DEF IInv, TripsInv
    <3>2. CASE ~IsTable(v)
      BY <3>1, <3>2, <2>a, Scalars DEF CopyOf, Good, Clean, IsTable
    <3>3. CASE IsTable(v)
      <4>1. PICK C \in SUBSET {m[2] : m \in made} :
              /\ v \in C
              /\ \A w \in C : \A d \in w.entries : ~IsTable(d[1]) /\ (IsTable(d[2]) => d[2] \in C)
        BY <3>3, <2>4 DEF NoTableKey
      <4>2. C \subseteq Seconds(made)
        BY DEF Seconds
      <4>3. CleanSet(C)
        <5>1. ASSUME NEW w \in C
              PROVE  /\ w = Table(w.entries)
                     /\ \A e \in w.entries : /\ IsPair(e) /\ Clean(e[1])
                                             /\ IF IsTable(e[2]) THEN e[2] \in C ELSE Clean(e[2])
                     /\ \A d, e \in w.entries : d[1] = e[1] => d = e
          BY <4>1, <4>2, <2>a, Received DEF Good, IsTable
        <5> QED BY <5>1 DEF CleanSet
      <4>4. PICK m : <<v, m>> \in read /\ <<m, value>> \in made
        BY <3>1, <3>3, <2>a, Copies DEF CopyOf
      <4>5. \A u \in C : u.type = "table"
        BY <4>3, <2>b DEF CleanSet
      <4>6. m = v
        <5> DEFINE D == C \cap Firsts(read)
        <5>1. \A u \in D : \A e \in u.entries : IsTable(e[2]) => e[2] \in Firsts(read)
          BY <2>a DEF ReadInv, ReadSoFar, Firsts
        <5>2. CleanSet(D)
          BY <4>3, <5>1 DEF CleanSet
        <5>3. v \in D
          BY <4>1, <4>4 DEF Firsts
        <5> HIDE DEF D
        <5>4. D \in SUBSET Firsts(read)
          BY DEF D
        <5> QED BY <5>2, <5>3, <5>4, <4>4, <2>a DEF Keeps
      <4>7. value = m
        <5> DEFINE D == C \cap Firsts(made)
        <5>1. \A u \in D : \A e \in u.entries : e[2].type = "table" => e[2] \in Firsts(made)
          BY <2>a DEF MadeInv, MadeSoFar, Firsts
        <5>2. CleanSet(D)
          BY <4>3, <4>5, <5>1 DEF CleanSet
        <5>3. m \in D
          BY <4>1, <4>4, <4>6 DEF Firsts
        <5> HIDE DEF D
        <5>4. D \in SUBSET Firsts(made)
          BY DEF D
        <5> QED BY <5>2, <5>3, <5>4, <4>4, <2>a DEF Keeps
      <4> QED BY <4>6, <4>7
    <3> QED BY <3>2, <3>3
  <2> QED BY <2>1, <2>2, <2>3, <2>4
<1>2. IInv => RelayedUnchanged
  BY <1>1 DEF RelayedUnchanged
<1> QED BY <1>2, Invariance, PTL

(* Send_Data and Get_Data answer what they do, and fail on the tables that *)
(* cannot be read or made and on no others (LuaThread.cpp:331-352,         *)
(* 534-541).                                                               *)
THEOREM AnswersTell == Spec => []AnswerTells
<1>1. ASSUME IInv
      PROVE  AnswerTells
  <2> USE <1>1
  <2>a. /\ ReadInv(read) /\ MadeInv(read, made)
        /\ calls \in Seq(ToSet(calls)) /\ Len(calls) \in Nat
        /\ Stack(dirNow, read, made, callFor, calls)
    BY Stacks DEF IInv, CallsInv, Stack
  <2>b. /\ \A p \in read : p[1].type = "table" /\ p[2].type = "table"
        /\ \A p \in made : p[2].type = "table"
    <3>1. \A es : Table(es).type = "table"
      BY DEF Table
    <3> QED BY <3>1, <2>a DEF ReadInv, MadeInv
  <2>c. calls # <<>> => Len(calls) \in 1..Len(calls) /\ Top = calls[Len(calls)]
    BY <2>a, Stacks DEF Top
  <2>d. \A i \in 1..Len(calls) : Call(dirNow, read, made, calls[i])
    BY <2>a DEF Stack
  <2>e. \A i \in 1..Len(calls) : calls[i].stage # "next" => calls[i].at \in calls[i].of.entries
    BY <2>d DEF Call
  <2>f. NaN.type = "number"
    BY DEF NaN, Num, Value
  <2>g. TablesRead = Firsts(read)
    BY DEF TablesRead, Firsts
  <2>1. answer = "false" => ~Sendable(Last(sent))
    BY DEF IInv, TripsInv
  <2>2. answer = "true" => Sendable(Last(sent)) /\ (IsTable(Last(sent)) => Last(sent) \in TablesRead)
    BY <2>b, <2>g, Scalars DEF IInv, TypeOK, TripsInv, Sendable, Firsts
  <2>3. \A t \in TablesRead : \A e \in t.entries : ~Unreadable(e) /\ (IsTable(e[2]) => e[2] \in TablesRead)
    BY <2>a, <2>g DEF ReadInv, ReadSoFar, Firsts
  <2>4. ASSUME answer = "undefined"
        PROVE  LET p == [i \in 1..Len(calls) |-> calls[i].of]
               IN p # <<>> /\ Head(p) = Last(sent) /\ Way(p) /\ \E e \in Last(p).entries : Unreadable(e)
    <3> DEFINE p == [i \in 1..Len(calls) |-> calls[i].of]
    <3>1. calls # <<>> /\ Top.stage # "next" /\ Unreadable(Top.at) /\ dirNow = "send"
      BY <2>4 DEF IInv, CallsInv, dirNow
    <3>2. Len(p) = Len(calls) /\ p # <<>> /\ Head(p) = p[1] /\ Last(p) = p[Len(calls)]
      BY <3>1, <2>a, <2>c DEF Last
    <3>3. \A i \in 1..Len(calls) : p[i] = calls[i].of
      OBVIOUS
    <3> HIDE DEF p
    <3>4. Head(p) = Last(sent)
      BY <3>1, <3>2, <3>3, <2>a, <2>c DEF Stack, callFor
    <3>5. \A i \in 1..(Len(calls) - 1) : i \in 1..Len(calls) /\ i + 1 \in 1..Len(calls)
      BY <2>a
    <3>6. ASSUME NEW i \in 1..(Len(calls) - 1)
          PROVE  \E e \in p[i].entries : p[i + 1] = e[2]
      <4>1. Inside("send", calls[i], calls[i + 1].of)
        BY <3>1, <2>a DEF Stack
      <4> QED BY <4>1, <3>3, <3>5, <2>e DEF Inside
    <3>7. Top.at \in Last(p).entries
      BY <3>1, <3>2, <3>3, <2>c, <2>e
    <3>8. Way(p)
      BY <3>2, <3>6 DEF Way
    <3> QED BY <3>1, <3>2, <3>4, <3>7, <3>8 DEF p
  <2>5. ASSUME answer = "error"
        PROVE  \E p \in [1..Len(calls) -> TablesRead] :
                 /\ p # <<>> /\ Head(p) = Last(sent) /\ WaySent(p)
                 /\ \E e \in Last(p).entries : Unmakeable(e)
    <3>1. calls # <<>> /\ Top.stage = "value" /\ Top.key = NaN /\ dirNow = "get"
      BY <2>5 DEF IInv, CallsInv, dirNow
    <3>2. Origins(read, made, Last(sent), Len(sent), calls)
      BY <2>5 DEF IInv, CallsInv
    <3>3. PICK g \in [1..Len(calls) -> Firsts(read)] :
            /\ calls # <<>> => g[1] = Last(sent)
            /\ \A i \in 1..Len(calls) : <<g[i], calls[i].of>> \in read
            /\ \A i \in 1..(Len(calls) - 1) : \E e \in g[i].entries : Passes(e) /\ g[i + 1] = e[2]
      BY <3>2 DEF Origins
    <3>4. Len(g) = Len(calls) /\ g # <<>> /\ Head(g) = g[1] /\ Last(g) = g[Len(calls)]
      BY <3>1, <3>3, <2>a, <2>c DEF Last
    <3>5. WaySent(g)
      BY <3>3, <3>4 DEF WaySent
    <3>6. <<Last(g), Top.of>> \in read /\ Top.at \in Top.of.entries
      BY <3>1, <3>3, <3>4, <2>c, <2>e
    <3>7. ReadSoFar(read, Last(g).entries, Top.of.entries)
      BY <3>6, <2>a DEF ReadInv
    <3>8. PICK e \in Last(g).entries : Passes(e) /\ KeyRead(read, e, Top.at[1])
      BY <3>6, <3>7 DEF ReadSoFar
    <3>9. Makes(made, Top.at[1], NaN)
      <4>1. Call("get", read, made, Top)
        BY <3>1, <2>c, <2>d
      <4> QED BY <4>1, <3>1 DEF Call
    <3>10. Top.at[1] = NaN
      BY <3>9, <2>b, <2>f DEF Makes
    <3>11. Unmakeable(e)
      BY <3>8, <3>10, <2>b, <2>f, Scalars DEF KeyRead, Passes, Unmakeable
    <3> QED BY <3>1, <3>3, <3>4, <3>5, <3>11, <2>g
  <2>6. ASSUME NEW t \in TablesMade, NEW e \in t.entries
        PROVE  ~Unmakeable(e) /\ (Passes(e) /\ IsTable(e[2]) => e[2] \in TablesMade)
    <3>1. PICK c \in Copied : t = c[1]
      BY DEF TablesMade
    <3>2. PICK m : <<t, m>> \in read /\ <<m, c[2]>> \in made
      BY <3>1, <2>a, Copies
    <3>3. ReadSoFar(read, t.entries, m.entries) /\ MadeSoFar(made, m.entries, c[2].entries)
      BY <3>2, <2>a DEF ReadInv, MadeInv
    <3> SUFFICES ASSUME Passes(e)
                 PROVE  Plain(e[1]) # NaN /\ (IsTable(e[2]) => e[2] \in TablesMade)
      BY DEF Unmakeable
    <3>4. PICK p \in m.entries : KeyRead(read, e, p[1]) /\ ValRead(read, e, p[2])
      BY <3>3 DEF ReadSoFar
    <3>5. p[1] # NaN /\ (p[2].type = "table" => p[2] \in Firsts(made))
      BY <3>3 DEF MadeSoFar
    <3>6. Plain(e[1]) # NaN
      <4>1. CASE IsTable(e[1])
        BY <4>1, <2>f DEF IsTable, Plain, IsNumber
      <4>2. CASE ~IsTable(e[1])
        BY <4>2, <3>4, <3>5, Scalars DEF KeyRead, Passes
      <4> QED BY <4>1, <4>2
    <3>7. ASSUME IsTable(e[2])
          PROVE  e[2] \in TablesMade
      <4>1. <<e[2], p[2]>> \in read /\ p[2] \in Firsts(made)
        BY <3>4, <3>5, <3>7, <2>b DEF ValRead
      <4>2. PICK w : <<p[2], w>> \in made
        <5>1. PICK q \in made : p[2] = q[1]
          BY <4>1 DEF Firsts
        <5>2. q = <<q[1], q[2]>>
          BY <2>a DEF MadeInv, IsPair
        <5> QED BY <5>1, <5>2
      <4>3. <<e[2], w>> \in Copied
        BY <4>1, <4>2, <2>a, Copies
      <4> QED BY <4>3 DEF TablesMade
    <3> QED BY <3>6, <3>7
  <2> QED BY <2>1, <2>2, <2>3, <2>4, <2>5, <2>6 DEF AnswerTells
<1> QED BY <1>1, Invariance, PTL
=============================================================================
