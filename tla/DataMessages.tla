---------------------------- MODULE DataMessages ----------------------------
(***************************************************************************)
(* The copy of a Lua value that crosses from one state to another:         *)
(* Send_Data turns it into a LuaDataMessage (convertData) and Get_Data or  *)
(* Demand_Data turn that into a value of the receiver (ReturnDataLua),     *)
(* which may send it on.                                                   *)
(*                                                                         *)
(* A value is a record: its type, what it is and, for a table, its         *)
(* entries, pairs of a key and a value; a message holds a table in the     *)
(* same way.  Self is a reference from inside a table to the table.  Both  *)
(* functions call themselves for the key and for the value of each entry   *)
(* of a table; calls are the calls under way, each with its table.         *)
(*                                                                         *)
(* Tables are compared by their entries: of the keys of one table at most  *)
(* one is a table.                                                         *)
(***************************************************************************)
EXTENDS Naturals, SequencesExt

CONSTANTS
  Values,        (* the values that are sent                                *)
  MaxTrips       (* bound of the model: how often a value is sent on        *)

Value(type, is) == [type |-> type, is |-> is, entries |-> {}]
Num(n)  == Value("number", n)
Str(s)  == Value("string", s)
Table(entries) == [type |-> "table", is |-> "table", entries |-> entries]
Self    == Value("self", "self")
None    == Value("none", "nullptr")
Pending == Value("none", "pending")
NaN     == Num("NaN")

ASSUME DataMessagesAssumption ==
  /\ MaxTrips \in Nat
  /\ \A v \in Values : v.type \in {"nil", "boolean", "number", "string", "function", "table"}

VARIABLES
  value,         (* the value to be sent, in the state that has it          *)
  message,       (* the message in the channel, or None                     *)
  calls,         (* the calls for tables under way, the innermost last      *)
  returned,      (* what the call that ended last returned, or Pending      *)
  answer,        (* what Send_Data and Get_Data do or answered last         *)
  sent,          (* history: the values sent, one for each trip             *)
  read,          (* history: each table read, with the message of it        *)
  made           (* history: each message of a table, with the table made   *)

vars == <<value, message, calls, returned, answer, sent, read, made>>

(* The texts that lua_isnumber takes for numbers, and what strdup keeps of *)
(* a text, which ends at its first zero byte.                              *)
NumberOf == [s \in {"1", "nan"} |-> IF s = "1" THEN "1" ELSE "NaN"]
Kept(s)  == IF s = "a\\0b" THEN "a" ELSE s

IsNumber(v) == v.type = "number" \/ (v.type = "string" /\ v.is \in DOMAIN NumberOf)
ToNumber(v) == IF v.type = "number" THEN v ELSE Num(NumberOf[v.is])
IsTable(v)  == v.type \in {"table", "self"}

-----------------------------------------------------------------------------
(* Slip: a text is tried before a number.                                  *)
MessageTexts(v) ==
  CASE v.type \in {"string", "number"} -> Str(Kept(v.is))
    [] v.type = "boolean" -> v
    [] OTHER              -> None

(* convertData of what is no table.                                        *)
Message(v) ==
  CASE IsNumber(v)        -> ToNumber(v)
    [] v.type = "string" /\ ~IsNumber(v) -> Str(Kept(v.is))
    [] v.type = "boolean" -> v
    [] OTHER              -> None

(* Slip: inside a table the index is kept, although lua_pushnil has moved  *)
(* the top to the nil.                                                     *)
TableKept(x, top) == IF calls = <<>> THEN x ELSE None

(* The table that convertData reads for x: inside a table, whatever is at  *)
(* the top of the stack.                                                   *)
TableRead(x, top) == IF calls = <<>> THEN x ELSE top

(* The call for a table t: the entries it has still to visit, the one it   *)
(* is at, the copy of its key, and the entries it has copied.              *)
CallFor(t) ==
  [of |-> t, todo |-> t.entries, stage |-> "next", at |-> <<>>, key |-> Pending, done |-> {}]

Top          == Last(calls)
Above(f)     == Append(Front(calls), f)
Returns(m)   == returned' = m
Waits        == returned' = Pending

(* convertData(L, n, insideTable) begins, with x at n, top at the top and  *)
(* rest the calls under way.  To read what is no table, or a table in      *)
(* itself, which is followed without end, is undefined.                    *)
convertData(x, top, rest) ==
  LET t == TableRead(x, top)
  IN \/ ~IsTable(x) /\ Returns(Message(x)) /\ calls' = rest /\ answer' = "sending"
     \/ IsTable(x) /\ t.type = "table" /\ Waits /\ calls' = Append(rest, CallFor(t)) /\ answer' = "sending"
     \/ IsTable(x) /\ t.type # "table" /\ Waits /\ calls' = rest /\ answer' = "undefined"

(* ReturnDataLua(L, m) begins.                                             *)
ReturnDataLua(m, rest) ==
  /\ answer' = "getting"
  /\ \/ m.type # "table" /\ Returns(m) /\ calls' = rest
     \/ m.type = "table" /\ Waits /\ calls' = Append(rest, CallFor(m))

Calls(x, top, rest) ==
  \/ answer = "sending" /\ convertData(x, top, rest)
  \/ answer = "getting" /\ ReturnDataLua(x, rest)

(* The loop of both: lua_next, or the next of the map, whose order is that *)
(* of pointers, and a call for the key, ...                                *)
NextEntry ==
  /\ calls # <<>> /\ Top.stage = "next"
  /\ \E e \in Top.todo : Calls(e[1], e[2], Above([Top EXCEPT !.stage = "key", !.at = e]))
  /\ UNCHANGED <<value, message, sent, read, made>>

(* ... then one for the value, ...                                         *)
KeyDone ==
  /\ calls # <<>> /\ Top.stage = "key" /\ returned # Pending
  /\ Calls(Top.at[2], Top.at[2], Above([Top EXCEPT !.stage = "value", !.key = returned]))
  /\ UNCHANGED <<value, message, sent, read, made>>

EntryDone(done) ==
  /\ calls # <<>> /\ Top.stage = "value" /\ returned # Pending
  /\ calls' = Above([Top EXCEPT !.stage = "next", !.todo = @ \ {Top.at}, !.done = done])
  /\ Waits
  /\ UNCHANGED <<value, message, answer, sent, read, made>>

(* ... and the entry goes into the map, if both have a message.            *)
MapEntry ==
  /\ answer = "sending"
  /\ EntryDone(IF None \in {Top.key, returned} THEN Top.done ELSE Top.done \cup {<<Top.key, returned>>})

(* Slip: key and value change places.                                      *)
EntrySwapped(key, val) == <<val, key>>
Entry(key, val) == <<key, val>>

(* lua_settable replaces an entry with the same key, ...                   *)
SetEntry ==
  /\ answer = "getting" /\ calls # <<>> /\ Top.key # NaN
  /\ EntryDone({d \in Top.done : d[1] # Top.key} \cup {Entry(Top.key, returned)})

(* ... and a key that is not a number is an error.  It is thrown past the  *)
(* lock of m_locker, with the message still in the channel.                *)
SetFails ==
  /\ answer = "getting" /\ calls # <<>> /\ Top.stage = "value" /\ returned # Pending
  /\ Top.key = NaN
  /\ answer' = "error"
  /\ UNCHANGED <<value, message, calls, returned, sent, read, made>>

(* A call for a table returns.                                             *)
TableDone ==
  /\ calls # <<>> /\ Top.stage = "next" /\ Top.todo = {}
  /\ Returns(Table(Top.done)) /\ calls' = Front(calls)
  /\ \/ answer = "sending" /\ read' = read \cup {<<Top.of, Table(Top.done)>>} /\ UNCHANGED made
     \/ answer = "getting" /\ made' = made \cup {<<Top.of, Table(Top.done)>>} /\ UNCHANGED read
  /\ UNCHANGED <<value, message, answer, sent>>

Init ==
  /\ value \in Values
  /\ message = None /\ calls = <<>> /\ returned = Pending
  /\ answer = "none" /\ sent = <<>> /\ read = {} /\ made = {}

Lua_Send_Data ==
  /\ answer = "none" /\ Len(sent) < MaxTrips
  /\ convertData(value, value, <<>>)
  /\ sent' = Append(sent, value)
  /\ UNCHANGED <<value, message, read, made>>

(* Send_Data answers false for a value that has no message.                *)
SendDone ==
  /\ answer = "sending" /\ calls = <<>> /\ returned # Pending
  /\ message' = returned /\ Waits
  /\ answer' = IF returned = None THEN "false" ELSE "true"
  /\ UNCHANGED <<value, calls, sent, read, made>>

Lua_Get_Data ==
  /\ answer = "true"
  /\ ReturnDataLua(message, <<>>)
  /\ UNCHANGED <<value, message, sent, read, made>>

(* Slip: the message is not popped.                                        *)
GetKeeps ==
  /\ answer = "getting" /\ calls = <<>> /\ returned # Pending
  /\ value' = returned /\ answer' = "none" /\ Waits
  /\ UNCHANGED <<message, calls, sent, read, made>>

(* Get_Data gives the message to the receiver and pops it.                 *)
GetDone ==
  /\ answer = "getting" /\ calls = <<>> /\ returned # Pending
  /\ value' = returned /\ message' = None /\ answer' = "none" /\ Waits
  /\ UNCHANGED <<calls, sent, read, made>>

Next ==
  \/ Lua_Send_Data \/ SendDone \/ Lua_Get_Data \/ GetDone
  \/ NextEntry \/ KeyDone \/ MapEntry \/ SetEntry \/ SetFails \/ TableDone

Spec == Init /\ [][Next]_vars

-----------------------------------------------------------------------------
TypeOK ==
  /\ answer \in {"none", "sending", "true", "false", "undefined", "getting", "error"}
  /\ Len(sent) \in 0..MaxTrips
  /\ message # None <=> answer \in {"true", "getting", "error"}
  /\ message.type \in {"none", "boolean", "number", "string", "table"}
  /\ \A i \in 1..Len(calls) : calls[i].stage \in {"next", "key", "value"} /\ calls[i].of.type = "table"

(* What can be sent at all, and what becomes of a value that is no table.  *)
Sendable(v) == v.type \in {"boolean", "number", "string"} \/ IsTable(v)
Plain(v)    == IF IsNumber(v) THEN ToNumber(v) ELSE IF v.type = "string" THEN Str(Kept(v.is)) ELSE v
Passes(e)   == Sendable(e[1]) /\ Sendable(e[2])

(* The tables sent, with the tables that were received for them.           *)
Copied == {<<p[1][1], p[2][2]>> : p \in {q \in read \X made : q[1][2] = q[2][1]}}

(* The reference: w is a copy of v, where Copied has the copies of tables, *)
(* and d is a copy of the entry e, where a key that is a table is lost and *)
(* a copy of the value stands for it.                                      *)
CopyOf(v, w)  == IF IsTable(v) THEN <<v, w>> \in Copied ELSE w = Plain(v)
KeyOf(e, w)   == IF IsTable(e[1]) THEN CopyOf(e[2], w) ELSE w = Plain(e[1])

(* What is received is a copy of what was sent (LuaThread.cpp:316-357,     *)
(* 515-544): numbers for texts that read as numbers, nothing for functions *)
(* and for entries with one, texts up to their first zero byte.  A copy of *)
(* a table has a copy of an entry for each of its entries, and no key      *)
(* whose entry can be sent is missing or there twice.                      *)
Arrives ==
  /\ answer = "none" /\ sent # <<>> => CopyOf(Last(sent), value)
  /\ \A c \in Copied :
       /\ c[2].type = "table"
       /\ \A d \in c[2].entries : \E e \in c[1].entries : Passes(e) /\ KeyOf(e, d[1]) /\ CopyOf(e[2], d[2])
       /\ \A e \in c[1].entries : Passes(e) => \E d \in c[2].entries : KeyOf(e, d[1])
       /\ \A d, e \in c[2].entries : d[1] = e[1] => d = e

(* No table in v, which has been received, has a table for a key.          *)
NoTableKey(v) ==
  IsTable(v) => \E C \in SUBSET {m[2] : m \in made} :
    /\ v \in C
    /\ \A w \in C : \A d \in w.entries : ~IsTable(d[1]) /\ (IsTable(d[2]) => d[2] \in C)

(* What has been received once is passed on as it is, unless a key in it   *)
(* is a table, for which its value stands once more.                       *)
RelayedUnchanged ==
  Len(sent) > 1 =>
    /\ answer \notin {"false", "undefined", "error"}
    /\ answer = "none" /\ NoTableKey(Last(sent)) => value = Last(sent)

(* A table in itself, and one with a key that is a table and a value that  *)
(* is not, cannot be read; one with a text for a key that reads as NaN is  *)
(* read but cannot be made again.                                          *)
Unreadable(e) == e[2].type = "self" \/ (IsTable(e[1]) /\ ~IsTable(e[2]))
Unmakeable(e) == Passes(e) /\ Plain(e[1]) = NaN

TablesRead == {r[1] : r \in read}
TablesMade == {c[1] : c \in Copied}

(* The tables on a way into a table, each the value of an entry of the one *)
(* before it.                                                              *)
Way(p)     == \A i \in 1..(Len(p) - 1) : \E e \in p[i].entries : p[i + 1] = e[2]
WaySent(p) == \A i \in 1..(Len(p) - 1) : \E e \in p[i].entries : Passes(e) /\ p[i + 1] = e[2]

(* Send_Data refuses what has no message and nothing else, and it and      *)
(* Get_Data fail on a table that has somewhere in it an entry as described *)
(* above, and on no other.                                                 *)
AnswerTells ==
  /\ answer = "false" => ~Sendable(Last(sent))
  /\ answer = "true" => Sendable(Last(sent)) /\ (IsTable(Last(sent)) => Last(sent) \in TablesRead)
  /\ \A t \in TablesRead : \A e \in t.entries :
       ~Unreadable(e) /\ (IsTable(e[2]) => e[2] \in TablesRead)
  /\ answer = "undefined" =>
       LET p == [i \in 1..Len(calls) |-> calls[i].of]
       IN p # <<>> /\ Head(p) = Last(sent) /\ Way(p) /\ \E e \in Last(p).entries : Unreadable(e)
  /\ answer = "error" =>
       \E p \in [1..Len(calls) -> TablesRead] :
         /\ p # <<>> /\ Head(p) = Last(sent) /\ WaySent(p)
         /\ \E e \in Last(p).entries : Unmakeable(e)
  /\ \A t \in TablesMade : \A e \in t.entries :
       ~Unmakeable(e) /\ (Passes(e) /\ IsTable(e[2]) => e[2] \in TablesMade)
=============================================================================
