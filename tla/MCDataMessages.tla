--------------------------- MODULE MCDataMessages ---------------------------
(* DataMessages for TLC: tables of up to two entries, with tables in them. *)
EXTENDS DataMessages

Nil      == Value("nil", "nil")
Func     == Value("function", "f")
True     == Value("boolean", "true")
Scalars  == {Num("1"), Str("1"), Str("nan"), Str("a"), Str("a\\0b"), Func, True}
Held     == {Num("1"), Str("1"), Str("a\\0b"), Func}

(* The tables with up to two entries of given keys and values.             *)
Tables(keys, values) ==
  {Table({})} \cup {Table({<<k, v>>}) : k \in keys, v \in values}
  \cup UNION {{Table({<<k, v>>, <<j, w>>}) : v, w \in values} : k, j \in keys}

OneKey(t)  == \A d, e \in t.entries : d[1] = e[1] \/ (IsTable(d[1]) /\ IsTable(e[1])) => d = e
Inner      == {Table({}), Table({<<Str("1"), Num("1")>>}), Table({<<Num("1"), Func>>}),
               Table({<<Num("1"), Str("a")>>, <<Str("1"), True>>}), Table({<<Str("nan"), True>>}), Table({<<True, Self>>})}
SomeValues ==
  {Nil} \cup Scalars \cup {t \in Tables(Scalars, Scalars) : OneKey(t)}
  \cup {t \in Tables(Held \cup Inner \cup {Self}, Held \cup Inner \cup {Self}) : OneKey(t)}
=============================================================================
