----------------------------- MODULE PathMatch -----------------------------
(***************************************************************************)
(* The route-pattern compiler and matcher of src/public/app_router.js     *)
(* (replaceDynamicURLParts, clean, findMatchedRoutes, match).             *)
(*                                                                         *)
(* A location, once the router has stripped the root, collapsed repeated  *)
(* slashes (navigate) and dropped trailing slashes (clean of the href),    *)
(* is a sequence of non-empty path segments; the root is << >>.           *)
(*                                                                         *)
(* A pattern string is split at '/' into elements:                        *)
(*   "queue" -> Lit("queue")  stays a literal of the compiled RegExp;     *)
(*   ":id"   -> Param("id")   PARAMETER_REGEXP turns it into ([^\/]+)     *)
(*                            and records the name "id" (so does "*id");  *)
(*   "*"     -> Wild          WILDCARD_REGEXP turns it into a group that  *)
(*                            matches any run of characters.               *)
(* A pattern that starts with '/' is anchored: clean() rewrites the       *)
(* leading slash to '^/'.  The two patterns without a leading slash that  *)
(* routes use, '' and '*', compile to the bare end anchor and to         *)
(* any-characters-then-end, which match every location.                  *)
(***************************************************************************)
EXTENDS Naturals, Sequences, SequencesExt

Lit(s)   == [k |-> "lit", v |-> s]
Param(n) == [k |-> "param", v |-> n]
Wild     == [k |-> "wild", v |-> ""]

\* A compiled route pattern: anchored (leading '/') or one of '' and '*'.
Pattern(anchored, elems) == [anchored |-> anchored, elems |-> elems]

(***************************************************************************)
(* The RegExp built by replaceDynamicURLParts from an anchored pattern,   *)
(* applied to a location: each literal matches its own segment, ([^\/]+)  *)
(* exactly one segment, a wildcard one or more whole segments (the       *)
(* location carries no empty segment), and (?:\/$|$) requires the         *)
(* location to end there.                                                  *)
(***************************************************************************)
\* The matcher with a slip: a wildcard may also match no segment at all.
RECURSIVE MatchElemsEmptyWild(_, _)
MatchElemsEmptyWild(elems, path) ==
  IF elems = << >> THEN path = << >>
  ELSE LET e == Head(elems) IN
    CASE e.k = "lit"   -> /\ path # << >>
                          /\ Head(path) = e.v
                          /\ MatchElemsEmptyWild(Tail(elems), Tail(path))
      [] e.k = "param" -> /\ path # << >>
                          /\ MatchElemsEmptyWild(Tail(elems), Tail(path))
      [] e.k = "wild"  -> \E n \in 0..Len(path) :
                            MatchElemsEmptyWild(Tail(elems), SubSeq(path, n + 1, Len(path)))

RECURSIVE MatchElems(_, _)
MatchElems(elems, path) ==
  IF elems = << >> THEN path = << >>
  ELSE LET e == Head(elems) IN
    CASE e.k = "lit"   -> /\ path # << >>
                          /\ Head(path) = e.v
                          /\ MatchElems(Tail(elems), Tail(path))
      [] e.k = "param" -> /\ path # << >>
                          /\ MatchElems(Tail(elems), Tail(path))
      [] e.k = "wild"  -> \E n \in 1..Len(path) :
                            MatchElems(Tail(elems), SubSeq(path, n + 1, Len(path)))

\* findMatchedRoutes: the compiled pattern of route matches the location.
Matches(pattern, path) ==
  IF pattern.anchored THEN MatchElems(pattern.elems, path) ELSE TRUE

(***************************************************************************)
(* The capturing groups of a successful match, in order.  The RegExp      *)
(* engine tries the greedy group of a wildcard on as much of the input    *)
(* as it can and gives back segments until the rest matches.              *)
(***************************************************************************)
\* The same with a slip: a lazy wildcard, as if it were (?:.*?).
RECURSIVE CapturesLazy(_, _)
CapturesLazy(elems, path) ==
  IF elems = << >> THEN << >>
  ELSE LET e == Head(elems) IN
    CASE e.k = "lit"   -> CapturesLazy(Tail(elems), Tail(path))
      [] e.k = "param" -> << Head(path) >> \o CapturesLazy(Tail(elems), Tail(path))
      [] e.k = "wild"  ->
           LET fits == {n \in 1..Len(path) :
                          MatchElems(Tail(elems), SubSeq(path, n + 1, Len(path)))}
               n == CHOOSE m \in fits : \A j \in fits : m <= j
           IN CapturesLazy(Tail(elems), SubSeq(path, n + 1, Len(path)))

RECURSIVE Captures(_, _)
Captures(elems, path) ==
  IF elems = << >> THEN << >>
  ELSE LET e == Head(elems) IN
    CASE e.k = "lit"   -> Captures(Tail(elems), Tail(path))
      [] e.k = "param" -> << Head(path) >> \o Captures(Tail(elems), Tail(path))
      [] e.k = "wild"  ->
           LET fits == {n \in 1..Len(path) :
                          MatchElems(Tail(elems), SubSeq(path, n + 1, Len(path)))}
               n == CHOOSE m \in fits : \A j \in fits : m >= j
           IN Captures(Tail(elems), SubSeq(path, n + 1, Len(path)))

\* paramNames of replaceDynamicURLParts: the parameter names in order.
ParamNames(pattern) ==
  LET ps == SelectSeq(pattern.elems, LAMBDA e : e.k = "param")
  IN [i \in 1..Len(ps) |-> ps[i].v]

NoParams == [n \in {} |-> ""]   \* stands for null

(***************************************************************************)
(* regExpResultToParams: null when the pattern names no parameter;        *)
(* otherwise the object built by assigning each capture to its name in    *)
(* order, so a name used twice keeps its last capture.  Values are        *)
(* segments and decodeURIComponent is the identity on them.               *)
(***************************************************************************)
Params(pattern, path) ==
  LET names == ParamNames(pattern)
      caps  == Captures(pattern.elems, path)
  IN IF names = << >> THEN NoParams
     ELSE [n \in ToSet(names) |->
             caps[CHOOSE i \in DOMAIN names :
                    names[i] = n /\ \A j \in DOMAIN names : names[j] = n => j <= i]]

(***************************************************************************)
(* Reference definition: the location is cut into consecutive pieces, one *)
(* per element; a literal's piece is its own segment, a parameter's piece *)
(* is one segment, a wildcard's piece is one or more segments.            *)
(***************************************************************************)
PieceFits(e, piece) ==
  CASE e.k = "lit"   -> piece = << e.v >>
    [] e.k = "param" -> Len(piece) = 1
    [] e.k = "wild"  -> Len(piece) >= 1

MatchesByCuts(pattern, path) ==
  \/ ~pattern.anchored
  \/ LET n == Len(pattern.elems) IN
     \E cut \in [0..n -> 0..Len(path)] :
        /\ cut[0] = 0
        /\ cut[n] = Len(path)
        /\ \A i \in 1..n :
             /\ cut[i - 1] <= cut[i]
             /\ PieceFits(pattern.elems[i], SubSeq(path, cut[i - 1] + 1, cut[i]))

(***************************************************************************)
(* Reference for the captures: of all the cuts that fit, the one that     *)
(* gives the earliest elements the longest pieces (the cut vector largest *)
(* in lexicographic order); a name maps to the piece of the last element  *)
(* that carries it.                                                        *)
(***************************************************************************)
Cuts(pattern, path) ==
  LET n == Len(pattern.elems) IN
  {cut \in [0..n -> 0..Len(path)] :
     /\ cut[0] = 0 /\ cut[n] = Len(path)
     /\ \A i \in 1..n :
          /\ cut[i - 1] <= cut[i]
          /\ PieceFits(pattern.elems[i], SubSeq(path, cut[i - 1] + 1, cut[i]))}

LexGeq(c, d) ==
  \/ c = d
  \/ \E i \in DOMAIN c : c[i] > d[i] /\ \A j \in 0..(i - 1) : c[j] = d[j]

ParamsByCuts(pattern, path) ==
  LET es   == pattern.elems
      best == CHOOSE c \in Cuts(pattern, path) : \A d \in Cuts(pattern, path) : LexGeq(c, d)
      at   == {i \in DOMAIN es : es[i].k = "param"}
  IN IF at = {} THEN NoParams
     ELSE [n \in {es[i].v : i \in at} |->
             LET i == CHOOSE i \in at : es[i].v = n /\ \A j \in at : es[j].v = n => j <= i
             IN path[best[i]]]

-----------------------------------------------------------------------------
(***************************************************************************)
(* generate(name, data), at the level of the pattern's characters: a       *)
(* pattern text or a value is a sequence of one-character strings, data   *)
(* is the sequence of its <<key, value>> pairs in for-in order.            *)
(***************************************************************************)
Colon == <<":">>

(***************************************************************************)
(* GetSubstitution of String.prototype.replace: in the replacement r, '$$' *)
(* stands for '$', '$&' for the matched text m, '$`' for the text pre      *)
(* before it and "$'" for the text post after it; a string pattern has no  *)
(* groups, so any other '$' is kept as it is.                              *)
(***************************************************************************)
RECURSIVE Expand(_, _, _, _)
Expand(r, pre, m, post) ==
  IF r = << >> THEN << >>
  ELSE IF Head(r) = "$" /\ Len(r) >= 2 /\ r[2] \in {"$", "&", "`", "'"}
  THEN (CASE r[2] = "$" -> <<"$">>
          [] r[2] = "&" -> m
          [] r[2] = "`" -> pre
          [] r[2] = "'" -> post)
       \o Expand(Tail(Tail(r)), pre, m, post)
  ELSE <<Head(r)>> \o Expand(Tail(r), pre, m, post)

\* String.prototype.replace with a string pattern t: the first occurrence
\* of t in s is replaced by the expansion of r; s is unchanged when t does
\* not occur.
ReplaceFirst(s, t, r) ==
  LET at == {i \in 1..(Len(s) - Len(t) + 1) : SubSeq(s, i, i + Len(t) - 1) = t}
  IN IF at = {} THEN s
     ELSE LET i    == Min(at)
              pre  == SubSeq(s, 1, i - 1)
              post == SubSeq(s, i + Len(t), Len(s))
          IN pre \o Expand(r, pre, t, post) \o post

Substitute(text, data) ==
  FoldLeft(LAMBDA acc, kv : ReplaceFirst(acc, Colon \o kv[1], kv[2]), text, data)

\* The reduce over the routes: the text of the last route registered under
\* name, substituted; the empty string when no route has that name.
Generate(routes, name, data) ==
  LET named == SelectSeq(routes, LAMBDA r : r.name = name)
  IN IF named = << >> THEN << >> ELSE Substitute(Last(named).route, data)

(***************************************************************************)
(* Placeholders as PARAMETER_REGEXP /([:*])(\w+)/g finds them when          *)
(* replaceDynamicURLParts compiles the text: ':' (or '*') followed by the   *)
(* longest run of word characters; every character of the model's         *)
(* alphabet other than ':' and '/' is a word character.                    *)
(***************************************************************************)
WordChar(c) == c \notin {":", "/", "*"}

RECURSIVE WordRun(_)
WordRun(s) ==
  IF s # << >> /\ WordChar(Head(s)) THEN <<Head(s)>> \o WordRun(Tail(s)) ELSE << >>

\* The names of the ':' placeholders of a text, in order.
RECURSIVE PlaceholderSeq(_)
PlaceholderSeq(text) ==
  IF text = << >> THEN << >>
  ELSE LET n == WordRun(Tail(text))
       IN IF Head(text) = ":" /\ n # << >>
          THEN <<n>> \o PlaceholderSeq(SubSeq(text, Len(n) + 2, Len(text)))
          ELSE PlaceholderSeq(Tail(text))

DataKeys(data) == {data[i][1] : i \in DOMAIN data}

\* Reference for generate (spec 4.6): every ':key' placeholder whose key is
\* in data is replaced by its value, the rest of the text is kept.
RECURSIVE FillPlaceholders(_, _)
FillPlaceholders(text, data) ==
  IF text = << >> THEN << >>
  ELSE LET n == WordRun(Tail(text))
       IN IF Head(text) = ":" /\ n # << >>
          THEN (IF n \in DataKeys(data)
                THEN data[CHOOSE i \in DOMAIN data : data[i][1] = n][2]
                ELSE Colon \o n)
               \o FillPlaceholders(SubSeq(text, Len(n) + 2, Len(text)), data)
          ELSE <<Head(text)>> \o FillPlaceholders(Tail(text), data)
=============================================================================
