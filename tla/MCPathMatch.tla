---------------------------- MODULE MCPathMatch ----------------------------
(***************************************************************************)
(* Checks the segment-level matcher of PathMatch against the reference    *)
(* definition by cuts, for every pattern of up to MaxElems elements and   *)
(* every location of up to MaxSegs segments over Segments; and generate   *)
(* against placeholder filling for every pattern text of up to MaxChars   *)
(* characters over Chars and every data object over GenKeys and Values.   *)
(***************************************************************************)
EXTENDS PathMatch, SequencesExt

CONSTANTS Segments, Names, MaxElems, MaxSegs, Chars, MaxChars

Elements == {Lit(s) : s \in Segments} \cup {Param(n) : n \in Names} \cup {Wild}

AllPatterns ==
  {Pattern(TRUE, es) : es \in BoundedSeq(Elements, MaxElems)}
    \cup {Pattern(FALSE, << >>), Pattern(FALSE, << Wild >>)}

\* Keys and values of generate's data object, as character sequences:
\* "a" is a proper prefix of "ab"; ":b" holds a placeholder and "$&" a
\* replacement pattern of String.prototype.replace.
GenKeys == {<<"a">>, <<"b">>, <<"a", "b">>}
Values  == {<<"v">>, <<":", "b">>, <<"$", "&">>}

\* Data objects: sequences of <<key, value>> pairs with distinct keys.
Datas ==
  {d \in UNION {[1..n -> GenKeys \X Values] : n \in 0..Cardinality(GenKeys)} :
     \A i, j \in DOMAIN d : d[i][1] = d[j][1] => i = j}

\* The routes generate reduces over: the pattern under test named "edit",
\* after a route of another name.
Routes(t) == << [route |-> <<"/">>, name |-> "other"], [route |-> t, name |-> "edit"] >>

VARIABLES pat, loc, text, data

\* A state is a matcher input (pattern, location) or a generate input
\* (pattern text, data).
Init ==
  \/ /\ pat \in AllPatterns /\ loc \in BoundedSeq(Segments, MaxSegs)
     /\ text = << >> /\ data = << >>
  \/ /\ pat = Pattern(FALSE, << >>) /\ loc = << >>
     /\ text \in BoundedSeq(Chars, MaxChars) /\ data \in Datas
Next == UNCHANGED <<pat, loc, text, data>>
Spec == Init /\ [][Next]_<<pat, loc, text, data>>

\* The recursive matcher used by the router (findMatchedRoutes over the
\* RegExp compiled by replaceDynamicURLParts) accepts exactly the locations
\* the reference definition accepts.
MatchAgrees == Matches(pat, loc) <=> MatchesByCuts(pat, loc)

\* For a location a pattern matches, the parameter object resolve passes
\* to the handler (regExpResultToParams over the captures of the compiled
\* RegExp) has exactly the pattern's parameter names as keys, each bound to
\* the segment the RegExp engine assigns it (spec 4.1, spec 8); null when
\* the pattern has none.
ParamsAgree ==
  pat.anchored /\ Matches(pat, loc) => Params(pat, loc) = ParamsByCuts(pat, loc)

\* A pattern text whose ':' placeholders have pairwise distinct names, none
\* of which has a key of data as a proper prefix, and values free of ':'
\* (a value holding a placeholder is filled by a later key) and of '$'
\* (String.prototype.replace rewrites '$&', '$$', '$`' and "$'").
GenerateWellPosed(t, d) ==
  LET ps == PlaceholderSeq(t)
  IN /\ IsInjective(ps)
     /\ \A k \in DataKeys(d), i \in DOMAIN ps : ~IsStrictPrefix(k, ps[i])
     /\ \A i \in DOMAIN d : ":" \notin ToSet(d[i][2]) /\ "$" \notin ToSet(d[i][2])

=============================================================================
