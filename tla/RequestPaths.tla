----------------------------- MODULE RequestPaths -----------------------------
(***************************************************************************)
(* The paths of requests and of links in a page: utils/file_utils.cpp, and *)
(* what server/ adds to it.  The text of a target or of a URL is a         *)
(* sequence of tokens: "/", "\", "?", "#", ".", "..", the names between    *)
(* them, and an escape such as "%2F" where it stands for one of the others.*)
(* A normal path is the sequence of its names and whether it ends in a     *)
(* slash.                                                                  *)
(***************************************************************************)
EXTENDS Naturals, Sequences, SequencesExt

CONSTANT NoPath  \* the empty string, which is what the code returns for no path

Paths == [names : Seq(STRING), dir : BOOLEAN]

\* What the code names itself is text, too: TLC knows it, the provers have to be told.
ASSUME TokensAssumption ==
  {"/", "\\", "?", "#", ".", "..", "data:", "http:", "https:", "index.html"} \subseteq STRING

Before(text, marks) == LET at == SelectInSeq(text, LAMBDA t : t \in marks)
                       IN IF at = 0 THEN text ELSE SubSeq(text, 1, at - 1)

StripQueryAndFragment(text) == Before(text, {"?", "#"})

Slashed(text) == [i \in DOMAIN text |-> IF text[i] = "\\" THEN "/" ELSE text[i]]

\* One pass: what an escape stands for is not looked at again.  A token is each of the
\* spellings of its escape: "%2F" is also %2f, and "%2E%2E" also .%2E and %2e.; an escape
\* of an ordinary character belongs to a name.
UrlDecode(text) == [i \in DOMAIN text |-> CASE text[i] = "%2F" -> "/"
                                            [] text[i] = "%5C" -> "\\"
                                            [] text[i] = "%3F" -> "?"
                                            [] text[i] = "%23" -> "#"
                                            [] text[i] = "%2E" -> "."
                                            [] text[i] = "%2E%2E" -> ".."
                                            [] OTHER -> text[i]]

\* lexically_normal of text below the directory base: nothing is above the root, and
\* what ends in a dot or two is a directory.
Down(names, t) == IF t \in {"/", "."} THEN names
                  ELSE IF t # ".." THEN Append(names, t)
                  ELSE IF names = <<>> THEN names ELSE Front(names)
Normal(base, text) == LET names == FoldLeft(Down, base, text)
                      IN [names |-> names,
                          dir |-> names = <<>> \/ Last(text) \in {"/", ".", ".."}]

NormalizeUrlPath(text) == Normal(<<>>, Slashed(StripQueryAndFragment(text)))

\* The path of a request, decoded after the query has gone.
RequestPath(target) == NormalizeUrlPath(UrlDecode(Before(target, {"?"})))

\* Case counts: HTTP: is a name like any other.
Elsewhere(text) == \/ Head(text) = "data:"
                   \/ IsPrefix(<<"/", "/">>, text)
                   \/ Head(text) \in {"http:", "https:"} /\ IsPrefix(<<"/", "/">>, Tail(text))

ParentPath(path) == IF path.dir THEN path.names ELSE Front(path.names)

\* The path of a link in the page at path base; links are not decoded.
NormalizeDependentPath(base, url) ==
  LET text == Slashed(StripQueryAndFragment(url))
  IN IF text = <<>> \/ Elsewhere(text) THEN NoPath
     ELSE Normal(IF Head(text) = "/" THEN <<>> ELSE ParentPath(base), text)

CacheKeyForPath(path) ==
  IF path.dir THEN [names |-> Append(path.names, "index.html"), dir |-> FALSE] ELSE path

IsInternalMonitoringPath(path) ==
  /\ path.names # <<>>
  /\ \/ Head(path.names) = "monitor"
     \/ path.names \in {<<"metrics">>, <<"metrics-view">>} /\ ~path.dir

\* Variant: a directory stands for itself.
ResolveAsIs(path) == path.names

\* The file below the document root, before symbolic links are followed.
ResolveRequestPath(path) ==
  IF path.dir THEN Append(path.names, "index.html") ELSE path.names
==============================================================================
