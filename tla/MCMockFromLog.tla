--------------------------- MODULE MCMockFromLog ---------------------------
(* Instances of MockFromLog for TLC. *)
EXTENDS MockFromLog, TLC

a == <<"a">>
b == <<"b">>
ab == <<"a", "b">>

tags == <<"t[]">>
none == <<"">>

None == [leaf |-> << >>, arrays |-> << >>]
Doc(leaf) == [leaf |-> leaf, arrays |-> << >>]

Json(status) ==
    [status |-> status, type |-> "json", body |-> "object",
     headers |-> {"content-type", "content-length", "etag"}]
Html == [Json(200) EXCEPT !.type = "html", !.body = "text"]

Get_ == [method |-> "GET", path |-> "/p", query |-> None, body |-> None,
         hasFields |-> FALSE, res |-> Json(201)]
Post(doc) == [Get_ EXCEPT !.method = "POST", !.body = doc, !.hasFields = TRUE]

\* Without fields, a query, a nested body with null and number, dots and
\* brackets in outer names, the same in inner ones and an empty outermost name,
\* an array, a string in its place; with and without a response.
Logs ==
    {[Get_ EXCEPT !.res = Html],
     [Get_ EXCEPT !.query = Doc(<<a>> :> String("x"))],
     Post(Doc(<<a, b>> :> Scalar("1") @@ <<b>> :> Null)),
     [Post(Doc(<<ab>> :> String("1") @@ <<tags>> :> String("x")))
        EXCEPT !.res = NoResponse],
     Post(Doc(<<b, ab>> :> String("x") @@ <<b, tags>> :> String("x")
              @@ <<none, b>> :> String("1"))),
     Post(Doc(<<a>> :> String("x"))),
     Post([leaf |-> <<a, <<"0">> >> :> String("x") @@ <<a, <<"1">> >> :> Scalar("1"),
           arrays |-> <<a>> :> "2"])}

\* How lodash cuts the names with brackets, and what is inside the strings.
CutNames == tags :> <<"t", "">> @@ (b \o tags) :> <<"b", "t", "">>
InnerTexts ==
    [p \in {"x", "1"} \X {<< <<"0">> >>, << <<"length">> >>} |->
        IF p[2] = << <<"0">> >> THEN String(p[1]) ELSE Scalar("1")]

Values == {"", "x", "POST"}

\* "" is inside every text, and every text inside itself.
Texts == {"", "x", "1", "GET", "POST", "/p"}
Contained == {<<s, t>> \in Texts \X Texts : t \in {s, ""}}
=============================================================================
