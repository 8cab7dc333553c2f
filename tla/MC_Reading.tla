----------------------------- MODULE MC_Reading ------------------------------
(* Two sessions of one workshop, in two collections, and one of another.   *)
(* The first event of s1 may come after its second, and so move its start  *)
(* and its labels; s2's two events come in one batch or one by one; s3's   *)
(* come under either token, whose labels the client's collide with.        *)
EXTENDS Reading, TLC

CONSTANTS s1, s2, s3, t1, t2, none

X == <<"x">>
Y == <<"y">>
ClientX == <<"client", "x">>
ClientY == <<"client", "y">>
ClientClientY == <<"client", "client", "y">>

Labelled(key, value) == [key |-> key, value |-> value]

Event(s, seq, ts, labels) ==
  [sid |-> s, seq |-> seq, ts |-> ts, opens |-> seq = 1, labels |-> labels]

e11 == Event(s1, 1, 1, <<>>)
e12 == Event(s1, 2, 4, <<Labelled(X, "c")>>)
e21 == Event(s2, 1, 3, <<Labelled(ClientX, "c"), Labelled(X, "d")>>)
e22 == Event(s2, 2, 4, <<>>)
e31 == Event(s3, 1, 3, <<Labelled(ClientClientY, "a"), Labelled(ClientY, "b"),
                         Labelled(Y, "c"), Labelled(X, "c")>>)

MCEvents == {e11, e12, e21, e22, e31}

MCNoClaims == [jti |-> none, labels |-> <<>>]
Claims1    == [jti |-> t1, labels |-> X :> "o"]
Claims2    == [jti |-> t2, labels |-> X :> "o" @@ Y :> "o" @@ ClientY :> "o"]
MCClaims   == {Claims1, Claims2}

Batch(events, claims) == [events |-> events, claims |-> claims]

MCPosts == {Batch(<<e11>>, Claims1), Batch(<<e12>>, MCNoClaims),
            Batch(<<e12>>, Claims1),
            Batch(<<e22>>, Claims1), Batch(<<e21, e22>>, Claims1),
            Batch(<<e31>>, Claims1), Batch(<<e31, e12>>, Claims2)}

\* What shows that labels are lost: e31 under a token with y and client.y.
MCLabelPosts == {Batch(<<e31, e12>>, Claims2)}

MCImports == {[claims |-> MCNoClaims, labels |-> <<>>],
              [claims |-> Claims1, labels |-> X :> "i" @@ Y :> "i"]}

MCRank == s1 :> 2 @@ s2 :> 1 @@ s3 :> 3
MCName == s1 :> "w" @@ s2 :> "w" @@ s3 :> "v"
MCCollection == s1 :> "c1" @@ s2 :> "c2" @@ s3 :> "c1"

Ask(name, collection, since, until, labels) ==
  [name |-> name, collection |-> collection, since |-> since,
   until |-> until, labels |-> labels]

MCFilters ==
  {Ask(Unfiltered, Unfiltered, 0, 9, {}),
   Ask("w", Unfiltered, 0, 9, {}),
   Ask(Unfiltered, Unfiltered, 2, 4,
       {[key |-> Y, operator |-> "!=", values |-> {"o"}]}),
   Ask(Unfiltered, "c1", 0, 9,
       {[key |-> X, operator |-> "in", values |-> {"o", "z"}]})}

=============================================================================
