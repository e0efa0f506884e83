----------------------- MODULE MCHypothesisDiscovery -----------------------
EXTENDS HypothesisDiscovery, TLC

CONSTANTS a, b, c, supplier, perception, research, calls, alex, sam

MCOwnerOf == supplier :> alex @@ perception :> sam

MCSourceOf == a :> research @@ b :> calls @@ c :> calls

\* The demonstration's documents match the first rule in both sources.
MCFixture == a :> {1} @@ b :> {1} @@ c :> {}

\* Later no document matches, a third one joins the evidence, or the second
\* rule joins the statement.
MCCorpora == {a :> {} @@ b :> {} @@ c :> {},
              a :> {1} @@ b :> {1} @@ c :> {},
              a :> {1} @@ b :> {1} @@ c :> {1},
              a :> {1, 2} @@ b :> {1, 2} @@ c :> {}}

=============================================================================
