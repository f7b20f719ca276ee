------------------------- MODULE MCClusterResolution -------------------------
(* Instances of ClusterResolution for the model checker. *)
EXTENDS ClusterResolution

CONSTANTS e1, e2, e3, e4, smith, jane, john, j, uni, washington, command

MCNothing ==
  [slug |-> "person", looks |-> "other", surname |-> None, given |-> None,
   initial |-> None, titled |-> FALSE, signs |-> {}, head |-> None, dc |-> FALSE,
   token |-> None, descriptor |-> None, attested |-> None]

MCPerson(slug, given, initial, titled) ==
  [MCNothing EXCEPT !.slug = slug, !.looks = IF titled THEN "person" ELSE "other",
     !.surname = smith, !.given = given, !.initial = initial, !.titled = titled]

MCScan(mentions, similar) ==
  [order |-> <<e1, e2, e3, e4>>, similar |-> similar,
   mention |-> e1 :> mentions[1] @@ e2 :> mentions[2] @@ e3 :> mentions[3]
               @@ e4 :> mentions[4]]

\* Gen. J. Smith, Jane Smith, Gen. John Smith and a bare Gen. Smith.
MCPeople ==
  MCScan(<<MCPerson("person", None, j, TRUE), MCPerson("person", jane, j, FALSE),
           MCPerson("person", john, j, TRUE), MCPerson("rank", None, None, TRUE)>>, {})

\* Washington DC, Washington of unknown type, DC, an organization called Washington.
MCPlaces ==
  MCScan(<<[MCNothing EXCEPT !.slug = "place", !.head = washington, !.dc = TRUE],
           [MCNothing EXCEPT !.slug = "untyped", !.token = washington],
           [MCNothing EXCEPT !.slug = "place", !.dc = TRUE],
           [MCNothing EXCEPT !.slug = "organization", !.token = washington]>>,
         {<<e1, e2>>, <<e2, e4>>, <<e1, e4>>})

\* A command by its name, by its acronym as a generic entity, as "the Command",
\* and its commander.
MCOrganizations ==
  MCScan(<<[MCNothing EXCEPT !.slug = "organization", !.looks = "organization",
             !.signs = {uni}, !.attested = command],
           [MCNothing EXCEPT !.slug = "entity", !.looks = "organization", !.signs = {uni}],
           [MCNothing EXCEPT !.slug = "organization", !.descriptor = command],
           MCPerson("person", john, j, TRUE)>>,
         {<<e1, e2>>, <<e1, e4>>, <<e2, e4>>})

MCScans == {MCPeople, MCPlaces, MCOrganizations}
==============================================================================
