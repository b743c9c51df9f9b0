------------------------- MODULE MCShareAuditQueue -------------------------
(* A subtitle, which MoviePilot organises, and a picture.                  *)
EXTENDS ShareAuditQueue, TLC

CONSTANTS r1, r2, r3, sub, nfo

MCItemsOf == [r \in Runs |-> IF r = r1 THEN Items ELSE {sub}]

\* One run with two files in a task: some fail, some are refused, others succeed.
Ends == [runs |-> {r1}, made |-> 1, turns |-> 3, crashes |-> 0, unsaved |-> 0, refused |-> 1,
         uncleaned |-> 0]

\* One run with one file, half of which cannot be removed.
Stays == [Ends EXCEPT !.runs = {r2}, !.refused = 0, !.uncleaned = 1]

\* Two overlapping runs over one file, and nothing that goes wrong.
Plain == [runs |-> {r2, r3}, made |-> 2, turns |-> 1, crashes |-> 0, unsaved |-> 0, refused |-> 0,
          uncleaned |-> 0]

\* The same with a process that ends, or a file that cannot be written.
Crashes == [Plain EXCEPT !.crashes = 1]
Unsaves == [Plain EXCEPT !.unsaved = 1]

MCScenarios == {Ends, Stays, Crashes, Unsaves}
MCPlain == {Plain}
=============================================================================
