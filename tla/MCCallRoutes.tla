----------------------------- MODULE MCCallRoutes ----------------------------
(* Instances of CallRoutes for TLC.                                        *)
EXTENDS CallRoutes, TLC

Users == Permutations(User)

Under(ices, kinds, upset) == [ice : ices, kind : kinds, upsets : {upset}]

\* The fallbacks of direct calls undisturbed, room calls that somebody ends by
\* hand, and calls relayed from the start with failures and hang-ups between.
Lines == Under({"turn", "noturn"}, {"direct"}, {})
           \cup Under({"noturn"}, {"room"}, {"hangup"})
           \cup Under({"relayonly"}, {"direct"}, {"hangup", "drop", "reload", "restart"})

\* A chunk of voice, and a refusal of one, stands behind another frame in calls
\* relayed from the start only, where everything goes through the server, and
\* there not behind another chunk.
VoiceFirst ==
  LET sound == {"voice", "refused"}
  IN \A u \in User : \A i \in 2..Len(down[u]) :
       down[u][i].type \in sound =>
         config.ice = "relayonly" /\ down[u][i - 1].type \notin sound
=============================================================================
