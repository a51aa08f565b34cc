---------------------------- MODULE MCAgentGraph ----------------------------
(* Small instances of AgentGraph: the messages the LLM may answer with. *)
EXTENDS AgentGraph

CONSTANTS Click, Extras

Says(text) == [NoReply EXCEPT !.done = (text = "done"),
                              !.blocked = (text = "blocked"),
                              !.failed = (text = "failed")]
Marks(r, ids) == [r EXCEPT !.marks = ids]
Calls(r, tool, more) == [r EXCEPT !.tool = tool, !.extra = more]
Offsite(r) == [r EXCEPT !.offSite = TRUE]

\* Text only: nothing, a completion, a blockage, a failed checkpoint, a late
\* checkpoint marked before an early one, and a mark no checkpoint has.
TextReplies ==
    {NoReply, Says("done"), Says("blocked"), Says("failed"),
     Marks(NoReply, {2}), Marks(NoReply, {1, 9})}

\* Tool calls: on and off the site, and together with a completion signal.
CallReplies(more) ==
    {Calls(NoReply, Click, more), Calls(NoReply, Navigate, more),
     Offsite(Calls(NoReply, Navigate, more)),
     Calls(Marks(Says("done"), {2}), Click, more),
     Offsite(Calls(Says("done"), Navigate, more))}

MCTools == {Navigate, Click}
MCReplies == TextReplies \cup UNION {CallReplies(more) : more \in Extras}

\* One message of each kind an unguided run tells apart.
MCPlainReplies ==
    {NoReply, Says("done"), Says("blocked"), Calls(NoReply, Click, 0),
     Offsite(Calls(NoReply, Navigate, 0))}
=============================================================================
