---------------------------- MODULE MCAdmission ----------------------------
\* Four requests.  r1 and r2 compete for the one slot of openai, r1 and r3 for
\* the one held stream, and r2, r4 and one of the two others for two global
\* slots.  The budget of four bytes is short when r3, which needs two, meets
\* the others; one request may wait for payload, so a second one is shed.
\* ollama has no limit of its own.
EXTENDS Admission
CONSTANTS r1, r2, r3, r4, global, openai, ollama
MCCallers == {r1, r2, r3, r4}
MCBytes == [r \in Callers |-> IF r = r3 THEN 2 ELSE 1]
MCIsStream == [r \in Callers |-> r \in {r1, r3}]
MCProviders == {openai, ollama}
MCProviderOf == [r \in Callers |-> IF r \in {r1, r2} THEN openai ELSE ollama]
MCLimit == global :> 2 @@ openai :> 1 @@ ollama :> 0
=============================================================================
