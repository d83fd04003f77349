-------------------------- MODULE MCOnboardComputer --------------------------
(* Messages for OnboardComputer: the two steering types with and without a *)
(* thread, an empty key, the camera, and the ways to be malformed or cut.  *)
EXTENDS OnboardComputer

Type(w) == <<Key("type"), Word(w)>>
Field(k, i) == <<Key(k), Number(i)>>

MCPlatforms == { <<"plane", 0>>, <<"plane", 1>>, <<"sat-SAR", 1>>,
                 <<"sat-SAR", 9>> }

MCWellFormed ==
    { Type("attitude") \o Field("roll", 2) \o Field("thread", 1),
      Type("attitude") \o Field("pitch", 3),
      Type("attitude") \o Field("yaw", 1) \o Field("thread", 0),
      Type("attitude") \o Field("roll", 1) \o Field("roll", 3),
      Type("xiaoxuan") \o Field("roll", 2) \o Field("thread", 9),
      Type("xiaoxuan") \o <<Key("thread"), Word("x")>> \o Field("yaw", 1),
      Type("attitude") \o <<Key(""), Number(5)>> \o Field("yaw", 2),
      Type("camera"),
      Type("status"),
      <<Key("type")>> }

\* The last one is well-formed, and cut after a key by a buffer of 7 tokens.
MCMalformed ==
    { <<>>,
      Type("attitude") \o <<Key("thread")>> \o Field("yaw", 1),
      Type("xiaoxuan") \o <<Key("roll"), Word("x")>>,
      Type("attitude") \o <<Key("")>>,
      Type("attitude") \o Field("thread", 1) \o Field("pitch", 1)
                       \o Field("roll", 2) }

MCBodies == MCWellFormed \cup MCMalformed
MCChunks == UNION {{body[i] : i \in DOMAIN body} : body \in MCBodies}
=============================================================================
