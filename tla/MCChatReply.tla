---------------------------- MODULE MCChatReply ----------------------------
EXTENDS ChatReply

Plain == [api |-> "chat", stream |-> FALSE, tools |-> FALSE, usage |-> FALSE,
          mode |-> "off", gate |-> "whole", image |-> FALSE]

\* Every kind of request that takes a path of its own.
MCRequests ==
    [api : {"chat"}, stream : {FALSE}, tools : {FALSE}, usage : {FALSE},
     mode : Modes, gate : Gates, image : {FALSE}]
    \cup {[Plain EXCEPT !.stream = TRUE, !.usage = TRUE],
          [Plain EXCEPT !.stream = TRUE, !.mode = "on"],
          [Plain EXCEPT !.stream = TRUE, !.mode = "auto", !.gate = "split"],
          [Plain EXCEPT !.stream = TRUE, !.tools = TRUE, !.usage = TRUE],
          [Plain EXCEPT !.tools = TRUE, !.mode = "auto"],
          [Plain EXCEPT !.mode = "on", !.image = TRUE]}
    \cup [api : {"responses"}, stream : BOOLEAN, tools : BOOLEAN, usage : {FALSE},
          mode : {"auto"}, gate : {"split"}, image : {FALSE}]
    \cup {[Plain EXCEPT !.api = "image"]}

MCChains == {<<Cheap>>, <<Cheap, "grok", "fable">>}
============================================================================
