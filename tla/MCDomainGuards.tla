---------------------------- MODULE MCDomainGuards ----------------------------
(* DomainGuards one statement at a time, on a web row and a mail row of the *)
(* same name and organization: the two purposes have different edges.       *)
EXTENDS DomainGuards

CONSTANTS o1, h1

BothPurposes == {"web", "mail"}
===============================================================================
