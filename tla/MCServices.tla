------------------------------ MODULE MCServices ------------------------------
(* Churn on two of three ConfigMaps, and one instance of each other program.   *)
EXTENDS Services
CONSTANTS m1, m2
MCChurned == <<m1, m2>>
================================================================================
