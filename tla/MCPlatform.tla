------------------------------ MODULE MCPlatform ------------------------------
(* Three machines: Docker, Podman with its own Compose, and Podman with     *)
(* docker-compose and a metadata database of the user's.                    *)
EXTENDS Platform

MCHost == {[runtime |-> "docker", compose |-> "project", external |-> FALSE],
           [runtime |-> "podman", compose |-> "names",   external |-> FALSE],
           [runtime |-> "podman", compose |-> "project", external |-> TRUE]}
===============================================================================
